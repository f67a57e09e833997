----------------------------- MODULE MoneyProofs -----------------------------
(***************************************************************************)
(* Proofs about the components that guard the money: SpendLedger, for      *)
(* every set of runs, wallets and campaigns, every choice of caps and      *)
(* every way the host clock is set; FleetWatch, for every set of runs of   *)
(* the watched wallet and every number of transactions, accepts and        *)
(* faults; and StoreWriter, in which their rows are kept, for every set of *)
(* processes and runs and every number of transactions.                    *)
(***************************************************************************)
EXTENDS MCSpendLedger, FleetWatch, NumberLemmas, FiniteSetTheorems, FunctionTheorems, SequenceTheorems, TLAPS

(* A pending row is not younger than the watermark: with it the tolerance of *)
(* the admission clock bounds how far back a later row can be stamped.       *)
PendingBelowWatermark == \A x \in Rows : status[x] = "reserved" => created[x] <= watermark

YoungInv == TypeOK /\ PendingBelowWatermark /\ PendingIsYoung

-----------------------------------------------------------------------------
(* Every step of admission, settlement, release and the clocks keeps the     *)
(* types; the watermark in particular never becomes an earlier instant.      *)
LEMMA TypeStep == TypeOK /\ [Next]_vars => TypeOK'
<1> SUFFICES ASSUME TypeOK, [Next]_vars PROVE TypeOK'
  OBVIOUS
<1> USE LedgerAssumption DEF TypeOK
<1>1. ASSUME NEW r \in Runs, Admit(r) PROVE TypeOK'
  <2>1. clock \in Int
    BY DEF clock
  <2>2. watermark' \in Nat
    BY <1>1, <2>1 DEF Admit, Advanced
  <2>3. /\ status' \in [Rows -> {"none", "reserved", "settled", "released"}]
        /\ created' \in [Rows -> Int]
    BY <1>1, <2>1 DEF Admit
  <2> QED
    BY <1>1, <2>2, <2>3 DEF Admit
<1>2. ASSUME NEW x \in Rows, Mine(x) PROVE TypeOK'
  BY <1>2 DEF Mine
<1>3. ASSUME NEW x \in Rows, Settle(x) PROVE TypeOK'
  BY <1>3 DEF Settle, clock
<1>4. ASSUME NEW x \in Rows, Release(x) PROVE TypeOK'
  BY <1>4 DEF Release
<1>5. CASE Tick
  BY <1>5 DEF Tick
<1>6. CASE SetClock
  BY <1>6 DEF SetClock
<1>7. CASE UNCHANGED vars
  BY <1>7 DEF vars
<1> QED
  BY <1>1, <1>2, <1>3, <1>4, <1>5, <1>6, <1>7 DEF Next

(* Admission keeps pending rows within a window of one another: the stale    *)
(* check bounds the older ones from below, the watermark from above.         *)
LEMMA YoungStep ==
  ASSUME YoungInv, [Next]_vars
  PROVE  PendingBelowWatermark' /\ PendingIsYoung'
<1> USE LedgerAssumption DEF YoungInv, TypeOK, PendingBelowWatermark, PendingIsYoung
<1>1. ASSUME NEW r \in Runs, Admit(r)
      PROVE  PendingBelowWatermark' /\ PendingIsYoung'
  <2> DEFINE fresh == {x \in RowsOf(r) : status[x] = "none"}
  <2>1. clock \in Int /\ clock + Skew >= watermark
    BY <1>1 DEF Admit, WindowOpen, clock
  <2>2. watermark' \in Int /\ watermark' >= watermark /\ watermark' >= clock
    BY <1>1, <2>1 DEF Admit, Advanced
  <2>3. \A x \in Rows : status[x] = "reserved" => created[x] > clock - Window
    BY <1>1, <2>1 DEF Admit, WindowOpen, StalePending, rollingSpendCutoff
  <2>4. \A x \in Rows : status'[x] = "reserved" =>
           \/ created'[x] = clock
           \/ status[x] = "reserved" /\ created'[x] = created[x]
    BY <1>1 DEF Admit
  <2> HIDE DEF fresh
  <2>5. PendingBelowWatermark'
    BY <2>1, <2>2, <2>4
  <2>6. PendingIsYoung'
    <3> SUFFICES ASSUME NEW x \in Rows, NEW y \in Rows,
                        status'[x] = "reserved", status'[y] = "reserved"
                 PROVE  created'[y] - created'[x] < Window
      OBVIOUS
    <3>1. CASE created'[x] = clock /\ created'[y] = clock
      BY <3>1, <2>1
    <3>2. CASE created'[x] = clock /\ status[y] = "reserved" /\ created'[y] = created[y]
      BY <3>2, <2>1
    <3>3. CASE created'[y] = clock /\ status[x] = "reserved" /\ created'[x] = created[x]
      BY <3>3, <2>1, <2>3
    <3>4. CASE /\ status[x] = "reserved" /\ created'[x] = created[x]
               /\ status[y] = "reserved" /\ created'[y] = created[y]
      BY <3>4
    <3> QED
      BY <2>4, <3>1, <3>2, <3>3, <3>4
  <2> QED
    BY <2>5, <2>6
<1>2. ASSUME NEW x \in Rows, Mine(x) \/ Settle(x) \/ Release(x)
      PROVE  PendingBelowWatermark' /\ PendingIsYoung'
  BY <1>2 DEF Mine, Settle, Release
<1>3. CASE Tick \/ SetClock \/ UNCHANGED vars
  BY <1>3 DEF Tick, SetClock, vars
<1> QED
  BY <1>1, <1>2, <1>3 DEF Next

(* A run inserts rows only for wallets that have none on its campaign.       *)
LEMMA OneRowStep ==
  ASSUME TypeOK, OneRowPerMint, [Next]_vars
  PROVE  OneRowPerMint'
<1> USE DEF TypeOK, OneRowPerMint
<1>1. ASSUME NEW r \in Runs, Admit(r) PROVE OneRowPerMint'
  <2> DEFINE fresh == {x \in RowsOf(r) : status[x] = "none"}
  <2>1. \A x \in Rows : status'[x] # "none" => x \in fresh \/ status[x] # "none"
    BY <1>1 DEF Admit
  <2>2. \A x \in fresh : Unused(x)
    BY <1>1 DEF Admit
  <2>3. \A x, y \in fresh : WalletOf(x) = WalletOf(y) => x = y
    BY DEF RowsOf, Rows, RunOf, WalletOf
  <2>4. fresh \subseteq Rows
    BY DEF RowsOf
  <2> SUFFICES ASSUME NEW x \in Rows, NEW y \in Rows, Campaign(x) = Campaign(y),
                      WalletOf(x) = WalletOf(y), status'[x] # "none", status'[y] # "none"
               PROVE  x = y
    BY DEF Campaign, WalletOf, RunOf
  <2> HIDE DEF fresh
  <2>5. CASE x \in fresh
    BY <2>1, <2>2, <2>3, <2>5 DEF Unused
  <2>6. CASE y \in fresh
    BY <2>1, <2>2, <2>3, <2>6 DEF Unused
  <2>7. CASE x \notin fresh /\ y \notin fresh
    BY <2>1, <2>7
  <2> QED
    BY <2>5, <2>6, <2>7
<1>2. ASSUME NEW x \in Rows, Mine(x) \/ Settle(x) \/ Release(x) PROVE OneRowPerMint'
  <2>1. \A y \in Rows : status'[y] # "none" => status[y] # "none"
    BY <1>2 DEF Mine, Settle, Release
  <2> QED
    BY <2>1 DEF Campaign, WalletOf, RunOf
<1>3. CASE Tick \/ SetClock \/ UNCHANGED vars
  BY <1>3 DEF Tick, SetClock, vars, Campaign, WalletOf, RunOf
<1> QED
  BY <1>1, <1>2, <1>3 DEF Next

-----------------------------------------------------------------------------
(* The caps.  Span is the rolling day less what the clock may be off.        *)

Span == Window - 2 * MaxDrift

(* What may still count within the span that ends at t: money that is        *)
(* pending, and money that left late enough.                                 *)
Recent(S, t) == {x \in S : status[x] = "reserved" \/ (minedAt[x] # -1 /\ minedAt[x] >= t - Span)}

Day(S, cap) ==
  /\ TotalAmount(Recent(S, time)) <= cap
  /\ \A t \in 0 .. time : TotalAmount(MinedWithin(S, t)) <= cap

WalletRows(w) == {x \in Rows : WalletOf(x) = w}
PaidRows == {x \in Rows : Campaign(x) \in Paid}
FreeRows == {x \in Rows : Campaign(x) \notin Paid}

(* A row settles after its money left, so on the host clock at most a drift  *)
(* before; money leaves under a reservation only.                            *)
SettledLate ==
  \A x \in Rows :
    /\ minedAt[x] \in -1 .. time
    /\ status[x] \in {"none", "released"} => minedAt[x] = -1
    /\ status[x] = "settled" => minedAt[x] # -1 /\ settledAt[x] >= minedAt[x] - MaxDrift

DaysHold ==
  /\ \A w \in Wallets : Day(WalletRows(w), DailyCap)
  /\ Day(PaidRows, PaidDailyCap)
  /\ Day(FreeRows, FreeDailyCap)

CapsInv == TypeOK /\ SettledLate /\ DaysHold /\ PaidWalletsBounded

(* There are finitely many rows, each with a natural exposure, so their sums *)
(* behave as sums do.                                                        *)
LEMMA RowsFinite == IsFiniteSet(Rows) /\ \A x \in Rows : Exposure[x] = Amount[Campaign(x)] /\ Exposure[x] \in Nat
<1>1. IsFiniteSet(Runs \X Wallets)
  BY LedgerAssumption, FS_Product
<1>2. Rows \in SUBSET (Runs \X Wallets)
  BY DEF Rows
<1>3. \A x \in Rows : RunOf(x) \in Runs
  BY DEF Rows, RunOf
<1> QED
  BY <1>1, <1>2, <1>3, FS_Subset, LedgerAssumption DEF Exposure, Campaign

(* Sums over rows, from the lemmas on sums.                                  *)
LEMMA TotalFacts ==
  ASSUME NEW S \in SUBSET Rows
  PROVE  /\ TotalAmount(S) \in Nat /\ TotalAmount({}) = 0
         /\ \A T \in SUBSET S : TotalAmount(T) <= TotalAmount(S)
         /\ \A x \in S : TotalAmount(S) = Exposure[x] + TotalAmount(S \ {x})
<1>1. \A T : TotalAmount(T) = SumOf(Exposure, T)
  BY DEF TotalAmount, SumOf
<1>2. IsFiniteSet(S) /\ \A x \in S : Exposure[x] \in Nat
  BY RowsFinite, FS_Subset
<1> QED
  BY <1>1, <1>2, SumType, SumMonotone, SumTakes

(* What a step may do to the true time and to what was mined.                *)
LEMMA TimeFacts ==
  ASSUME TypeOK, [Next]_vars
  PROVE  /\ time \in Nat /\ time' \in Nat /\ (time' = time \/ time' = time + 1)
         /\ \A x \in Rows : minedAt'[x] \in Int
               /\ (minedAt'[x] = minedAt[x] \/ (minedAt'[x] = time /\ time' = time))
<1> USE LedgerAssumption DEF TypeOK
<1> DEFINE Goal == /\ time \in Nat /\ time' \in Nat /\ (time' = time \/ time' = time + 1)
                   /\ \A x \in Rows : minedAt'[x] \in Int
                        /\ (minedAt'[x] = minedAt[x] \/ (minedAt'[x] = time /\ time' = time))
<1> SUFFICES Goal
  OBVIOUS
<1>0. time \in Nat
  OBVIOUS
<1>1. ASSUME NEW r \in Runs, Admit(r) PROVE Goal
  BY <1>0, <1>1 DEF Admit
<1>2. ASSUME NEW x \in Rows, Mine(x) PROVE Goal
  BY <1>0, <1>2 DEF Mine
<1>3. ASSUME NEW x \in Rows, Settle(x) \/ Release(x) PROVE Goal
  BY <1>0, <1>3 DEF Settle, Release
<1>4. CASE Tick
  BY <1>0, <1>4 DEF Tick
<1>5. CASE SetClock \/ UNCHANGED vars
  BY <1>0, <1>5 DEF SetClock, vars
<1> HIDE DEF Goal
<1> QED
  BY <1>1, <1>2, <1>3, <1>4, <1>5 DEF Next

(* A day that holds of a set of rows still holds after a step that leaves    *)
(* its recent rows within the cap.                                           *)
LEMMA DayStep ==
  ASSUME TypeOK, SettledLate, [Next]_vars, NEW S \in SUBSET Rows, NEW cap \in Nat, Day(S, cap),
         TotalAmount(Recent(S, time)') <= cap
  PROVE  Day(S, cap)'
<1> USE LedgerAssumption DEF TypeOK, SettledLate
<1>1. time' \in Nat /\ (time' = time \/ time' = time + 1) /\ time \in Nat
  BY TimeFacts
<1>2. \A x \in Rows : minedAt'[x] \in Int
                       /\ (minedAt'[x] = minedAt[x] \/ (minedAt'[x] = time /\ time' = time))
  BY TimeFacts
<1>3. ASSUME NEW t \in 0 .. time'
      PROVE  TotalAmount(MinedWithin(S, t)') <= cap
  <2>1. CASE t = time'
    <3>1. \A x \in S : minedAt'[x] # -1 /\ minedAt'[x] \in t - (Window - 2 * MaxDrift) .. t
                        => minedAt'[x] >= time' - Span
      BY <2>1, <1>1, <1>2 DEF Span
    <3>2. MinedWithin(S, t)' \in SUBSET Recent(S, time)'
      BY <3>1 DEF MinedWithin, Recent
    <3>3. Recent(S, time)' \in SUBSET Rows
      BY DEF Recent
    <3>4. TotalAmount(MinedWithin(S, t)') <= TotalAmount(Recent(S, time)')
      BY <3>2, <3>3, TotalFacts
    <3>5. TotalAmount(MinedWithin(S, t)') \in Nat /\ TotalAmount(Recent(S, time)') \in Nat
      BY <3>2, <3>3, TotalFacts
    <3> QED
      BY <3>4, <3>5
  <2>2. CASE t # time'
    <3>1. t \in 0 .. time /\ (t # time \/ time' # time)
      BY <2>2, <1>1
    <3>2. \A x \in S : minedAt'[x] \in t - (Window - 2 * MaxDrift) .. t => minedAt'[x] = minedAt[x]
      BY <1>1, <1>2, <2>2
    <3>3. MinedWithin(S, t)' \in SUBSET MinedWithin(S, t)
      BY <3>2 DEF MinedWithin
    <3>4. MinedWithin(S, t) \in SUBSET Rows
      BY DEF MinedWithin
    <3>5. TotalAmount(MinedWithin(S, t)') <= TotalAmount(MinedWithin(S, t))
      BY <3>3, <3>4, TotalFacts
    <3>6. TotalAmount(MinedWithin(S, t)') \in Nat /\ TotalAmount(MinedWithin(S, t)) \in Nat
      BY <3>3, <3>4, TotalFacts
    <3>7. TotalAmount(MinedWithin(S, t)) <= cap
      BY <3>1 DEF Day
    <3> QED
      BY <3>5, <3>6, <3>7
  <2> QED
    BY <2>1, <2>2
<1> QED
  BY <1>3 DEF Day

(* Only admission adds to what is recent: every other step frees a row, ages *)
(* it, or changes what it counts for without its entering the set.           *)
LEMMA RecentShrinks ==
  ASSUME TypeOK, SettledLate, [Next]_vars, ~ \E r \in Runs : Admit(r), NEW S \in SUBSET Rows
  PROVE  Recent(S, time)' \in SUBSET Recent(S, time)
<1> USE LedgerAssumption DEF TypeOK, SettledLate, Recent, Span
<1>1. ASSUME NEW x \in Rows, Mine(x) PROVE Recent(S, time)' \in SUBSET Recent(S, time)
  BY <1>1 DEF Mine
<1>2. ASSUME NEW x \in Rows, Settle(x) PROVE Recent(S, time)' \in SUBSET Recent(S, time)
  BY <1>2 DEF Settle
<1>3. ASSUME NEW x \in Rows, Release(x) PROVE Recent(S, time)' \in SUBSET Recent(S, time)
  BY <1>3 DEF Release
<1>4. CASE Tick
  BY <1>4 DEF Tick
<1>5. CASE SetClock \/ UNCHANGED vars
  BY <1>5 DEF SetClock, vars
<1> QED
  BY <1>1, <1>2, <1>3, <1>4, <1>5 DEF Next

(* A step after which nothing new is recent keeps every day.                 *)
LEMMA DayAges ==
  ASSUME TypeOK, SettledLate, [Next]_vars, NEW S \in SUBSET Rows, NEW cap \in Nat, Day(S, cap),
         Recent(S, time)' \in SUBSET Recent(S, time)
  PROVE  Day(S, cap)'
<1>1. Recent(S, time) \in SUBSET Rows
  BY DEF Recent
<1>2. TotalAmount(Recent(S, time)') <= TotalAmount(Recent(S, time))
  BY <1>1, TotalFacts
<1>3. TotalAmount(Recent(S, time)') \in Nat /\ TotalAmount(Recent(S, time)) \in Nat
  BY <1>1, TotalFacts
<1>4. TotalAmount(Recent(S, time)) <= cap
  BY DEF Day
<1> QED
  BY <1>2, <1>3, <1>4, DayStep

(* SettledLate is kept.                                                      *)
LEMMA LateStep ==
  ASSUME TypeOK, SettledLate, [Next]_vars
  PROVE  SettledLate'
<1> USE LedgerAssumption DEF TypeOK, SettledLate
<1>0. \A x \in Rows : minedAt[x] \in -1 .. time /\ time \in Nat /\ MaxDrift \in Nat
  OBVIOUS
<1>1. ASSUME NEW r \in Runs, Admit(r) PROVE SettledLate'
  <2>1. \A x \in Rows : status'[x] = status[x] \/ (status[x] = "none" /\ status'[x] = "reserved")
    BY <1>1 DEF Admit
  <2> QED
    BY <1>1, <2>1 DEF Admit
<1>2. ASSUME NEW x \in Rows, Mine(x) PROVE SettledLate'
  BY <1>0, <1>2 DEF Mine
<1>3. ASSUME NEW x \in Rows, Settle(x) PROVE SettledLate'
  BY <1>0, <1>3 DEF Settle, clock
<1>4. ASSUME NEW x \in Rows, Release(x) PROVE SettledLate'
  BY <1>0, <1>4 DEF Release
<1>5. CASE Tick
  BY <1>0, <1>5 DEF Tick
<1>6. CASE SetClock \/ UNCHANGED vars
  BY <1>6 DEF SetClock, vars
<1> QED
  BY <1>1, <1>2, <1>3, <1>4, <1>5, <1>6 DEF Next

(* A row that is recent counts on the host clock, wherever in its drift the  *)
(* clock is: this is what the day is shortened for.                          *)
LEMMA RecentCounts ==
  ASSUME TypeOK, SettledLate, NEW x \in Rows,
         status[x] = "reserved" \/ (minedAt[x] # -1 /\ minedAt[x] >= time - Span)
  PROVE  Counted(x, clock)
<1> USE LedgerAssumption DEF TypeOK, SettledLate
<1>1. CASE status[x] = "reserved"
  BY <1>1 DEF Counted
<1>2. CASE status[x] # "reserved"
  <2>1. status[x] = "settled" /\ settledAt[x] >= minedAt[x] - MaxDrift
    BY <1>2
  <2>2. settledAt[x] >= clock - Window
    BY <1>2, <2>1 DEF Span, clock
  <2> QED
    BY <2>1, <2>2 DEF Counted, rollingSpendCutoff
<1> QED
  BY <1>1, <1>2

(* What admission adds to what is recent is its fresh rows.                  *)
LEMMA AdmitAdds ==
  ASSUME TypeOK, NEW r \in Runs, Admit(r), NEW S \in SUBSET Rows
  PROVE  LET fresh == {x \in RowsOf(r) : status[x] = "none"}
         IN  /\ Recent(S, time)' \in SUBSET (Recent(S, time) \cup (fresh \cap S))
             /\ fresh \in SUBSET Rows
             /\ fresh # {} => FleetCapOk(r, fresh, clock) /\ CapsOk(r, fresh, clock)
<1> DEFINE fresh == {x \in RowsOf(r) : status[x] = "none"}
<1>1. \A x \in Rows : status'[x] = (IF x \in fresh THEN "reserved" ELSE status[x])
  BY DEF Admit, TypeOK
<1>2. minedAt' = minedAt /\ time' = time
  BY DEF Admit
<1>3. fresh \in SUBSET Rows
  BY DEF RowsOf
<1>4. FleetCapOk(r, fresh, clock) /\ CapsOk(r, fresh, clock)
  BY DEF Admit
<1> HIDE DEF fresh
<1>5. Recent(S, time)' \in SUBSET (Recent(S, time) \cup (fresh \cap S))
  BY <1>1, <1>2 DEF Recent
<1> QED
  BY <1>3, <1>4, <1>5 DEF fresh

(* The daily cap of a wallet is checked against all its counted rows and the *)
(* new one (assertCaps), and a run has one row per wallet.                   *)
LEMMA WalletAdmit ==
  ASSUME TypeOK, SettledLate, NEW r \in Runs, Admit(r), NEW w \in Wallets, Day(WalletRows(w), DailyCap)
  PROVE  TotalAmount(Recent(WalletRows(w), time)') <= DailyCap
<1> DEFINE fresh == {x \in RowsOf(r) : status[x] = "none"}
           S == WalletRows(w)
<1>1. /\ Recent(S, time)' \in SUBSET (Recent(S, time) \cup (fresh \cap S))
      /\ S \in SUBSET Rows /\ fresh \in SUBSET Rows /\ Recent(S, time) \in SUBSET Rows
      /\ fresh # {} => CapsOk(r, fresh, clock)
  BY AdmitAdds DEF WalletRows, Recent
<1>2. CASE fresh \cap S = {}
  <2>1. Recent(S, time)' \in SUBSET Recent(S, time)
    BY <1>1, <1>2
  <2>2. TotalAmount(Recent(S, time)') <= TotalAmount(Recent(S, time))
    BY <1>1, <2>1, TotalFacts
  <2>3. TotalAmount(Recent(S, time)') \in Nat /\ TotalAmount(Recent(S, time)) \in Nat
    BY <1>1, <2>1, TotalFacts
  <2> QED
    BY <2>2, <2>3, LedgerAssumption DEF Day
<1>3. CASE fresh \cap S # {}
  <2>1. PICK x \in fresh : x \in S
    BY <1>3
  <2>2. x \in Rows /\ RunOf(x) = r /\ WalletOf(x) = w /\ status[x] = "none"
    BY <1>1, <2>1 DEF WalletRows, RowsOf
  <2>3. fresh \cap S = {x}
    BY <2>1, <2>2 DEF RowsOf, Rows, RunOf, WalletOf, WalletRows
  <2> DEFINE D == DailyRows(w, clock)
  <2>4. D \in SUBSET Rows /\ x \notin D
    BY <2>2 DEF DailyRows, Counted
  <2>5. Recent(S, time) \in SUBSET D
    BY RecentCounts DEF Recent, DailyRows, WalletRows
  <2>6. TotalAmount(D) + Amount[CampaignOf[r]] <= DailyCap
    BY <1>1, <2>1, <2>2 DEF CapsOk
  <2>7. Exposure[x] = Amount[CampaignOf[r]]
    BY <2>2, RowsFinite DEF Campaign
  <2> HIDE DEF fresh, S, D
  <2>8. Recent(S, time)' \in SUBSET (D \cup {x}) /\ (D \cup {x}) \in SUBSET Rows /\ (D \cup {x}) \ {x} = D
    BY <1>1, <2>2, <2>3, <2>4, <2>5
  <2>9. TotalAmount(Recent(S, time)') <= TotalAmount(D \cup {x})
    BY <2>8, TotalFacts
  <2>10. TotalAmount(D \cup {x}) = Exposure[x] + TotalAmount(D)
    BY <2>8, TotalFacts
  <2>11. TotalAmount(Recent(S, time)') \in Nat /\ TotalAmount(D \cup {x}) \in Nat /\ TotalAmount(D) \in Nat /\ Exposure[x] \in Nat
    BY <2>8, <2>4, <2>2, TotalFacts, RowsFinite
  <2>12. TotalAmount(Recent(S, time)') <= DailyCap
    BY <2>6, <2>7, <2>9, <2>10, <2>11, LedgerAssumption
  <2> QED
    BY <2>12 DEF S
<1> QED
  BY <1>2, <1>3

(* The fleet cap is checked against every counted row of the same kind, paid *)
(* or free, and all new rows together (assertFleetDailyCap).                 *)
LEMMA FleetAdmit ==
  ASSUME TypeOK, SettledLate, NEW r \in Runs, Admit(r), NEW paid \in BOOLEAN,
         NEW cap, cap = IF paid THEN PaidDailyCap ELSE FreeDailyCap,
         NEW S, S = {x \in Rows : (Campaign(x) \in Paid) = paid}, Day(S, cap)
  PROVE  TotalAmount(Recent(S, time)') <= cap
<1> DEFINE fresh == {x \in RowsOf(r) : status[x] = "none"}
<1>1. /\ Recent(S, time)' \in SUBSET (Recent(S, time) \cup (fresh \cap S))
      /\ S \in SUBSET Rows /\ fresh \in SUBSET Rows /\ Recent(S, time) \in SUBSET Rows
      /\ fresh # {} => FleetCapOk(r, fresh, clock)
      /\ cap \in Nat
  BY AdmitAdds, LedgerAssumption DEF Recent
<1>2. CASE fresh \cap S = {}
  <2>1. Recent(S, time)' \in SUBSET Recent(S, time)
    BY <1>1, <1>2
  <2>2. TotalAmount(Recent(S, time)') <= TotalAmount(Recent(S, time))
    BY <1>1, <2>1, TotalFacts
  <2>3. TotalAmount(Recent(S, time)') \in Nat /\ TotalAmount(Recent(S, time)) \in Nat
    BY <1>1, <2>1, TotalFacts
  <2> QED
    BY <1>1, <2>2, <2>3, LedgerAssumption DEF Day
<1>3. CASE fresh \cap S # {}
  <2>1. PICK x \in fresh : x \in S
    BY <1>3
  <2>2. paid = (CampaignOf[r] \in Paid)
    BY <2>1 DEF RowsOf, Campaign
  <2> DEFINE D == FleetRows(paid, clock)
  <2>3. TotalAmount(D \cup fresh) <= cap
    BY <1>1, <2>1, <2>2 DEF FleetCapOk
  <2>4. Recent(S, time) \in SUBSET D
    BY RecentCounts DEF Recent, FleetRows
  <2>5. D \in SUBSET Rows
    BY DEF FleetRows
  <2> HIDE DEF fresh, D
  <2>6. Recent(S, time)' \in SUBSET (D \cup fresh) /\ (D \cup fresh) \in SUBSET Rows
    BY <1>1, <2>4, <2>5
  <2>7. TotalAmount(Recent(S, time)') <= TotalAmount(D \cup fresh)
    BY <2>6, TotalFacts
  <2>8. TotalAmount(Recent(S, time)') \in Nat /\ TotalAmount(D \cup fresh) \in Nat
    BY <2>6, TotalFacts
  <2> QED
    BY <1>1, <2>3, <2>7, <2>8
<1> QED
  BY <1>2, <1>3

(* Every day holds after every step.                                         *)
LEMMA DaysStep ==
  ASSUME TypeOK, SettledLate, DaysHold, [Next]_vars
  PROVE  DaysHold'
<1>0. /\ \A w \in Wallets : WalletRows(w) \in SUBSET Rows
      /\ PaidRows \in SUBSET Rows /\ FreeRows \in SUBSET Rows
      /\ DailyCap \in Nat /\ PaidDailyCap \in Nat /\ FreeDailyCap \in Nat
  BY LedgerAssumption DEF WalletRows, PaidRows, FreeRows
<1>1. CASE \E r \in Runs : Admit(r)
  <2>1. PICK r \in Runs : Admit(r)
    BY <1>1
  <2>2. \A w \in Wallets : Day(WalletRows(w), DailyCap)'
    BY <1>0, <2>1, WalletAdmit, DayStep DEF DaysHold
  <2>3. PaidRows = {x \in Rows : (Campaign(x) \in Paid) = TRUE}
        /\ FreeRows = {x \in Rows : (Campaign(x) \in Paid) = FALSE}
    BY DEF PaidRows, FreeRows
  <2>4. Day(PaidRows, PaidDailyCap)'
    BY <1>0, <2>1, <2>3, FleetAdmit, DayStep DEF DaysHold
  <2>5. Day(FreeRows, FreeDailyCap)'
    BY <1>0, <2>1, <2>3, FleetAdmit, DayStep DEF DaysHold
  <2> QED
    BY <2>2, <2>4, <2>5 DEF DaysHold, WalletRows, PaidRows, FreeRows, WalletOf, RunOf, Campaign
<1>2. CASE ~ \E r \in Runs : Admit(r)
  <2>1. \A S \in SUBSET Rows : Recent(S, time)' \in SUBSET Recent(S, time)
    BY <1>2, RecentShrinks
  <2>2. \A w \in Wallets : Day(WalletRows(w), DailyCap)'
    BY <1>0, <2>1, DayAges DEF DaysHold
  <2>3. Day(PaidRows, PaidDailyCap)' /\ Day(FreeRows, FreeDailyCap)'
    BY <1>0, <2>1, DayAges DEF DaysHold
  <2> QED
    BY <2>2, <2>3 DEF DaysHold
<1> QED
  BY <1>1, <1>2

(* The wallets with pending or settled money on a campaign are counted with  *)
(* the whole fleet of the run before any row of it is written.               *)
LEMMA WalletsStep ==
  ASSUME TypeOK, PaidWalletsBounded, [Next]_vars
  PROVE  PaidWalletsBounded'
<1> DEFINE Held(c) == {y \in Rows : Campaign(y) = c /\ status[y] \in {"reserved", "settled"}}
           Ws(c) == {WalletOf(x) : x \in Held(c)}
<1> SUFFICES ASSUME NEW c \in Paid PROVE Cardinality(Ws(c)') <= MaxPaidWallets
  BY DEF PaidWalletsBounded, WalletOf, Campaign, RunOf
<1>0. Cardinality(Ws(c)) <= MaxPaidWallets
  BY DEF PaidWalletsBounded
<1>1. Ws(c) \in SUBSET Wallets /\ Ws(c)' \in SUBSET Wallets
  BY DEF Rows, WalletOf
<1>2. \A A, B : B \in SUBSET Wallets /\ A \in SUBSET B =>
         IsFiniteSet(B) /\ Cardinality(A) \in Nat /\ Cardinality(B) \in Nat /\ Cardinality(A) <= Cardinality(B)
  <2> SUFFICES ASSUME NEW A, NEW B, B \in SUBSET Wallets, A \in SUBSET B
               PROVE  IsFiniteSet(B) /\ Cardinality(A) \in Nat /\ Cardinality(B) \in Nat /\ Cardinality(A) <= Cardinality(B)
    OBVIOUS
  <2>1. IsFiniteSet(B)
    BY LedgerAssumption, FS_Subset
  <2>2. IsFiniteSet(A)
    BY <2>1, FS_Subset
  <2> QED
    BY <2>1, <2>2, FS_Subset, FS_CardinalityType
<1>3. ASSUME Ws(c)' \in SUBSET Ws(c) PROVE Cardinality(Ws(c)') <= MaxPaidWallets
  BY <1>0, <1>1, <1>2, <1>3, LedgerAssumption
<1>4. ASSUME NEW r \in Runs, Admit(r) PROVE Cardinality(Ws(c)') <= MaxPaidWallets
  <2>1. \A y \in Rows : status'[y] # status[y] => status[y] = "none" /\ RunOf(y) = r /\ WalletOf(y) \in FleetOf[r]
    BY <1>4 DEF Admit, RowsOf, Rows, RunOf, WalletOf, TypeOK
  <2>2. CASE c = CampaignOf[r]
    <3>1. Cardinality(Ws(c) \cup FleetOf[r]) <= MaxPaidWallets
      BY <1>4, <2>2 DEF Admit, PaidWalletsOk
    <3>2. Ws(c)' \in SUBSET (Ws(c) \cup FleetOf[r])
      BY <2>1 DEF Campaign, WalletOf, RunOf
    <3>3. (Ws(c) \cup FleetOf[r]) \in SUBSET Wallets
      BY <1>1, LedgerAssumption
    <3> HIDE DEF Ws
    <3>4. /\ Cardinality(Ws(c)') <= Cardinality(Ws(c) \cup FleetOf[r])
          /\ Cardinality(Ws(c)') \in Nat /\ Cardinality(Ws(c) \cup FleetOf[r]) \in Nat
      BY <3>2, <3>3, <1>2
    <3> QED
      BY <3>1, <3>4, LedgerAssumption
  <2>3. CASE c # CampaignOf[r]
    <3>1. \A y \in Rows : Campaign(y) = c => status'[y] = status[y]
      BY <2>1, <2>3 DEF Campaign
    <3>2. Ws(c)' \in SUBSET Ws(c)
      BY <3>1 DEF Campaign, WalletOf, RunOf
    <3> QED
      BY <3>2, <1>3
  <2> QED
    BY <2>2, <2>3
<1>5. ASSUME NEW x \in Rows, Mine(x) \/ Settle(x) \/ Release(x) PROVE Ws(c)' \in SUBSET Ws(c)
  <2>1. \A y \in Rows : status'[y] \in {"reserved", "settled"} => status[y] \in {"reserved", "settled"}
    BY <1>5 DEF Mine, Settle, Release, TypeOK
  <2> QED
    BY <2>1 DEF Campaign, WalletOf, RunOf
<1>6. CASE Tick \/ SetClock \/ UNCHANGED vars
  <2>1. status' = status
    BY <1>6 DEF Tick, SetClock, vars
  <2>2. Ws(c)' \in SUBSET Ws(c)
    BY <2>1 DEF Campaign, WalletOf, RunOf
  <2> QED
    BY <2>2, <1>3
<1> HIDE DEF Ws
<1> QED
  BY <1>3, <1>4, <1>5, <1>6 DEF Next

(* Before the first admission nothing is held and nothing has left.          *)
LEMMA CapsInit == Init => CapsInv
<1> SUFFICES ASSUME Init PROVE CapsInv
  OBVIOUS
<1> USE LedgerAssumption
<1>1. TypeOK /\ SettledLate
  BY DEF Init, TypeOK, SettledLate
<1>2. \A S \in SUBSET Rows : Recent(S, time) = {} /\ \A t : MinedWithin(S, t) = {}
  BY DEF Init, Recent, MinedWithin
<1>3. TotalAmount({}) = 0
  BY TotalFacts
<1>4. DaysHold
  <2>1. ASSUME NEW S \in SUBSET Rows, NEW cap \in Nat PROVE Day(S, cap)
    <3>1. TotalAmount(Recent(S, time)) <= cap
      BY <1>2, <1>3
    <3>2. ASSUME NEW t PROVE TotalAmount(MinedWithin(S, t)) <= cap
      <4>1. MinedWithin(S, t) = {}
        BY <1>2, Zenon
      <4> QED
        BY <4>1, <1>3
    <3> QED
      BY <3>1, <3>2 DEF Day
  <2>2. PaidRows \in SUBSET Rows /\ FreeRows \in SUBSET Rows /\ \A w \in Wallets : WalletRows(w) \in SUBSET Rows
    BY DEF PaidRows, FreeRows, WalletRows
  <2> QED
    BY <2>1, <2>2 DEF DaysHold
<1>5. PaidWalletsBounded
  <2> SUFFICES ASSUME NEW c \in Paid
               PROVE Cardinality({WalletOf(x) : x \in {y \in Rows : Campaign(y) = c /\ status[y] \in {"reserved", "settled"}}})
                       <= MaxPaidWallets
    BY DEF PaidWalletsBounded
  <2>1. {WalletOf(x) : x \in {y \in Rows : Campaign(y) = c /\ status[y] \in {"reserved", "settled"}}} = {}
    BY DEF Init
  <2> QED
    BY <2>1, FS_EmptySet
<1> QED
  BY <1>1, <1>4, <1>5 DEF CapsInv

-----------------------------------------------------------------------------
(* The ledger keeps its types, for every set of runs and every clock.        *)
THEOREM LedgerTypeCorrect == Spec => []TypeOK
<1>1. Init => TypeOK
  BY LedgerAssumption DEF Init, TypeOK
<1> QED
  BY <1>1, TypeStep, PTL DEF Spec

(* Two reservations that are pending at once were never admitted a window    *)
(* apart on the store's clock, whoever sets that clock and whenever: money   *)
(* that stays pending stops admission (assertNoStalePendingReservations).    *)
THEOREM PendingYoung == Spec => []PendingIsYoung
<1>1. Init => YoungInv
  BY LedgerAssumption DEF Init, YoungInv, TypeOK, PendingBelowWatermark, PendingIsYoung
<1>2. YoungInv /\ [Next]_vars => YoungInv'
  BY TypeStep, YoungStep DEF YoungInv
<1>3. YoungInv => PendingIsYoung
  BY DEF YoungInv
<1> QED
  BY <1>1, <1>2, <1>3, PTL DEF Spec

(* A wallet has at most one reservation for a campaign, ever, over any       *)
(* number of runs and retries (CAMPAIGN_WALLET_ALREADY_USED).                *)
THEOREM MintedOnce == Spec => []OneRowPerMint
<1>1. Init => TypeOK /\ OneRowPerMint
  BY LedgerAssumption DEF Init, TypeOK, OneRowPerMint
<1>2. TypeOK /\ OneRowPerMint /\ [Next]_vars => (TypeOK /\ OneRowPerMint)'
  BY TypeStep, OneRowStep
<1> QED
  BY <1>1, <1>2, PTL DEF Spec

(* In no window of true time, shortened by what the host clock may be off at *)
(* its two ends, does more money leave a wallet, or the fleet for paid or    *)
(* for free mints, than the caps allow; and no paid campaign has more        *)
(* wallets than it may.  For every fleet, set of runs and caps, however the  *)
(* host clock is set within its drift (canonical-store.ts assertCaps,        *)
(* assertFleetDailyCap, assertPaidWalletsPerMint).                           *)
THEOREM CapsAlwaysHold == Spec => []CapsHold
<1>1. Init => CapsInv
  BY CapsInit
<1>2. CapsInv /\ [Next]_vars => CapsInv'
  BY TypeStep, LateStep, DaysStep, WalletsStep DEF CapsInv
<1>3. CapsInv => CapsHold
  BY DEF CapsInv, DaysHold, Day, WalletRows, PaidRows, FreeRows, CapsHold, WalletDayHolds, FleetDayHolds
<1> QED
  BY <1>1, <1>2, <1>3, PTL DEF Spec

-----------------------------------------------------------------------------
(* The fleet watch                                                         *)

LogEvent == [kind : {"baseline", "accept"}, nonce : 0 .. MaxNonce, bal : 0 .. Balance + 1, at : 0 .. LastTime, seen : 0 .. LastTime]
Baseline == [nonce : 0 .. MaxNonce, bal : 0 .. Balance + 1, at : 0 .. LastTime]

\* What a wallet has on the chain and how many transactions it has sent never add up to less;
\* a transaction count is used once, by a run whose attempt was recorded for it, or by somebody else.
ChainKept ==
  /\ chain.nonce + chain.bal \in {Balance, Balance + 1}
  /\ \A n \in Nonces : spender[n] # "none" <=> n < chain.nonce
  /\ \A n \in Nonces : spender[n] \in WalletRuns => attempt[spender[n]] = n

\* Up to a transaction count, the owner or MintBot's own records vouch for every thief.
Vouched(m) == \A n \in Nonces : spender[n] = "thief" /\ n < m => n < trusted \/ n < KnownNext

\* What was read of the chain, and kept, was on the chain, and somebody vouched for it.
Known(m) == m <= chain.nonce /\ Vouched(m)
KeptIsKnown ==
  /\ base # None => Known(base.nonce)
  /\ \A i \in DOMAIN log : Known(log[i].nonce)
  /\ check.reading.nonce <= chain.nonce
  /\ check.pc = "proven" => Known(check.reading.nonce)
  /\ command.nonce <= chain.nonce

\* A check that has read and a command that has begun have their times.
Dated ==
  /\ check.pc = "read" => check.at \in 0 .. LastTime
  /\ command # NoCommand => command.at \in 0 .. LastTime

\* The reservation of a run is open, or ended at a time or later.
Settling(r, at) == Open(r) \/ (res[r].status \in {"settled", "released"} /\ res[r].at >= at)

\* A state the wallet once had, and what it lost since: a run of its own for every transaction,
\* whose reservation is open or ended after that state was read.
Explained(nonce, bal, at) ==
  /\ nonce + bal <= chain.nonce + chain.bal
  /\ at <= watchTime
  /\ \A n \in Nonces : nonce <= n /\ n < chain.nonce => Settling(spender[n], at)

\* While nobody else has used the wallet, nothing has stopped the bot, the owner has accepted
\* nothing, and every state that is kept explains the wallet as it is now.
Blameless ==
  Foreign = {} =>
    /\ ~killed /\ command = NoCommand /\ check.pc \in {"idle", "read"}
    /\ base # None => Explained(base.nonce, base.bal, base.at)
    /\ \A i \in DOMAIN log : log[i].kind = "baseline" /\ Explained(log[i].nonce, log[i].bal, log[i].seen)
    /\ check.pc = "read" =>
         /\ Explained(check.reading.nonce, check.reading.bal, check.at)
         /\ base # None => base.nonce + base.bal <= check.reading.nonce + check.reading.bal

WatchInv == WatchTypeOK /\ log \in Seq(LogEvent) /\ ChainKept /\ Dated /\ KeptIsKnown /\ Blameless

-----------------------------------------------------------------------------
(* The operators                                                           *)

\* SetMax is the largest element of a set of numbers that has a bound.
LEMMA SetMaxIs ==
  ASSUME NEW S \in SUBSET Int, S # {}, NEW a \in Int, NEW b \in Int, \A x \in S : a <= x /\ x <= b
  PROVE  SetMax(S) \in S /\ \A y \in S : y <= SetMax(S)
<1> DEFINE T == {b - x : x \in S}
<1>1. T \in SUBSET Nat /\ T # {}
  <2>1. \A x \in S : b - x \in Nat
    OBVIOUS
  <2>2. PICK x \in S : TRUE
    OBVIOUS
  <2>3. b - x \in T
    OBVIOUS
  <2> QED
    BY <2>1, <2>3
<1>2. PICK t \in T : \A u \in T : t <= u
  BY <1>1, LeastOf
<1>3. PICK x \in S : t = b - x
  BY <1>2
<1>4. \A y \in S : y <= x
  <2> TAKE y \in S
  <2>1. b - y \in T
    OBVIOUS
  <2>2. t <= b - y
    BY <1>2, <2>1
  <2> QED
    BY <1>3, <2>2
<1> QED
  BY <1>3, <1>4 DEF SetMax

\* The count after the largest of all attempts is past each of them, and past no other count.
LEMMA PastAttempts ==
  ASSUME NEW f \in [WalletRuns -> -1 .. MaxNonce - 1], NEW k,
         k = IF \E r \in WalletRuns : f[r] # -1 THEN SetMax({f[r] : r \in WalletRuns}) + 1 ELSE 0
  PROVE  /\ k \in 0 .. MaxNonce
         /\ \A n \in Nat : n < k <=> \E r \in WalletRuns : n <= f[r]
<1>1. MaxNonce \in Nat
  BY WatchAssumption
<1> DEFINE S == {f[r] : r \in WalletRuns}
<1>2. CASE \E r \in WalletRuns : f[r] # -1
  <2>1. S \in SUBSET Int /\ S # {} /\ \A x \in S : -1 <= x /\ x <= MaxNonce - 1
    BY <1>1, <1>2
  <2> HIDE DEF S
  <2>2. SetMax(S) \in S /\ \A y \in S : y <= SetMax(S)
    <3>1. -1 \in Int /\ MaxNonce - 1 \in Int
      BY <1>1
    <3> QED
      BY <2>1, <3>1, SetMaxIs
  <2>9. \A r \in WalletRuns : f[r] \in S
    BY DEF S
  <2>10. \A x \in S : \E r \in WalletRuns : x = f[r]
    BY DEF S
  <2>3. k = SetMax(S) + 1
    BY <1>2 DEF S
  <2>4. SetMax(S) \in 0 .. MaxNonce - 1
    <3>1. PICK r \in WalletRuns : f[r] # -1
      BY <1>2
    <3>2. f[r] \in 0 .. MaxNonce - 1 /\ f[r] <= SetMax(S)
      BY <1>1, <2>2, <2>9, <3>1
    <3>3. SetMax(S) \in -1 .. MaxNonce - 1
      BY <2>2, <2>10
    <3> QED
      BY <1>1, <3>2, <3>3
  <2>5. ASSUME NEW n \in Nat PROVE n < k <=> \E r \in WalletRuns : n <= f[r]
    <3>1. n < k <=> n <= SetMax(S)
      BY <2>3, <2>4
    <3>2. ASSUME n <= SetMax(S) PROVE \E r \in WalletRuns : n <= f[r]
      BY <2>2, <2>10, <3>2
    <3>3. ASSUME NEW r \in WalletRuns, n <= f[r] PROVE n <= SetMax(S)
      <4>1. f[r] <= SetMax(S) /\ f[r] \in Int /\ SetMax(S) \in Int
        BY <1>1, <2>2, <2>4, <2>9
      <4> QED
        BY <3>3, <4>1
    <3> QED
      BY <3>1, <3>2, <3>3
  <2> QED
    BY <1>1, <2>3, <2>4, <2>5
<1>3. CASE ~ \E r \in WalletRuns : f[r] # -1
  BY <1>1, <1>3
<1> QED
  BY <1>2, <1>3

LEMMA KnownNextIs ==
  ASSUME WatchTypeOK
  PROVE  /\ KnownNext \in 0 .. MaxNonce
         /\ \A n \in Nat : n < KnownNext <=> \E r \in WalletRuns : n <= attempt[r]
BY PastAttempts DEF WatchTypeOK, KnownNext

\* The larger of two numbers.
LEMMA PairMax ==
  ASSUME NEW a \in Int, NEW b \in Int
  PROVE  SetMax({a, b}) \in {a, b} /\ a <= SetMax({a, b}) /\ b <= SetMax({a, b})
BY DEF SetMax

\* The log with one more event has that event and events it had before.
LEMMA AddedIs ==
  ASSUME log \in Seq(LogEvent), NEW e \in LogEvent, NEW s \in Added(e)
  PROVE  /\ s \in Seq(LogEvent)
         /\ \A i \in DOMAIN s : s[i] = e \/ \E j \in DOMAIN log : s[i] = log[j]
<1> DEFINE U == {e} \union {log[j] : j \in DOMAIN log}
<1>0. DOMAIN log = 1 .. Len(log) /\ Len(log) \in Nat /\ \A j \in DOMAIN log : log[j] \in LogEvent /\ log[j] \in U
  OBVIOUS
<1>1. log \in Seq(U) /\ e \in U
  BY <1>0
<1>2. U \subseteq LogEvent /\ \A x \in U : x = e \/ \E j \in DOMAIN log : x = log[j]
  BY <1>0
<1> HIDE DEF U
<1>3. \A m, n \in Int : 1 <= m /\ n <= Len(log) => SubSeq(log, m, n) \in Seq(U)
  <2> SUFFICES ASSUME NEW m \in Int, NEW n \in Int, 1 <= m, n <= Len(log) PROVE SubSeq(log, m, n) \in Seq(U)
    OBVIOUS
  <2>1. \A i \in m .. n : log[i] \in U
    BY <1>0, <1>1
  <2> QED
    BY <2>1, SubSeqProperties
<1>4. Older \in Seq(U)
  BY <1>0, <1>1, <1>3 DEF Older
<1>5. ASSUME NEW n \in DOMAIN log PROVE SubSeq(log, 1, n - 1) \o <<e>> \o SubSeq(log, n, Len(log)) \in Seq(U)
  <2>1. SubSeq(log, 1, n - 1) \in Seq(U) /\ SubSeq(log, n, Len(log)) \in Seq(U) /\ <<e>> \in Seq(U)
    BY <1>0, <1>1, <1>3, <1>5
  <2>2. SubSeq(log, 1, n - 1) \o <<e>> \in Seq(U)
    BY <2>1, ConcatProperties
  <2> QED
    BY <2>1, <2>2, ConcatProperties
<1>6. \/ s = Append(Older, e) \/ s = log
      \/ \E n \in DOMAIN log : s = SubSeq(log, 1, n - 1) \o <<e>> \o SubSeq(log, n, Len(log))
  BY DEF Added, Places
<1>7. s \in Seq(U)
  <2>1. Append(Older, e) \in Seq(U)
    BY <1>1, <1>4
  <2> QED
    BY <1>1, <1>5, <1>6, <2>1
<1>8. \A i \in DOMAIN s : s[i] \in U
  BY <1>7
<1>9. s \in Seq(LogEvent)
  BY <1>2, <1>7, <1>8
<1> QED
  BY <1>2, <1>8, <1>9

\* What load finds: the baseline there is, or a stored baseline or accept.
LEMMA LoadedIs ==
  ASSUME log \in Seq(LogEvent)
  PROVE  \/ Loaded = base
         \/ /\ base = None
            /\ \E i \in DOMAIN log : Loaded = [nonce |-> log[i].nonce, bal |-> log[i].bal, at |-> log[i].seen]
<1>1. CASE base # None \/ log = <<>>
  BY <1>1 DEF Loaded
<1>2. CASE base = None /\ log # <<>>
  <2>1. Len(log) \in DOMAIN log
    BY <1>2
  <2> QED
    BY <1>2, <2>1 DEF Loaded
<1> QED
  BY <1>1, <1>2

\* What syncAccepts leaves: the baseline there is, or the state of a stored accept.
LEMMA SyncedIs ==
  ASSUME log \in Seq(LogEvent), NEW b, NEW r
  PROVE  \/ Synced(b, r) = b
         \/ \E i \in DOMAIN log : /\ log[i].kind = "accept"
                                  /\ Synced(b, r) = [nonce |-> log[i].nonce, bal |-> log[i].bal, at |-> log[i].at]
<1> DEFINE A == Adoptable(b, r)
           newest == CHOOSE i \in A : \A j \in A \ {i} : log[j].at < log[i].at \/ (log[j].at = log[i].at /\ i < j)
<1>1. CASE A = {}
  BY <1>1 DEF Synced
<1>2. CASE A # {}
  <2>1. A \subseteq DOMAIN log /\ \A i \in A : log[i].kind = "accept"
    BY DEF Adoptable, Walked
  <2>2. LastTime \in Nat /\ \A i \in A : log[i].at \in 0 .. LastTime /\ i \in Nat
    <3>1. \A i \in DOMAIN log : log[i] \in LogEvent /\ i \in Nat
      OBVIOUS
    <3>2. LastTime \in Nat
      BY WatchAssumption
    <3> HIDE DEF A
    <3> QED
      BY <2>1, <3>1, <3>2 DEF LogEvent
  <2> HIDE DEF A
  <2>3. PICK a \in A : \A j \in A : log[j].at <= log[a].at
    <3> DEFINE T == {log[i].at : i \in A}
    <3>1. T \in SUBSET (0 .. LastTime) /\ T # {}
      BY <1>2, <2>2
    <3>2. PICK t \in T : \A u \in T : u <= t
      BY <2>2, <3>1, LargestOf
    <3> QED
      BY <3>2
  <2>4. PICK f \in {i \in A : log[i].at = log[a].at} : \A j \in {i \in A : log[i].at = log[a].at} : f <= j
    <3> DEFINE F == {i \in A : log[i].at = log[a].at}
    <3>1. F \in SUBSET Nat /\ F # {}
      BY <2>2
    <3> HIDE DEF F
    <3>2. \E x \in F : \A y \in F : x <= y
      BY <3>1, LeastOf
    <3> QED
      BY <3>2 DEF F
  <2>5. \A j \in A \ {f} : log[j].at < log[f].at \/ (log[j].at = log[f].at /\ f < j)
    <3> TAKE j \in A \ {f}
    <3>1. log[j].at \in Int /\ log[a].at \in Int /\ j \in Int /\ f \in Int /\ log[j].at <= log[a].at /\ log[f].at = log[a].at
      BY <2>2, <2>3, <2>4
    <3>2. CASE log[j].at = log[a].at
      BY <2>4, <3>1, <3>2
    <3>3. CASE log[j].at # log[a].at
      BY <3>1, <3>3
    <3> QED
      BY <3>2, <3>3
  <2>6. newest \in A
    BY <2>4, <2>5
  <2>7. Synced(b, r) = [nonce |-> log[newest].nonce, bal |-> log[newest].bal, at |-> log[newest].at]
    BY <1>2 DEF Synced, A
  <2> HIDE DEF newest
  <2> QED
    BY <2>1, <2>6, <2>7
<1> QED
  BY <1>1, <1>2

-----------------------------------------------------------------------------
(* What every step leaves                                                  *)

\* Steps only add: transactions to the chain, attempts, trust and time; what a transaction count
\* was used for stays, whoever joins is a run with an open reservation or a stranger, and a
\* reservation that is settling stays so.
Grows ==
  /\ chain.nonce <= chain'.nonce
  /\ chain.nonce + chain.bal <= chain'.nonce + chain'.bal
  /\ watchTime <= watchTime' /\ trusted <= trusted'
  /\ \A n \in Nonces : n < chain.nonce => spender'[n] = spender[n]
  /\ \A n \in Nonces : chain.nonce <= n /\ n < chain'.nonce /\ spender'[n] \in WalletRuns => Open(spender[n])'
  /\ \A r \in WalletRuns : attempt[r] <= attempt'[r]
  /\ \A n \in Nonces, at \in 0 .. watchTime :
       n < chain.nonce /\ spender[n] \in WalletRuns /\ Settling(spender[n], at) => Settling(spender[n], at)'

LEMMA Facts ==
  ASSUME WatchTypeOK
  PROVE  /\ watchTime \in Nat /\ trusted \in Nat /\ chain.nonce \in 0 .. MaxNonce /\ chain.bal \in 0 .. Balance + 1
         /\ chain \in [nonce : 0 .. MaxNonce, bal : 0 .. Balance + 1]
         /\ spender \in [Nonces -> WalletRuns \union {"none", "thief", "treasury"}]
         /\ attempt \in [WalletRuns -> -1 .. MaxNonce - 1]
         /\ res \in [WalletRuns -> [status : {"none", "reserved", "settled", "released"}, at : -1 .. LastTime]]
         /\ MaxNonce \in Nat /\ Balance \in Nat /\ LastTime \in Nat
         /\ check.reading \in Reading /\ check.reading.nonce \in 0 .. MaxNonce /\ command.nonce \in 0 .. MaxNonce
BY WatchAssumption DEF WatchTypeOK, Reading

\* A step that leaves chain and books alone, and lets time and trust grow.
LEMMA QuietGrows ==
  ASSUME WatchTypeOK, UNCHANGED <<chain, spender, res, attempt>>, watchTime <= watchTime', trusted <= trusted'
  PROVE  Grows
<1>1. chain.nonce \in Nat /\ chain.bal \in Nat /\ \A r \in WalletRuns : attempt[r] \in Int
  BY Facts
<1> QED
  BY <1>1 DEF Grows, Settling, Open, Nonces

LEMMA NextGrows ==
  ASSUME WatchTypeOK, ChainKept, [WatchNext]_fleetVars
  PROVE  Grows
<1>0. /\ watchTime \in Nat /\ trusted \in Nat /\ chain.nonce \in 0 .. MaxNonce /\ chain.bal \in 0 .. Balance + 1
      /\ MaxNonce \in Nat /\ Balance \in Nat
      /\ check.reading.nonce \in 0 .. MaxNonce /\ command.nonce \in 0 .. MaxNonce
  BY Facts
<1>1. ASSUME NEW r \in WalletRuns, Reserve(r) PROVE Grows
  <2>1. UNCHANGED <<chain, spender, attempt, watchTime, trusted>> /\ res[r].status = "none"
        /\ res' = [res EXCEPT ![r] = [status |-> "reserved", at |-> watchTime]]
    BY <1>1 DEF Reserve, walletVars
  <2>2. \A s \in WalletRuns, at \in 0 .. watchTime : Settling(s, at) => Settling(s, at)'
    BY <2>1, Facts DEF Settling, Open
  <2>3. \A s \in WalletRuns : attempt[s] \in Int
    BY Facts
  <2> QED
    BY <1>0, <2>1, <2>2, <2>3 DEF Grows, Nonces
<1>2. ASSUME NEW r \in WalletRuns, RecordAttempt(r) PROVE Grows
  <2>1. UNCHANGED <<chain, spender, res, watchTime, trusted>> /\ attempt[r] = -1 /\ attempt' = [attempt EXCEPT ![r] = chain.nonce]
    BY <1>2 DEF RecordAttempt, walletVars
  <2>2. \A s \in WalletRuns : attempt[s] <= attempt'[s]
    BY <1>0, <2>1, Facts
  <2> QED
    BY <1>0, <2>1, <2>2 DEF Grows, Nonces, Settling, Open
<1>3. ASSUME NEW r \in WalletRuns, OwnMined(r) PROVE Grows
  <2>1. /\ UNCHANGED <<attempt, res, watchTime, trusted>> /\ Open(r)
        /\ chain.nonce \in Nonces /\ spender' = [spender EXCEPT ![chain.nonce] = r]
        /\ chain' = [nonce |-> chain.nonce + 1, bal |-> chain.bal - 1]
    BY <1>0, <1>3, Facts DEF OwnMined, bookVars, Nonces
  <2>2. \A n \in Nonces : n # chain.nonce => spender'[n] = spender[n]
    BY <2>1, Facts
  <2>3. spender'[chain.nonce] = r
    BY <2>1, Facts
  <2>4. chain'.nonce = chain.nonce + 1 /\ chain'.bal = chain.bal - 1
    BY <2>1
  <2>5. \A n \in Nonces : chain.nonce <= n /\ n < chain'.nonce /\ spender'[n] \in WalletRuns => Open(spender[n])'
    <3> SUFFICES ASSUME NEW n \in Nonces, chain.nonce <= n, n < chain'.nonce PROVE Open(spender[n])'
      OBVIOUS
    <3>1. n = chain.nonce
      BY <1>0, <2>4 DEF Nonces
    <3> QED
      BY <2>1, <2>3, <3>1 DEF Open
  <2>6. \A s \in WalletRuns : attempt[s] \in Int
    BY Facts
  <2> QED
    BY <1>0, <2>1, <2>2, <2>4, <2>5, <2>6 DEF Grows, Nonces, Settling, Open
<1>4. ASSUME NEW r \in WalletRuns, Close(r) PROVE Grows
  <2>1. UNCHANGED <<chain, spender, attempt, watchTime, trusted>>
    BY <1>4 DEF Close, walletVars
  <2>2. \/ res' = [res EXCEPT ![r] = [status |-> "settled", at |-> watchTime]]
        \/ (attempt[r] = -1 \/ spender[attempt[r]] # r) /\ res' = [res EXCEPT ![r].status = "released"]
    BY <1>4 DEF Close
  <2>3. ASSUME NEW n \in Nonces, NEW at \in 0 .. watchTime, n < chain.nonce, spender[n] \in WalletRuns, Settling(spender[n], at)
        PROVE  Settling(spender[n], at)'
    <3>1. attempt[spender[n]] = n /\ n # -1
      BY <2>3 DEF ChainKept, Nonces
    <3>2. CASE spender[n] # r
      <4>1. res'[spender[n]] = res[spender[n]]
        BY <2>2, <2>3, <3>2, Facts
      <4> QED
        BY <2>1, <2>3, <4>1 DEF Settling, Open
    <3>3. CASE spender[n] = r
      <4>1. res'[r] = [status |-> "settled", at |-> watchTime]
        BY <2>2, <3>1, <3>3, Facts
      <4>2. res'[r].status = "settled" /\ res'[r].at >= at
        BY <1>0, <4>1
      <4> QED
        BY <2>1, <3>3, <4>2 DEF Settling
    <3> QED
      BY <3>2, <3>3
  <2>4. \A s \in WalletRuns : attempt[s] \in Int
    BY Facts
  <2> QED
    BY <1>0, <2>1, <2>3, <2>4 DEF Grows, Nonces
<1>5. ASSUME NEW who \in {"thief", "treasury"}, Spend(who) PROVE Grows
  <2>1. /\ UNCHANGED <<attempt, res, watchTime, trusted>>
        /\ chain.nonce \in Nonces /\ spender' = [spender EXCEPT ![chain.nonce] = who]
        /\ chain' = [nonce |-> chain.nonce + 1, bal |-> chain.bal - 1]
    BY <1>0, <1>5 DEF Spend, bookVars, Nonces
  <2>2. \A n \in Nonces : n # chain.nonce => spender'[n] = spender[n]
    BY <2>1, Facts
  <2>3. spender'[chain.nonce] \notin WalletRuns
    BY <2>1, Facts, WalletRunsAssumption
  <2>4. chain'.nonce = chain.nonce + 1 /\ chain'.bal = chain.bal - 1
    BY <2>1
  <2>5. \A n \in Nonces : chain.nonce <= n /\ n < chain'.nonce => n = chain.nonce
    BY <1>0, <2>4 DEF Nonces
  <2>6. \A s \in WalletRuns : attempt[s] \in Int
    BY Facts
  <2> QED
    BY <1>0, <2>1, <2>2, <2>3, <2>4, <2>5, <2>6 DEF Grows, Nonces, Settling, Open
<1>6. CASE Deposit
  <2>1. UNCHANGED <<spender, attempt, res, watchTime, trusted>> /\ chain'.nonce = chain.nonce /\ chain'.bal = chain.bal + 1
    BY <1>6, Facts DEF Deposit, bookVars
  <2>2. \A s \in WalletRuns : attempt[s] \in Int
    BY Facts
  <2> QED
    BY <1>0, <2>1, <2>2 DEF Grows, Nonces, Settling, Open
<1>7. CASE Judge
  <2>1. UNCHANGED <<chain, spender, res, attempt, watchTime>>
        /\ (trusted' = trusted \/ trusted' = SetMax({trusted, check.reading.nonce}))
    BY <1>7 DEF Judge, walletVars, bookVars
  <2>2. trusted <= SetMax({trusted, check.reading.nonce})
    <3>1. trusted \in Int /\ check.reading.nonce \in Int
      BY <1>0
    <3> QED
      BY <3>1, PairMax
  <2> QED
    BY <1>0, <2>1, <2>2, QuietGrows
<1>8. CASE AcceptStore
  <2>1. UNCHANGED <<chain, spender, res, attempt, watchTime>> /\ trusted' = SetMax({trusted, command.nonce})
    BY <1>8 DEF AcceptStore, walletVars, bookVars
  <2>2. trusted <= SetMax({trusted, command.nonce})
    <3>1. trusted \in Int /\ command.nonce \in Int
      BY <1>0
    <3> QED
      BY <3>1, PairMax
  <2> QED
    BY <1>0, <2>1, <2>2, QuietGrows
<1>9. CASE TickRead \/ Confirm \/ ConfirmFails \/ CommitReturn \/ Alarm \/ AcceptBegin \/ KillRelease \/ ClockTick \/ Crash \/ UNCHANGED fleetVars
  <2>1. UNCHANGED <<chain, spender, res, attempt, trusted>> /\ (watchTime' = watchTime \/ watchTime' = watchTime + 1)
    BY <1>9 DEF TickRead, Confirm, ConfirmFails, CommitReturn, Alarm, AcceptBegin, KillRelease, ClockTick, Crash, walletVars, bookVars, fleetVars
  <2> QED
    BY <1>0, <2>1, QuietGrows
<1> QED
  BY <1>1, <1>2, <1>3, <1>4, <1>5, <1>6, <1>7, <1>8, <1>9 DEF WatchNext

-----------------------------------------------------------------------------
(* The types                                                               *)

LEMMA WatchFacts ==
  ASSUME WatchTypeOK, Dated
  PROVE  /\ check \in [pc : {"idle", "read", "confirm", "proven", "alarm"}, reading : Reading, at : -1 .. LastTime]
         /\ check.reading.nonce \in 0 .. MaxNonce /\ check.reading.bal \in 0 .. Balance + 1
         /\ command \in [at : -1 .. LastTime, nonce : 0 .. MaxNonce, bal : 0 .. Balance + 1]
         /\ base = None \/ base \in Baseline
         /\ watchTime \in 0 .. LastTime /\ synced \in -1 .. LastTime
         /\ NoCheck \in [pc : {"idle", "read", "confirm", "proven", "alarm"}, reading : Reading, at : -1 .. LastTime]
         /\ NoCommand \in [at : -1 .. LastTime, nonce : 0 .. MaxNonce, bal : 0 .. Balance + 1]
         /\ None \notin Baseline
<1>1. MaxNonce \in Nat /\ Balance \in Nat /\ LastTime \in Nat
  BY WatchAssumption
<1>2. /\ check \in [pc : {"idle", "read", "confirm", "proven", "alarm"}, reading : Reading, at : -1 .. LastTime]
      /\ command \in [at : -1 .. LastTime, nonce : 0 .. MaxNonce, bal : 0 .. Balance + 1]
      /\ base = None \/ base \in Baseline
      /\ watchTime \in 0 .. LastTime /\ synced \in -1 .. LastTime
  BY DEF WatchTypeOK, Baseline
<1>3. check.reading.nonce \in 0 .. MaxNonce /\ check.reading.bal \in 0 .. Balance + 1
  BY <1>2 DEF Reading
<1>4. /\ NoCheck \in [pc : {"idle", "read", "confirm", "proven", "alarm"}, reading : Reading, at : -1 .. LastTime]
      /\ NoCommand \in [at : -1 .. LastTime, nonce : 0 .. MaxNonce, bal : 0 .. Balance + 1]
      /\ None \notin Baseline
  BY <1>1 DEF NoCheck, NoCommand, Reading, None, Baseline
<1> QED
  BY <1>2, <1>3, <1>4

\* The three ends of a judgement: a finding to confirm, a new baseline, or neither.
Found(b) == KillClass(Verdict(check.reading, b)) /\ base' = b /\ check' = [check EXCEPT !.pc = "confirm"] /\ log' = log
Same(b) == base' = b /\ check' = NoCheck /\ log' = log
Taken(b) ==
  /\ Verdict(check.reading, b) \in {"baseline", "ok"}
  /\ base' = [nonce |-> check.reading.nonce, bal |-> check.reading.bal, at |-> check.at]
  /\ check' = NoCheck
  /\ log' \in Added(Event("baseline", check.reading, watchTime, check.at))

LEMMA JudgeIs ==
  ASSUME WatchTypeOK, Dated, log \in Seq(LogEvent), Judge
  PROVE  /\ Synced(base, check.reading) = None \/ Synced(base, check.reading) \in Baseline
         /\ Found(Synced(base, check.reading)) \/ Same(Synced(base, check.reading)) \/ Taken(Synced(base, check.reading))
         /\ synced' \in -1 .. LastTime
         /\ trusted' = IF Verdict(check.reading, Synced(base, check.reading)) = "baseline"
                       THEN SetMax({trusted, check.reading.nonce}) ELSE trusted
         /\ trusted' \in 0 .. MaxNonce
         /\ check.pc = "read"
         /\ UNCHANGED <<watchTime, chain, spender, res, attempt, command, killed, faults>>
<1> DEFINE b == Synced(base, check.reading)
           v == Verdict(check.reading, b)
           same == b # None /\ b.nonce = check.reading.nonce /\ b.bal = check.reading.bal
<1>1. b = None \/ b \in Baseline
  <2>1. CASE b = base
    BY <2>1, WatchFacts
  <2>2. CASE \E i \in DOMAIN log : b = [nonce |-> log[i].nonce, bal |-> log[i].bal, at |-> log[i].at]
    <3>1. PICK i \in DOMAIN log : b = [nonce |-> log[i].nonce, bal |-> log[i].bal, at |-> log[i].at]
      BY <2>2
    <3>2. log[i] \in LogEvent
      BY <3>1
    <3> HIDE DEF b
    <3> QED
      BY <3>1, <3>2 DEF Baseline, LogEvent
  <2> QED
    BY <2>1, <2>2, SyncedIs
<1>2. v \in {"baseline", "rpc_inconsistent", "unknown_activity", "unexplained_fall", "ok"}
  BY DEF Verdict
<1>3. synced' = SetMax({synced, latestAt})
      /\ trusted' = (IF v = "baseline" THEN SetMax({trusted, check.reading.nonce}) ELSE trusted)
  BY DEF Judge
<1>4. IF KillClass(v)
        THEN /\ base' = b /\ check' = [check EXCEPT !.pc = "confirm"]
             /\ UNCHANGED logVars
        ELSE /\ check' = NoCheck
             /\ IF v = "rpc_inconsistent" \/ same THEN base' = b /\ UNCHANGED logVars
                ELSE Remembered(check.reading, check.at)
  BY DEF Judge
<1>5. check.pc = "read" /\ UNCHANGED <<watchTime, chain, spender, res, attempt, command, killed, faults>>
  BY DEF Judge, walletVars, bookVars
<1>6. synced' \in -1 .. LastTime
  <2>1. synced \in -1 .. LastTime /\ latestAt \in -1 .. LastTime /\ LastTime \in Nat
    BY WatchAssumption DEF WatchTypeOK
  <2>2. SetMax({synced, latestAt}) \in {synced, latestAt}
    <3>1. synced \in Int /\ latestAt \in Int
      BY <2>1
    <3> QED
      BY <3>1, PairMax
  <2> QED
    BY <1>3, <2>1, <2>2
<1>7. trusted' \in 0 .. MaxNonce
  <2>1. trusted \in 0 .. MaxNonce /\ check.reading.nonce \in 0 .. MaxNonce /\ MaxNonce \in Nat
    BY Facts DEF WatchTypeOK
  <2>2. SetMax({trusted, check.reading.nonce}) \in {trusted, check.reading.nonce}
    <3>1. trusted \in Int /\ check.reading.nonce \in Int
      BY <2>1
    <3> QED
      BY <3>1, PairMax
  <2> QED
    BY <1>3, <2>1, <2>2
<1> HIDE DEF b, v, same
<1>8. Found(b) \/ Same(b) \/ Taken(b)
  <2>1. CASE KillClass(v)
    BY <1>4, <2>1 DEF Found, v, logVars
  <2>2. CASE ~KillClass(v) /\ (v = "rpc_inconsistent" \/ same)
    BY <1>4, <2>2 DEF Same, logVars
  <2>3. CASE ~KillClass(v) /\ ~(v = "rpc_inconsistent" \/ same)
    <3>1. v \in {"baseline", "ok"}
      BY <1>2, <2>3 DEF KillClass
    <3> QED
      BY <1>4, <2>3, <3>1 DEF Taken, Remembered, Persist, v
  <2> QED
    BY <2>1, <2>2, <2>3
<1> QED
  BY <1>1, <1>3, <1>5, <1>6, <1>7, <1>8 DEF b, v

LEMMA EventType ==
  ASSUME NEW kind \in {"baseline", "accept"}, NEW r, r.nonce \in 0 .. MaxNonce, r.bal \in 0 .. Balance + 1,
         NEW at \in 0 .. LastTime, NEW seen \in 0 .. LastTime
  PROVE  Event(kind, r, at, seen) \in LogEvent /\ Event(kind, r, at, seen).kind = kind
         /\ Event(kind, r, at, seen).nonce = r.nonce /\ Event(kind, r, at, seen).bal = r.bal
         /\ Event(kind, r, at, seen).at = at /\ Event(kind, r, at, seen).seen = seen
BY DEF Event, LogEvent

\* TypeOK in groups: the chain and the books, the log, the watcher and the command, the rest.
ChainTypes ==
  /\ chain \in Reading
  /\ spender \in [Nonces -> WalletRuns \union {"none", "thief", "treasury"}]
  /\ res \in [WalletRuns -> [status : {"none", "reserved", "settled", "released"}, at : -1 .. LastTime]]
  /\ attempt \in [WalletRuns -> -1 .. MaxNonce - 1]
WatchTypes ==
  /\ base = None \/ base \in Baseline
  /\ check \in [pc : {"idle", "read", "confirm", "proven", "alarm"}, reading : Reading, at : -1 .. LastTime]
  /\ command \in [at : -1 .. LastTime, nonce : 0 .. MaxNonce, bal : 0 .. Balance + 1]
  /\ Dated
CountTypes == watchTime \in 0 .. LastTime /\ {synced, latestAt} \subseteq -1 .. LastTime /\ trusted \in 0 .. MaxNonce /\ faults \in 0 .. Faults
AllTypes == ChainTypes /\ log \in Seq(LogEvent) /\ WatchTypes /\ CountTypes /\ killed \in BOOLEAN

LEMMA TypesAre == AllTypes <=> WatchTypeOK /\ log \in Seq(LogEvent) /\ Dated
<1>1. log \in Seq(LogEvent) => \A i \in DOMAIN log :
       log[i] \in [kind : {"baseline", "accept"}, nonce : 0 .. MaxNonce,
                   bal : 0 .. Balance + 1, at : 0 .. LastTime, seen : 0 .. LastTime]
  <2>1. ASSUME log \in Seq(LogEvent) PROVE \A i \in DOMAIN log : log[i] \in LogEvent
    BY <2>1
  <2> QED
    BY <2>1 DEF LogEvent
<1> QED
  BY <1>1 DEF AllTypes, WatchTypeOK, ChainTypes, WatchTypes, CountTypes, Baseline

LEMMA ChainTypesKeep ==
  ASSUME WatchTypeOK, ChainKept, [WatchNext]_fleetVars
  PROVE  ChainTypes'
<1>0. /\ chain \in Reading /\ chain.nonce \in 0 .. MaxNonce /\ chain.bal \in 0 .. Balance + 1
      /\ spender \in [Nonces -> WalletRuns \union {"none", "thief", "treasury"}]
      /\ res \in [WalletRuns -> [status : {"none", "reserved", "settled", "released"}, at : -1 .. LastTime]]
      /\ attempt \in [WalletRuns -> -1 .. MaxNonce - 1]
      /\ watchTime \in 0 .. LastTime /\ MaxNonce \in Nat /\ Balance \in Nat /\ LastTime \in Nat /\ MaxNonce <= Balance
      /\ chain.nonce + chain.bal \in {Balance, Balance + 1}
  BY Facts, WatchAssumption DEF WatchTypeOK, ChainKept
<1>1. ASSUME UNCHANGED <<chain, spender, res, attempt>> PROVE ChainTypes'
  BY <1>0, <1>1 DEF ChainTypes
<1>2. ASSUME NEW r \in WalletRuns, Reserve(r) \/ Close(r) PROVE ChainTypes'
  <2>1. \/ \E s \in {"reserved", "settled"} : res' = [res EXCEPT ![r] = [status |-> s, at |-> watchTime]]
        \/ res' = [res EXCEPT ![r].status = "released"]
    BY <1>2 DEF Reserve, Close
  <2>2. res' \in [WalletRuns -> [status : {"none", "reserved", "settled", "released"}, at : -1 .. LastTime]]
    BY <1>0, <2>1
  <2>3. UNCHANGED <<chain, spender, attempt>>
    BY <1>2 DEF Reserve, Close, walletVars
  <2> QED
    BY <1>0, <2>2, <2>3 DEF ChainTypes
<1>3. ASSUME NEW r \in WalletRuns, RecordAttempt(r) PROVE ChainTypes'
  <2>1. attempt' = [attempt EXCEPT ![r] = chain.nonce] /\ chain.nonce \in 0 .. MaxNonce - 1
    BY <1>0, <1>3 DEF RecordAttempt
  <2>2. attempt' \in [WalletRuns -> -1 .. MaxNonce - 1]
    BY <1>0, <2>1
  <2>3. UNCHANGED <<chain, spender, res>>
    BY <1>3 DEF RecordAttempt, walletVars
  <2> QED
    BY <1>0, <2>2, <2>3 DEF ChainTypes
<1>4. ASSUME NEW who \in WalletRuns \cup {"thief", "treasury"}, chain.nonce < MaxNonce, UNCHANGED <<res, attempt>>,
             spender' = [spender EXCEPT ![chain.nonce] = who],
             chain' = [nonce |-> chain.nonce + 1, bal |-> chain.bal - 1]
      PROVE  ChainTypes'
  <2>1. spender' \in [Nonces -> WalletRuns \union {"none", "thief", "treasury"}]
    BY <1>0, <1>4
  <2>2. chain.nonce + 1 \in 0 .. MaxNonce /\ chain.bal - 1 \in 0 .. Balance + 1
    BY <1>0, <1>4
  <2> QED
    BY <1>0, <1>4, <2>1, <2>2 DEF ChainTypes, Reading
<1>5. ASSUME NEW r \in WalletRuns, OwnMined(r) PROVE ChainTypes'
  <2>1. chain.nonce < MaxNonce
    BY <1>0, <1>5 DEF OwnMined
  <2> QED
    BY <1>4, <1>5, <2>1 DEF OwnMined, bookVars
<1>6. ASSUME NEW who \in {"thief", "treasury"}, Spend(who) PROVE ChainTypes'
  BY <1>4, <1>6 DEF Spend, bookVars
<1>7. CASE Deposit
  <2>1. UNCHANGED <<spender, res, attempt>> /\ chain' = [chain EXCEPT !.bal = @ + 1] /\ chain.bal + chain.nonce = Balance
    BY <1>7 DEF Deposit, bookVars
  <2>2. chain.bal + 1 \in 0 .. Balance + 1
    BY <1>0, <2>1
  <2>3. chain' \in Reading
    BY <1>0, <2>1, <2>2 DEF Reading
  <2> QED
    BY <1>0, <2>1, <2>3 DEF ChainTypes
<1>8. CASE \/ TickRead \/ Judge \/ Confirm \/ ConfirmFails \/ CommitReturn \/ Alarm
           \/ AcceptBegin \/ AcceptStore \/ KillRelease \/ ClockTick \/ Crash \/ UNCHANGED fleetVars
  BY <1>1, <1>8 DEF TickRead, Judge, Confirm, ConfirmFails, CommitReturn, Alarm, AcceptBegin, AcceptStore, KillRelease, ClockTick, Crash,
                    walletVars, bookVars, fleetVars
<1> QED
  BY <1>2, <1>3, <1>5, <1>6, <1>7, <1>8 DEF WatchNext

LEMMA LogTypesKeep ==
  ASSUME WatchTypeOK, Dated, log \in Seq(LogEvent), [WatchNext]_fleetVars
  PROVE  log' \in Seq(LogEvent)
<1>1. watchTime \in 0 .. LastTime /\ check.reading.nonce \in 0 .. MaxNonce /\ check.reading.bal \in 0 .. Balance + 1
  BY WatchFacts
<1>2. CASE UNCHANGED log
  BY <1>2
<1>3. CASE Judge
  <2>1. ASSUME Taken(Synced(base, check.reading)) PROVE log' \in Seq(LogEvent)
    <3>1. check.at \in 0 .. LastTime
      BY <1>3, JudgeIs DEF Dated
    <3>2. Event("baseline", check.reading, watchTime, check.at) \in LogEvent
      BY <1>1, <3>1, EventType
    <3> QED
      BY <2>1, <3>2, AddedIs DEF Taken
  <2> QED
    BY <1>3, <2>1, JudgeIs DEF Found, Same
<1>4. CASE CommitReturn
  <2>1. UNCHANGED log \/ log' \in Added(Event("baseline", check.reading, watchTime, watchTime))
    BY <1>4 DEF CommitReturn, Remembered, Persist, logVars
  <2>2. Event("baseline", check.reading, watchTime, watchTime) \in LogEvent
    BY <1>1, EventType
  <2> QED
    BY <2>1, <2>2, AddedIs
<1>5. CASE Alarm
  <2>1. UNCHANGED log
    BY <1>5 DEF Alarm, PersistOther, logVars
  <2> QED
    BY <2>1
<1>6. CASE AcceptStore
  <2>1. log' \in Added(Event("accept", command, command.at, command.at)) /\ command.at \in 0 .. LastTime
    BY <1>6 DEF AcceptStore, Persist, Dated
  <2>2. command.nonce \in 0 .. MaxNonce /\ command.bal \in 0 .. Balance + 1
    BY WatchFacts
  <2>3. Event("accept", command, command.at, command.at) \in LogEvent
    BY <2>1, <2>2, EventType
  <2> QED
    BY <2>1, <2>3, AddedIs
<1>7. (\E r \in WalletRuns : Reserve(r) \/ RecordAttempt(r) \/ OwnMined(r) \/ Close(r)) => UNCHANGED log
  BY DEF Reserve, RecordAttempt, OwnMined, Close, logVars
<1>8. (\E who \in {"thief", "treasury"} : Spend(who)) => UNCHANGED log
  BY DEF Spend, logVars
<1>9. Deposit \/ TickRead \/ Confirm \/ ConfirmFails \/ AcceptBegin \/ KillRelease \/ ClockTick \/ Crash \/ UNCHANGED fleetVars => UNCHANGED log
  BY DEF Deposit, TickRead, Confirm, ConfirmFails, AcceptBegin, KillRelease, ClockTick, Crash, fleetVars, logVars
<1> QED
  BY <1>2, <1>3, <1>4, <1>5, <1>6, <1>7, <1>8, <1>9 DEF WatchNext

LEMMA LoadedType ==
  ASSUME WatchTypeOK, Dated, log \in Seq(LogEvent)
  PROVE  Loaded = None \/ Loaded \in Baseline
<1>1. CASE Loaded = base
  BY <1>1, WatchFacts
<1>2. CASE \E i \in DOMAIN log : Loaded = [nonce |-> log[i].nonce, bal |-> log[i].bal, at |-> log[i].seen]
  <2>1. PICK i \in DOMAIN log : Loaded = [nonce |-> log[i].nonce, bal |-> log[i].bal, at |-> log[i].seen]
    BY <1>2
  <2>2. log[i] \in LogEvent
    BY <2>1
  <2> QED
    BY <2>1, <2>2 DEF Baseline, LogEvent
<1> QED
  BY <1>1, <1>2, LoadedIs

LEMMA WatchTypesKeep ==
  ASSUME WatchTypeOK, Dated, log \in Seq(LogEvent), [WatchNext]_fleetVars
  PROVE  WatchTypes'
<1> DEFINE Checks == [pc : {"idle", "read", "confirm", "proven", "alarm"}, reading : Reading, at : -1 .. LastTime]
           Commands == [at : -1 .. LastTime, nonce : 0 .. MaxNonce, bal : 0 .. Balance + 1]
<1>0. /\ check \in Checks /\ command \in Commands /\ NoCheck \in Checks /\ NoCommand \in Commands
      /\ base = None \/ base \in Baseline
      /\ watchTime \in 0 .. LastTime /\ chain \in Reading /\ chain.nonce \in 0 .. MaxNonce /\ chain.bal \in 0 .. Balance + 1
      /\ check.reading \in Reading /\ check.reading.nonce \in 0 .. MaxNonce /\ check.reading.bal \in 0 .. Balance + 1
      /\ LastTime \in Nat
  BY WatchFacts, Facts DEF WatchTypeOK
<1>1. ASSUME UNCHANGED <<base, check, command>> PROVE WatchTypes'
  BY <1>0, <1>1 DEF WatchTypes, Dated
<1>2. ASSUME UNCHANGED command, base' = None \/ base' \in Baseline, check' \in Checks, check'.pc # "read" PROVE WatchTypes'
  BY <1>0, <1>2 DEF WatchTypes, Dated
<1>3. NoCheck.pc = "idle"
  BY DEF NoCheck
<1>4. CASE TickRead
  <2>1. UNCHANGED command /\ base' = Loaded /\ check' = [pc |-> "read", reading |-> chain, at |-> watchTime]
    BY <1>4 DEF TickRead
  <2>2. check' \in Checks /\ check'.at \in 0 .. LastTime
    BY <1>0, <2>1
  <2>3. base' = None \/ base' \in Baseline
    BY <2>1, LoadedType
  <2> QED
    BY <1>0, <2>1, <2>2, <2>3 DEF WatchTypes, Dated
<1>5. CASE Judge
  <2>1. UNCHANGED command /\ check.pc = "read" /\ check.at \in 0 .. LastTime
    BY <1>5, JudgeIs DEF Dated
  <2>2. base' = None \/ base' \in Baseline
    BY <1>0, <1>5, <2>1, JudgeIs, SMTT(20) DEF Found, Same, Taken, Baseline
  <2>3. check' = NoCheck \/ check' = [check EXCEPT !.pc = "confirm"]
    BY <1>5, JudgeIs DEF Found, Same, Taken
  <2>4. check' \in Checks /\ check'.pc # "read"
    BY <1>0, <1>3, <2>3
  <2> QED
    BY <1>2, <2>1, <2>2, <2>4
<1>6. CASE Confirm \/ ConfirmFails
  <2>1. /\ UNCHANGED <<command, base>>
        /\ \/ check' = NoCheck \/ check' = [NoCheck EXCEPT !.pc = "alarm"]
           \/ check' = [check EXCEPT !.pc = "proven", !.reading = chain, !.at = -1]
    BY <1>6 DEF Confirm, ConfirmFails
  <2>2. check' \in Checks /\ check'.pc # "read"
    <3>1. ASSUME check' = NoCheck PROVE check' \in Checks /\ check'.pc # "read"
      BY <1>0, <1>3, <3>1
    <3>2. ASSUME check' = [NoCheck EXCEPT !.pc = "alarm"] PROVE check' \in Checks /\ check'.pc # "read"
      BY <1>0, <3>2
    <3>3. ASSUME check' = [check EXCEPT !.pc = "proven", !.reading = chain, !.at = -1] PROVE check' \in Checks /\ check'.pc # "read"
      <4>1. check' = [pc |-> "proven", reading |-> chain, at |-> -1]
        BY <1>0, <3>3, Zenon
      <4>2. -1 \in -1 .. LastTime
        BY <1>0
      <4> QED
        BY <1>0, <4>1, <4>2
    <3> QED
      BY <2>1, <3>1, <3>2, <3>3
  <2> QED
    BY <1>0, <1>2, <2>1, <2>2
<1>7. CASE CommitReturn
  <2>1. /\ UNCHANGED command
        /\ check' = NoCheck \/ check' = [NoCheck EXCEPT !.pc = "alarm"]
        /\ base' = base \/ base' = [nonce |-> check.reading.nonce, bal |-> check.reading.bal, at |-> watchTime]
    BY <1>7 DEF CommitReturn, Remembered
  <2>2. check' \in Checks /\ check'.pc # "read"
    BY <1>0, <1>3, <2>1
  <2>3. base' = None \/ base' \in Baseline
    BY <1>0, <2>1, SMTT(20) DEF Baseline
  <2> QED
    BY <1>2, <2>1, <2>2, <2>3
<1>8. CASE Alarm
  BY <1>0, <1>2, <1>3, <1>8 DEF Alarm
<1>9. CASE AcceptBegin
  <2>1. UNCHANGED <<base, check>> /\ command' = [at |-> watchTime, nonce |-> chain.nonce, bal |-> chain.bal]
    BY <1>9 DEF AcceptBegin, watchVars
  <2>2. command' \in Commands /\ command'.at \in 0 .. LastTime
    BY <1>0, <2>1
  <2> QED
    BY <1>0, <2>1, <2>2 DEF WatchTypes, Dated
<1>10. CASE AcceptStore
  <2>1. UNCHANGED <<base, check>> /\ command' = NoCommand
    BY <1>10 DEF AcceptStore, watchVars
  <2> QED
    BY <1>0, <2>1 DEF WatchTypes, Dated
<1>11. CASE Crash
  <2>1. UNCHANGED command /\ base' = None /\ check' = NoCheck
    BY <1>11 DEF Crash
  <2> QED
    BY <1>0, <1>2, <1>3, <2>1
<1>12. (\E r \in WalletRuns : Reserve(r) \/ RecordAttempt(r) \/ OwnMined(r) \/ Close(r)) => UNCHANGED <<base, check, command>>
  BY DEF Reserve, RecordAttempt, OwnMined, Close, watchVars
<1>13. (\E who \in {"thief", "treasury"} : Spend(who)) => UNCHANGED <<base, check, command>>
  BY DEF Spend, watchVars
<1>14. Deposit \/ KillRelease \/ ClockTick \/ UNCHANGED fleetVars => UNCHANGED <<base, check, command>>
  BY DEF Deposit, KillRelease, ClockTick, fleetVars, watchVars
<1> QED
  BY <1>1, <1>4, <1>5, <1>6, <1>7, <1>8, <1>9, <1>10, <1>11, <1>12, <1>13, <1>14 DEF WatchNext

\* The time of the newest event stays a time.
LEMMA LatestKeeps ==
  ASSUME WatchTypeOK, Dated, [WatchNext]_fleetVars
  PROVE  latestAt' \in -1 .. LastTime
<1>0. watchTime \in 0 .. LastTime /\ latestAt \in -1 .. LastTime /\ LastTime \in Nat
  BY WatchAssumption DEF WatchTypeOK
<1>1. ASSUME NEW at \in 0 .. LastTime, latestAt' = SetMax({latestAt, at}) PROVE latestAt' \in -1 .. LastTime
  <2>1. latestAt \in Int /\ at \in Int
    BY <1>0
  <2>2. SetMax({latestAt, at}) \in {latestAt, at}
    BY <2>1, PairMax
  <2> QED
    BY <1>0, <1>1, <2>2
<1>2. UNCHANGED latestAt => latestAt' \in -1 .. LastTime
  BY <1>0
<1>3. \A kind, r, at, seen : Event(kind, r, at, seen).at = at
  BY DEF Event
<1>4. Judge \/ CommitReturn \/ Alarm => UNCHANGED latestAt \/ latestAt' = SetMax({latestAt, watchTime})
  <2>1. ASSUME NEW r, NEW at, Remembered(r, at) PROVE latestAt' = SetMax({latestAt, watchTime})
    BY <1>3, <2>1 DEF Remembered, Persist
  <2>2. Judge => UNCHANGED latestAt \/ Remembered(check.reading, check.at)
    BY DEF Judge, logVars
  <2>3. CommitReturn => UNCHANGED latestAt \/ Remembered(check.reading, watchTime)
    BY DEF CommitReturn, logVars
  <2>4. Alarm => UNCHANGED latestAt \/ latestAt' = SetMax({latestAt, watchTime})
    BY DEF Alarm, PersistOther, logVars
  <2> QED
    BY <2>1, <2>2, <2>3, <2>4
<1>5. AcceptStore => command.at \in 0 .. LastTime /\ latestAt' = SetMax({latestAt, command.at})
  BY <1>3 DEF AcceptStore, Persist, Dated
<1>6. (\E r \in WalletRuns : Reserve(r) \/ RecordAttempt(r) \/ OwnMined(r) \/ Close(r)) => UNCHANGED latestAt
  BY DEF Reserve, RecordAttempt, OwnMined, Close, logVars
<1>7. (\E who \in {"thief", "treasury"} : Spend(who)) => UNCHANGED latestAt
  BY DEF Spend, logVars
<1>8. Deposit \/ TickRead \/ Confirm \/ ConfirmFails \/ AcceptBegin \/ KillRelease \/ ClockTick \/ Crash \/ UNCHANGED fleetVars => UNCHANGED latestAt
  BY DEF Deposit, TickRead, Confirm, ConfirmFails, AcceptBegin, KillRelease, ClockTick, Crash, fleetVars, logVars
<1> QED
  BY <1>0, <1>1, <1>2, <1>4, <1>5, <1>6, <1>7, <1>8 DEF WatchNext

LEMMA CountTypesKeep ==
  ASSUME WatchTypeOK, Dated, log \in Seq(LogEvent), [WatchNext]_fleetVars
  PROVE  CountTypes' /\ killed' \in BOOLEAN
<1>0. watchTime \in 0 .. LastTime /\ synced \in -1 .. LastTime /\ latestAt' \in -1 .. LastTime /\ trusted \in 0 .. MaxNonce /\ faults \in 0 .. Faults
      /\ LastTime \in Nat /\ Faults \in Nat /\ MaxNonce \in Nat /\ command.nonce \in 0 .. MaxNonce
  BY Facts, WatchAssumption, LatestKeeps DEF WatchTypeOK
<1>1. killed' \in BOOLEAN
  <2>1. killed \in BOOLEAN
    BY DEF WatchTypeOK
  <2>2. killed' = killed \/ killed' = TRUE \/ killed' = FALSE
    <3>1. (\E r \in WalletRuns : Reserve(r) \/ RecordAttempt(r) \/ OwnMined(r) \/ Close(r)) => UNCHANGED killed
      BY DEF Reserve, RecordAttempt, OwnMined, Close
    <3>2. (\E who \in {"thief", "treasury"} : Spend(who)) => UNCHANGED killed
      BY DEF Spend
    <3>3. Deposit \/ TickRead \/ Judge \/ Confirm \/ ConfirmFails \/ CommitReturn \/ AcceptBegin \/ AcceptStore \/ ClockTick \/ Crash \/ UNCHANGED fleetVars
            => UNCHANGED killed
      BY DEF Deposit, TickRead, Judge, Confirm, ConfirmFails, CommitReturn, AcceptBegin, AcceptStore, ClockTick, Crash, fleetVars
    <3>4. Alarm => killed' = TRUE \/ UNCHANGED killed
      BY DEF Alarm
    <3>5. KillRelease => killed' = FALSE
      BY DEF KillRelease
    <3> QED
      BY <3>1, <3>2, <3>3, <3>4, <3>5 DEF WatchNext
  <2> QED
    BY <2>1, <2>2
<1>2. CASE Judge
  <2>1. synced' \in -1 .. LastTime /\ trusted' \in 0 .. MaxNonce /\ UNCHANGED <<watchTime, faults>>
    BY <1>2, JudgeIs
  <2> QED
    BY <1>0, <1>1, <2>1 DEF CountTypes
<1>3. CASE AcceptStore
  <2>1. trusted' = SetMax({trusted, command.nonce}) /\ UNCHANGED <<watchTime, synced, faults>>
    BY <1>3 DEF AcceptStore, watchVars
  <2>2. SetMax({trusted, command.nonce}) \in {trusted, command.nonce}
    <3>1. trusted \in Int /\ command.nonce \in Int
      BY <1>0
    <3> QED
      BY <3>1, PairMax
  <2> QED
    BY <1>0, <1>1, <2>1, <2>2 DEF CountTypes
<1>4. ASSUME watchTime' = watchTime \/ (watchTime < LastTime /\ watchTime' = watchTime + 1), synced' = synced \/ synced' = -1,
             faults' = faults \/ (faults < Faults /\ faults' = faults + 1), UNCHANGED trusted
      PROVE  CountTypes' /\ killed' \in BOOLEAN
  <2>1. watchTime' \in 0 .. LastTime /\ synced' \in -1 .. LastTime /\ faults' \in 0 .. Faults /\ trusted' \in 0 .. MaxNonce
    BY <1>0, <1>4
  <2>2. CountTypes'
    BY <1>0, <2>1 DEF CountTypes
  <2> QED
    BY <1>1, <2>2
<1>5. (\E r \in WalletRuns : Reserve(r) \/ RecordAttempt(r) \/ OwnMined(r) \/ Close(r)) => UNCHANGED <<watchTime, synced, trusted, faults>>
  BY DEF Reserve, RecordAttempt, OwnMined, Close, watchVars
<1>6. (\E who \in {"thief", "treasury"} : Spend(who)) => UNCHANGED <<watchTime, synced, trusted, faults>>
  BY DEF Spend, watchVars
<1>7. Deposit \/ TickRead \/ Confirm \/ CommitReturn \/ AcceptBegin \/ KillRelease \/ UNCHANGED fleetVars => UNCHANGED <<watchTime, synced, trusted, faults>>
  BY DEF Deposit, TickRead, Confirm, CommitReturn, AcceptBegin, KillRelease, fleetVars, watchVars
<1>8. ConfirmFails \/ Alarm \/ Crash => UNCHANGED <<watchTime, trusted>> /\ (synced' = synced \/ synced' = -1) /\ (faults' = faults \/ (faults < Faults /\ faults' = faults + 1))
  BY DEF ConfirmFails, Alarm, Crash
<1>9. ClockTick => watchTime < LastTime /\ watchTime' = watchTime + 1 /\ UNCHANGED <<synced, trusted, faults>>
  BY DEF ClockTick, watchVars
<1> QED
  BY <1>2, <1>3, <1>4, <1>5, <1>6, <1>7, <1>8, <1>9 DEF WatchNext

LEMMA TypesKeep ==
  ASSUME WatchTypeOK, Dated, log \in Seq(LogEvent), ChainKept, [WatchNext]_fleetVars
  PROVE  WatchTypeOK' /\ Dated' /\ log' \in Seq(LogEvent)
<1>1. AllTypes'
  BY ChainTypesKeep, LogTypesKeep, WatchTypesKeep, CountTypesKeep DEF AllTypes
<1>2. AllTypes' <=> (WatchTypeOK /\ log \in Seq(LogEvent) /\ Dated)'
  BY TypesAre, PTL
<1> QED
  BY <1>1, <1>2

-----------------------------------------------------------------------------
(* The chain, and what stays known and explained                           *)

LEMMA ChainKeeps ==
  ASSUME WatchTypeOK, ChainKept, [WatchNext]_fleetVars
  PROVE  ChainKept'
<1>0. /\ chain.nonce \in 0 .. MaxNonce /\ chain.bal \in 0 .. Balance + 1 /\ MaxNonce \in Nat /\ Balance \in Nat
      /\ spender \in [Nonces -> WalletRuns \union {"none", "thief", "treasury"}]
      /\ attempt \in [WalletRuns -> -1 .. MaxNonce - 1]
  BY Facts
<1>1. /\ chain.nonce + chain.bal \in {Balance, Balance + 1}
      /\ \A n \in Nonces : spender[n] # "none" <=> n < chain.nonce
      /\ \A n \in Nonces : spender[n] \in WalletRuns => attempt[spender[n]] = n
  BY DEF ChainKept
<1>2. ASSUME UNCHANGED <<chain, spender, attempt>> PROVE ChainKept'
  BY <1>1, <1>2 DEF ChainKept
<1>3. ASSUME NEW r \in WalletRuns, RecordAttempt(r) PROVE ChainKept'
  <2>1. UNCHANGED <<chain, spender>> /\ attempt[r] = -1 /\ attempt' = [attempt EXCEPT ![r] = chain.nonce]
    BY <1>3 DEF RecordAttempt, walletVars
  <2>2. ASSUME NEW n \in Nonces, spender[n] \in WalletRuns PROVE attempt'[spender[n]] = n
    <3>1. attempt[spender[n]] = n /\ n # -1
      BY <1>1, <2>2 DEF Nonces
    <3>2. spender[n] # r
      BY <2>1, <3>1
    <3> QED
      BY <1>0, <2>1, <2>2, <3>1, <3>2
  <2> QED
    BY <1>1, <2>1, <2>2 DEF ChainKept
<1>4. ASSUME NEW who \in WalletRuns \cup {"thief", "treasury"}, UNCHANGED attempt, chain.nonce < MaxNonce,
             who \in WalletRuns => attempt[who] = chain.nonce,
             spender' = [spender EXCEPT ![chain.nonce] = who],
             chain' = [nonce |-> chain.nonce + 1, bal |-> chain.bal - 1]
      PROVE  ChainKept'
  <2>1. chain'.nonce = chain.nonce + 1 /\ chain'.bal = chain.bal - 1
    BY <1>4
  <2>2. chain'.nonce + chain'.bal \in {Balance, Balance + 1}
    BY <1>0, <1>1, <2>1
  <2>3. chain.nonce \in Nonces /\ spender'[chain.nonce] = who /\ who # "none"
    BY <1>0, <1>4, WalletRunsAssumption DEF Nonces
  <2>4. \A n \in Nonces : n # chain.nonce => spender'[n] = spender[n]
    BY <1>0, <1>4
  <2>5. \A n \in Nonces : n < chain'.nonce <=> n < chain.nonce \/ n = chain.nonce
    BY <1>0, <2>1 DEF Nonces
  <2>6. \A n \in Nonces : spender'[n] # "none" <=> n < chain'.nonce
    BY <1>1, <2>3, <2>4, <2>5
  <2>7. \A n \in Nonces : spender'[n] \in WalletRuns => attempt'[spender'[n]] = n
    BY <1>1, <1>4, <2>3, <2>4
  <2> QED
    BY <2>2, <2>6, <2>7 DEF ChainKept
<1>5. ASSUME NEW r \in WalletRuns, OwnMined(r) PROVE ChainKept'
  <2>1. chain.nonce < MaxNonce
    BY <1>0, <1>5 DEF OwnMined
  <2> QED
    BY <1>4, <1>5, <2>1 DEF OwnMined, bookVars
<1>6. ASSUME NEW who \in {"thief", "treasury"}, Spend(who) PROVE ChainKept'
  <2>1. who \notin WalletRuns
    BY WalletRunsAssumption
  <2> QED
    BY <1>4, <1>6, <2>1 DEF Spend, bookVars
<1>7. CASE Deposit
  <2>1. UNCHANGED <<spender, attempt>> /\ chain'.nonce = chain.nonce /\ chain'.bal = chain.bal + 1 /\ chain.bal + chain.nonce = Balance
    BY <1>7, Facts DEF Deposit, bookVars
  <2>2. chain'.nonce + chain'.bal \in {Balance, Balance + 1}
    BY <1>0, <2>1
  <2> QED
    BY <1>1, <2>1, <2>2 DEF ChainKept
<1>8. ASSUME NEW r \in WalletRuns, Reserve(r) \/ Close(r) PROVE ChainKept'
  BY <1>2, <1>8 DEF Reserve, Close, walletVars
<1>9. CASE \/ TickRead \/ Judge \/ Confirm \/ ConfirmFails \/ CommitReturn \/ Alarm
           \/ AcceptBegin \/ AcceptStore \/ KillRelease \/ ClockTick \/ Crash \/ UNCHANGED fleetVars
  BY <1>2, <1>9 DEF TickRead, Judge, Confirm, ConfirmFails, CommitReturn, Alarm, AcceptBegin, AcceptStore, KillRelease, ClockTick, Crash,
                    walletVars, bookVars, fleetVars
<1> QED
  BY <1>3, <1>5, <1>6, <1>7, <1>8, <1>9 DEF WatchNext

\* A count that MintBot knows of stays known.
LEMMA KnownNextGrows ==
  ASSUME WatchTypeOK, WatchTypeOK', Grows, NEW n \in Nat, n < KnownNext
  PROVE  n < KnownNext'
<1>1. PICK r \in WalletRuns : n <= attempt[r]
  BY KnownNextIs
<1>2. attempt' \in [WalletRuns -> -1 .. MaxNonce - 1] /\ attempt \in [WalletRuns -> -1 .. MaxNonce - 1]
  BY DEF WatchTypeOK
<1>3. KnownNext' = IF \E s \in WalletRuns : attempt'[s] # -1 THEN SetMax({attempt'[s] : s \in WalletRuns}) + 1 ELSE 0
  BY DEF KnownNext
<1>4. n < KnownNext' <=> \E s \in WalletRuns : n <= attempt'[s]
  BY <1>2, <1>3, PastAttempts
<1>5. attempt[r] <= attempt'[r]
  BY DEF Grows
<1>6. attempt[r] \in Int /\ attempt'[r] \in Int
  BY <1>2, WatchAssumption
<1>7. n <= attempt'[r]
  BY <1>1, <1>5, <1>6
<1> QED
  BY <1>4, <1>7

LEMMA KnownKeeps ==
  ASSUME WatchTypeOK, WatchTypeOK', Grows, NEW m \in 0 .. MaxNonce, Known(m)
  PROVE  Known(m)'
<1>0. /\ chain.nonce \in Nat /\ chain'.nonce \in Nat /\ trusted \in Nat /\ trusted' \in Nat /\ m \in Nat
      /\ chain.nonce <= chain'.nonce /\ trusted <= trusted'
  <2>1. chain \in Reading /\ chain' \in Reading /\ trusted \in Nat /\ trusted' \in Nat
    BY DEF WatchTypeOK
  <2> QED
    BY <2>1 DEF Grows, Reading
<1>1. m <= chain'.nonce
  BY <1>0 DEF Known
<1>2. ASSUME NEW n \in Nonces, spender'[n] = "thief", n < m PROVE n < trusted' \/ n < KnownNext'
  <2>1. n \in Nat /\ n < chain.nonce
    BY <1>0, <1>2 DEF Nonces, Known
  <2>2. spender[n] = "thief"
    BY <1>2, <2>1 DEF Grows
  <2>3. n < trusted \/ n < KnownNext
    BY <1>2, <2>2 DEF Known, Vouched
  <2>4. n < trusted => n < trusted'
    BY <1>0, <2>1
  <2> QED
    BY <2>1, <2>3, <2>4, KnownNextGrows
<1> QED
  BY <1>1, <1>2 DEF Known, Vouched

\* While nobody else used the wallet, every used transaction count is one of a run.
LEMMA OwnCounts ==
  ASSUME WatchTypeOK, ChainKept, Foreign = {}, NEW n \in Nonces, n < chain.nonce
  PROVE  spender[n] \in WalletRuns /\ attempt[spender[n]] = n
BY DEF ChainKept, Foreign, WatchTypeOK

LEMMA ForeignBack ==
  ASSUME ChainKept, Grows, Foreign' = {}
  PROVE  Foreign = {}
<1>1. ASSUME NEW n \in Foreign PROVE FALSE
  <2>1. n \in Nonces /\ spender[n] \in {"thief", "treasury"}
    BY DEF Foreign
  <2>2. n < chain.nonce
    BY <2>1 DEF ChainKept
  <2>3. spender'[n] = spender[n]
    BY <2>1, <2>2 DEF Grows
  <2> QED
    BY <2>1, <2>3 DEF Foreign
<1> QED
  BY <1>1

LEMMA ExplainedKeeps ==
  ASSUME WatchTypeOK, WatchTypeOK', ChainKept, ChainKept', Grows, Foreign' = {},
         NEW nonce \in Int, NEW bal \in Int, NEW at \in 0 .. LastTime, Explained(nonce, bal, at)
  PROVE  Explained(nonce, bal, at)'
<1>0. /\ chain.nonce \in Nat /\ chain.bal \in Nat /\ chain'.nonce \in Nat /\ chain'.bal \in Nat
      /\ watchTime \in Nat /\ watchTime' \in Nat /\ at \in Nat
      /\ spender' \in [Nonces -> WalletRuns \union {"none", "thief", "treasury"}]
  BY DEF WatchTypeOK, Reading
<1>1. nonce + bal <= chain'.nonce + chain'.bal
  BY <1>0 DEF Explained, Grows
<1>2. at <= watchTime'
  BY <1>0 DEF Explained, Grows
<1>3. ASSUME NEW n \in Nonces, nonce <= n, n < chain'.nonce PROVE Settling(spender[n], at)'
  <2>1. spender'[n] \in WalletRuns
    BY <1>0, <1>3 DEF ChainKept, Foreign
  <2>2. CASE n < chain.nonce
    <3>1. spender'[n] = spender[n] /\ at \in 0 .. watchTime
      BY <1>0, <2>2 DEF Grows, Explained
    <3>2. Settling(spender[n], at)
      BY <1>3, <2>2 DEF Explained
    <3> QED
      BY <2>1, <2>2, <3>1, <3>2 DEF Grows
  <2>3. CASE ~(n < chain.nonce)
    <3>1. chain.nonce <= n
      BY <1>0, <2>3 DEF Nonces
    <3>2. Open(spender[n])'
      BY <1>3, <2>1, <3>1 DEF Grows
    <3> QED
      BY <3>2 DEF Settling
  <2> QED
    BY <2>2, <2>3
<1> QED
  BY <1>1, <1>2, <1>3 DEF Explained

-----------------------------------------------------------------------------
(* What is kept is known                                                   *)

\* KeptIsKnown in parts: the baseline, the log, the check and the command.
BaseKnown == base # None => Known(base.nonce)
LogKnown == \A i \in DOMAIN log : Known(log[i].nonce)
ReadKnown == check.reading.nonce <= chain.nonce /\ (check.pc = "proven" => Known(check.reading.nonce))
CommandKnown == command.nonce <= chain.nonce

LEMMA KeptParts == KeptIsKnown <=> BaseKnown /\ LogKnown /\ ReadKnown /\ CommandKnown
BY DEF KeptIsKnown, BaseKnown, LogKnown, ReadKnown, CommandKnown

LEMMA LogElement ==
  ASSUME log \in Seq(LogEvent), NEW i \in DOMAIN log
  PROVE  /\ log[i] \in LogEvent /\ log[i].nonce \in 0 .. MaxNonce /\ log[i].bal \in 0 .. Balance + 1
         /\ log[i].at \in 0 .. LastTime /\ log[i].seen \in 0 .. LastTime
<1>1. log[i] \in LogEvent
  OBVIOUS
<1> QED
  BY <1>1 DEF LogEvent

\* The baseline a check starts from, and the one it judges by.
LEMMA LoadedKnown ==
  ASSUME WatchTypeOK, log \in Seq(LogEvent), KeptIsKnown, Loaded # None
  PROVE  Known(Loaded.nonce)
<1>1. CASE Loaded = base
  BY <1>1 DEF KeptIsKnown
<1>2. CASE \E i \in DOMAIN log : Loaded = [nonce |-> log[i].nonce, bal |-> log[i].bal, at |-> log[i].seen]
  <2>1. PICK i \in DOMAIN log : Loaded = [nonce |-> log[i].nonce, bal |-> log[i].bal, at |-> log[i].seen]
    BY <1>2
  <2>2. Known(log[i].nonce) /\ Loaded.nonce = log[i].nonce
    BY <2>1 DEF KeptIsKnown
  <2> QED
    BY <2>2
<1> QED
  BY <1>1, <1>2, LoadedIs

LEMMA SyncedKnown ==
  ASSUME WatchTypeOK, log \in Seq(LogEvent), KeptIsKnown, NEW r, Synced(base, r) # None
  PROVE  Known(Synced(base, r).nonce)
<1> DEFINE b == Synced(base, r)
<1>1. CASE b = base
  BY <1>1 DEF KeptIsKnown
<1>2. CASE \E i \in DOMAIN log : log[i].kind = "accept" /\ b = [nonce |-> log[i].nonce, bal |-> log[i].bal, at |-> log[i].at]
  <2>1. PICK i \in DOMAIN log : log[i].kind = "accept" /\ b = [nonce |-> log[i].nonce, bal |-> log[i].bal, at |-> log[i].at]
    BY <1>2
  <2> HIDE DEF b
  <2>2. Known(log[i].nonce) /\ b.nonce = log[i].nonce
    BY <2>1 DEF KeptIsKnown
  <2> QED
    BY <2>2 DEF b
<1> QED
  BY <1>1, <1>2, SyncedIs

\* A reading without a finding is as known as the baseline it was judged by.
LEMMA OkIsKnown ==
  ASSUME WatchTypeOK, NEW b \in Baseline, Known(b.nonce), NEW r, r.nonce \in 0 .. MaxNonce, r.nonce <= chain.nonce, r.nonce <= Expected(b)
  PROVE  Known(r.nonce)
<1>0. b.nonce \in Nat /\ r.nonce \in Nat /\ KnownNext \in Nat /\ \A n \in Nonces : n \in Nat
  BY KnownNextIs DEF Baseline, Nonces
<1>1. ASSUME NEW n \in Nonces, spender[n] = "thief", n < r.nonce PROVE n < trusted \/ n < KnownNext
  <2>1. n < KnownNext \/ n < b.nonce
    BY <1>0, <1>1 DEF Expected
  <2> QED
    BY <1>1, <2>1 DEF Known, Vouched
<1> QED
  BY <1>1 DEF Known, Vouched

LEMMA VerdictOk ==
  ASSUME NEW r, NEW b \in Baseline, r.nonce \in 0 .. MaxNonce, WatchTypeOK, Verdict(r, b) = "ok"
  PROVE  b # None /\ r.nonce <= Expected(b)
<1>1. KnownNext \in Nat /\ b.nonce \in Nat /\ r.nonce \in Nat
  BY KnownNextIs DEF Baseline
<1>2. Expected(b) \in Nat
  BY <1>1 DEF Expected
<1>3. b # None
  BY WatchAssumption DEF None, Baseline
<1>4. ~(r.nonce > Expected(b))
  BY <1>3 DEF Verdict
<1> QED
  BY <1>1, <1>2, <1>3, <1>4

\* Where the rest is one complete run of returns, nobody stole anything after the count expected.
LEMMA ReturnsKnown ==
  ASSUME WatchTypeOK, base \in Baseline, Known(base.nonce), Returns(Expected(base))
  PROVE  Known(chain.nonce)
<1>0. base.nonce \in Nat /\ chain.nonce \in Nat /\ KnownNext \in Nat /\ \A n \in Nonces : n \in Nat
  BY KnownNextIs, Facts DEF Baseline, Nonces
<1>1. Expected(base) \in Nat /\ (Expected(base) = KnownNext \/ Expected(base) = base.nonce)
  BY <1>0 DEF Expected
<1>2. ASSUME NEW n \in Nonces, spender[n] = "thief", n < chain.nonce PROVE n < trusted \/ n < KnownNext
  <2>1. n < Expected(base)
    <3>1. ASSUME Expected(base) <= n PROVE FALSE
      <4>1. n \in Expected(base) .. chain.nonce - 1
        BY <1>0, <1>1, <1>2, <3>1
      <4> QED
        BY <1>2, <4>1 DEF Returns
    <3> QED
      BY <1>0, <1>1, <3>1
  <2> QED
    BY <1>1, <1>2, <2>1 DEF Known, Vouched
<1> QED
  BY <1>0, <1>2 DEF Known, Vouched

LEMMA LogKnownKeeps ==
  ASSUME WatchTypeOK, WatchTypeOK', Grows, log \in Seq(LogEvent), KeptIsKnown,
         log' = log \/ \E e \in LogEvent : log' \in Added(e) /\ Known(e.nonce)'
  PROVE  LogKnown'
<1>1. ASSUME NEW j \in DOMAIN log, NEW m, m = log[j].nonce PROVE Known(m)'
  <2>1. m \in 0 .. MaxNonce
    BY <1>1, LogElement
  <2>2. Known(m)
    BY <1>1 DEF KeptIsKnown
  <2> QED
    BY <2>1, <2>2, KnownKeeps
<1>2. ASSUME NEW i \in DOMAIN log', NEW m, m = log'[i].nonce PROVE Known(m)'
  <2>1. CASE \E j \in DOMAIN log : log'[i] = log[j]
    BY <1>1, <1>2, <2>1
  <2>2. CASE \E e \in LogEvent : log' \in Added(e) /\ Known(e.nonce)'
    <3>1. PICK e \in LogEvent : log' \in Added(e) /\ Known(e.nonce)'
      BY <2>2
    <3>2. log'[i] = e \/ \E j \in DOMAIN log : log'[i] = log[j]
      BY <1>2, <3>1, AddedIs
    <3>3. CASE log'[i] = e
      BY <1>2, <3>1, <3>3
    <3> QED
      BY <2>1, <3>2, <3>3
  <2>3. CASE log' = log
    BY <1>2, <2>1, <2>3
  <2> QED
    BY <2>2, <2>3
<1> QED
  <2> SUFFICES ASSUME NEW i \in DOMAIN log'
               PROVE  /\ log'[i].nonce <= chain'.nonce
                      /\ \A n \in Nonces : spender'[n] = "thief" /\ n < log'[i].nonce => n < trusted' \/ n < KnownNext'
    BY DEF LogKnown, Known, Vouched
  <2>1. PICK m : m = log'[i].nonce
    OBVIOUS
  <2>2. Known(m)'
    BY <1>2, <2>1
  <2> QED
    BY <2>1, <2>2 DEF Known, Vouched

\* A baseline is known when its transaction count is.
LEMMA BaseFrom ==
  ASSUME NEW m, base' # None => base'.nonce = m /\ Known(m)'
  PROVE  BaseKnown'
BY DEF BaseKnown, Known, Vouched

LEMMA BaseStays ==
  ASSUME WatchTypeOK, WatchTypeOK', Grows, KeptIsKnown, base' = base
  PROVE  BaseKnown'
<1>1. CASE base = None
  BY <1>1 DEF BaseKnown
<1>2. CASE base # None
  <2>1. PICK m : m = base.nonce
    OBVIOUS
  <2>2. m \in 0 .. MaxNonce /\ Known(m)
    BY <1>2, <2>1 DEF KeptIsKnown, WatchTypeOK
  <2>3. Known(m)'
    BY <2>2, KnownKeeps
  <2> QED
    BY <2>1, <2>3, BaseFrom
<1> QED
  BY <1>1, <1>2

\* A check that has not proved anything is known by its reading's count alone.
LEMMA ReadFrom ==
  ASSUME check'.pc # "proven", check'.reading.nonce <= chain'.nonce
  PROVE  ReadKnown'
BY DEF ReadKnown

LEMMA ReadStays ==
  ASSUME WatchTypeOK, WatchTypeOK', Grows, KeptIsKnown, UNCHANGED check
  PROVE  ReadKnown'
<1>1. PICK m : m = check.reading.nonce
  OBVIOUS
<1>2. m \in 0 .. MaxNonce /\ m <= chain.nonce /\ (check.pc = "proven" => Known(m))
  BY <1>1, Facts DEF KeptIsKnown
<1>3. check.pc = "proven" => Known(m)'
  BY <1>2, KnownKeeps
<1>4. chain.nonce \in Nat /\ chain'.nonce \in Nat /\ chain.nonce <= chain'.nonce
  BY DEF WatchTypeOK, Reading, Grows
<1>5. m <= chain'.nonce
  BY <1>2, <1>4
<1> QED
  BY <1>1, <1>3, <1>5 DEF ReadKnown, Known, Vouched

LEMMA IdleReads ==
  ASSUME WatchTypeOK', check' = NoCheck \/ check' = [NoCheck EXCEPT !.pc = "alarm"]
  PROVE  ReadKnown'
<1>1. chain'.nonce \in Nat
  BY DEF WatchTypeOK, Reading
<1>2. check'.pc # "proven" /\ check'.reading.nonce = 0
  BY DEF NoCheck
<1> QED
  BY <1>1, <1>2, ReadFrom

LEMMA KeptKeeps ==
  ASSUME WatchTypeOK, Dated, log \in Seq(LogEvent), ChainKept, WatchTypeOK', KeptIsKnown, [WatchNext]_fleetVars
  PROVE  KeptIsKnown'
<1>0. /\ Grows /\ KeptIsKnown
      /\ chain.nonce \in 0 .. MaxNonce /\ chain'.nonce \in 0 .. MaxNonce /\ chain.nonce <= chain'.nonce /\ MaxNonce \in Nat
      /\ command.nonce \in 0 .. MaxNonce /\ command.nonce <= chain.nonce
      /\ check.reading.nonce \in 0 .. MaxNonce /\ check.reading.nonce <= chain.nonce
      /\ check.reading.bal \in 0 .. Balance + 1 /\ watchTime \in 0 .. LastTime
  <2>1. chain'.nonce \in 0 .. MaxNonce
    BY DEF WatchTypeOK, Reading
  <2>2. Grows
    BY NextGrows
  <2> QED
    BY <2>1, <2>2, Facts, WatchFacts DEF KeptIsKnown, Grows
<1>1. UNCHANGED base => BaseKnown'
  BY <1>0, BaseStays
<1>2. UNCHANGED log => LogKnown'
  BY <1>0, LogKnownKeeps
<1>3. UNCHANGED check => ReadKnown'
  BY <1>0, ReadStays
<1>4. UNCHANGED command => CommandKnown'
  BY <1>0 DEF CommandKnown
<1>5. ASSUME UNCHANGED <<base, log, check, command>> PROVE KeptIsKnown'
  <2>1. BaseKnown' /\ LogKnown' /\ ReadKnown' /\ CommandKnown'
    BY <1>1, <1>2, <1>3, <1>4, <1>5
  <2> QED
    BY <2>1, KeptParts, PTL
<1>6. (\E r \in WalletRuns : Reserve(r) \/ RecordAttempt(r) \/ OwnMined(r) \/ Close(r)) => UNCHANGED <<base, log, check, command>>
  BY DEF Reserve, RecordAttempt, OwnMined, Close, watchVars, logVars
<1>7. (\E who \in {"thief", "treasury"} : Spend(who)) => UNCHANGED <<base, log, check, command>>
  BY DEF Spend, watchVars, logVars
<1>8. Deposit \/ KillRelease \/ ClockTick \/ UNCHANGED fleetVars => UNCHANGED <<base, log, check, command>>
  BY DEF Deposit, KillRelease, ClockTick, fleetVars, watchVars, logVars
<1>9. CASE TickRead
  <2>1. UNCHANGED <<log, command, chain>> /\ base' = Loaded /\ check' = [pc |-> "read", reading |-> chain, at |-> watchTime]
    BY <1>9 DEF TickRead, walletVars, logVars
  <2>2. BaseKnown'
    <3>1. CASE Loaded = None
      BY <2>1, <3>1 DEF BaseKnown
    <3>2. CASE Loaded # None
      <4>1. PICK m : m = Loaded.nonce
        OBVIOUS
      <4>2. m \in 0 .. MaxNonce
        BY <3>2, <4>1, LoadedType DEF Baseline
      <4>3. Known(m)'
        BY <1>0, <3>2, <4>1, <4>2, LoadedKnown, KnownKeeps
      <4> QED
        BY <2>1, <4>1, <4>3, BaseFrom
    <3> QED
      BY <3>1, <3>2
  <2>3. check'.pc # "proven" /\ check'.reading.nonce <= chain'.nonce
    BY <1>0, <2>1
  <2>4. BaseKnown' /\ LogKnown' /\ ReadKnown' /\ CommandKnown'
    BY <1>2, <1>4, <2>1, <2>2, <2>3, ReadFrom
  <2> QED
    BY <2>4, KeptParts, PTL
<1>10. CASE Judge
  <2>1. PICK b : b = Synced(base, check.reading)
    OBVIOUS
  <2>2. PICK m : m = check.reading.nonce
    OBVIOUS
  <2>3. /\ b = None \/ b \in Baseline
        /\ Found(b) \/ Same(b) \/ Taken(b)
        /\ trusted' = IF Verdict(check.reading, b) = "baseline" THEN SetMax({trusted, m}) ELSE trusted
        /\ check.pc = "read"
        /\ UNCHANGED <<watchTime, chain, spender, res, attempt, command, killed, faults>>
    BY <1>10, <2>1, <2>2, JudgeIs
  <2>4. b # None => Known(b.nonce)
    BY <2>1, SyncedKnown
  <2>5. CASE Found(b) \/ Same(b)
    <3>1. base' = b /\ UNCHANGED log /\ check'.pc # "proven" /\ check'.reading.nonce <= chain'.nonce
      <4>1. CASE Found(b)
        <5>1. check' = [check EXCEPT !.pc = "confirm"] /\ check \in [pc : {"idle", "read", "confirm", "proven", "alarm"}, reading : Reading, at : -1 .. LastTime]
          BY <4>1, WatchFacts DEF Found
        <5>2. check'.pc = "confirm" /\ check'.reading = check.reading
          BY <5>1
        <5> QED
          BY <1>0, <2>3, <4>1, <5>2 DEF Found
      <4>2. CASE Same(b)
        BY <1>0, <2>3, <4>2 DEF Same, NoCheck
      <4> QED
        BY <2>5, <4>1, <4>2
    <3>2. BaseKnown'
      <4>1. CASE b = None
        BY <3>1, <4>1 DEF BaseKnown
      <4>2. CASE b # None
        <5>1. PICK k : k = b.nonce
          OBVIOUS
        <5>2. k \in 0 .. MaxNonce /\ Known(k)
          BY <2>3, <2>4, <4>2, <5>1 DEF Baseline
        <5>3. Known(k)'
          BY <1>0, <5>2, KnownKeeps
        <5> QED
          BY <3>1, <5>1, <5>3, BaseFrom
      <4> QED
        BY <4>1, <4>2
    <3>3. BaseKnown' /\ LogKnown' /\ ReadKnown' /\ CommandKnown'
      BY <1>2, <1>4, <2>3, <3>1, <3>2, ReadFrom
    <3> QED
      BY <3>3, KeptParts, PTL
  <2>6. CASE Taken(b)
    <3>1. /\ Verdict(check.reading, b) \in {"baseline", "ok"} /\ check' = NoCheck
          /\ base' = [nonce |-> m, bal |-> check.reading.bal, at |-> check.at]
          /\ log' \in Added(Event("baseline", check.reading, watchTime, check.at))
      BY <2>2, <2>6 DEF Taken
    <3>2. Known(m)'
      <4>1. CASE Verdict(check.reading, b) = "ok"
        <5>1. b # None
          <6>1. "ok" # "baseline"
            OBVIOUS
          <6> QED
            BY <4>1, <6>1 DEF Verdict
        <5>2. b \in Baseline
          BY <2>3, <5>1
        <5>3. m <= Expected(b)
          BY <1>0, <2>2, <4>1, <5>2, VerdictOk
        <5>4. Known(m)
          BY <1>0, <2>2, <2>4, <5>1, <5>2, <5>3, OkIsKnown
        <5> QED
          BY <1>0, <2>2, <5>4, KnownKeeps
      <4>2. CASE Verdict(check.reading, b) = "baseline"
        <5>1. trusted \in Int /\ m \in Nat /\ m \in Int
          BY <1>0, <2>2, Facts
        <5>2. m <= trusted' /\ trusted' \in Int
          <6>1. SetMax({trusted, m}) \in {trusted, m} /\ m <= SetMax({trusted, m})
            BY <5>1, PairMax
          <6>2. trusted' = SetMax({trusted, m})
            BY <2>3, <4>2
          <6> QED
            BY <5>1, <6>1, <6>2
        <5>3. m <= chain'.nonce
          BY <1>0, <2>2, <2>3
        <5>4. \A n \in Nonces : n < m => n < trusted'
          BY <5>1, <5>2 DEF Nonces
        <5> QED
          BY <5>3, <5>4 DEF Known, Vouched
      <4> QED
        BY <3>1, <4>1, <4>2
    <3>3. PICK e : e = Event("baseline", check.reading, watchTime, check.at)
      OBVIOUS
    <3>4. e \in LogEvent /\ e.nonce = m
      <4>1. check.at \in 0 .. LastTime
        BY <2>3 DEF Dated
      <4> QED
        BY <1>0, <2>2, <3>3, <4>1, EventType
    <3>5. LogKnown'
      <4>1. log' \in Added(e) /\ Known(e.nonce)'
        BY <3>1, <3>2, <3>3, <3>4
      <4> QED
        BY <1>0, <3>4, <4>1, LogKnownKeeps
    <3>6. BaseKnown'
      BY <3>1, <3>2, BaseFrom
    <3>7. BaseKnown' /\ LogKnown' /\ ReadKnown' /\ CommandKnown'
      BY <1>4, <2>3, <3>1, <3>5, <3>6, IdleReads
    <3> QED
      BY <3>7, KeptParts, PTL
  <2> QED
    BY <2>3, <2>5, <2>6
<1>11. CASE Confirm \/ ConfirmFails
  <2>1. UNCHANGED <<base, log, command, chain, spender, attempt, trusted>>
    BY <1>11 DEF Confirm, ConfirmFails, walletVars, bookVars, logVars
  <2>2. \/ check' = NoCheck \/ check' = [NoCheck EXCEPT !.pc = "alarm"]
        \/ /\ Verdict(chain, base) = "unknown_activity" /\ Returns(Expected(base))
           /\ check' = [check EXCEPT !.pc = "proven", !.reading = chain, !.at = -1]
    BY <1>11 DEF Confirm, ConfirmFails
  <2>3. ReadKnown'
    <3>1. CASE check' = NoCheck \/ check' = [NoCheck EXCEPT !.pc = "alarm"]
      BY <3>1, IdleReads
    <3>2. CASE /\ Verdict(chain, base) = "unknown_activity" /\ Returns(Expected(base))
               /\ check' = [check EXCEPT !.pc = "proven", !.reading = chain, !.at = -1]
      <4>1. base # None
        <5>1. "unknown_activity" # "baseline"
          OBVIOUS
        <5> QED
          BY <3>2, <5>1 DEF Verdict
      <4>2. base \in Baseline /\ Known(base.nonce)
        BY <4>1, WatchFacts DEF KeptIsKnown
      <4>3. Known(chain.nonce)
        BY <3>2, <4>2, ReturnsKnown
      <4>4. PICK m : m = chain.nonce
        OBVIOUS
      <4>5. Known(m)'
        BY <1>0, <4>3, <4>4, KnownKeeps
      <4>6. check'.reading = chain
        BY <3>2, WatchFacts
      <4>7. check'.reading.nonce = m /\ m = chain'.nonce
        BY <2>1, <4>4, <4>6
      <4>8. m <= m
        BY <1>0, <4>4
      <4> QED
        BY <4>5, <4>7, <4>8 DEF ReadKnown, Known, Vouched
    <3> QED
      BY <2>2, <3>1, <3>2
  <2>4. BaseKnown' /\ LogKnown' /\ ReadKnown' /\ CommandKnown'
    BY <1>1, <1>2, <1>4, <2>1, <2>3
  <2> QED
    BY <2>4, KeptParts, PTL
<1>12. CASE CommitReturn
  <2>1. UNCHANGED command /\ check.pc = "proven"
        /\ (check' = NoCheck \/ check' = [NoCheck EXCEPT !.pc = "alarm"])
        /\ \/ UNCHANGED <<base, log>>
           \/ /\ base' = [nonce |-> check.reading.nonce, bal |-> check.reading.bal, at |-> watchTime]
              /\ log' \in Added(Event("baseline", check.reading, watchTime, watchTime))
    BY <1>12 DEF CommitReturn, Remembered, Persist, logVars
  <2>2. PICK m : m = check.reading.nonce
    OBVIOUS
  <2>3. Known(m)'
    <3>1. Known(m)
      BY <2>1, <2>2 DEF KeptIsKnown
    <3> QED
      BY <1>0, <2>2, <3>1, KnownKeeps
  <2>4. PICK e : e = Event("baseline", check.reading, watchTime, watchTime)
    OBVIOUS
  <2>5. e \in LogEvent /\ e.nonce = m
    BY <1>0, <2>2, <2>4, EventType
  <2>6. LogKnown'
    <3>1. log' = log \/ log' \in Added(e)
      BY <2>1, <2>4
    <3>2. Known(e.nonce)'
      BY <2>3, <2>5
    <3> QED
      BY <1>0, <2>5, <3>1, <3>2, LogKnownKeeps
  <2>7. BaseKnown'
    <3>1. CASE UNCHANGED base
      BY <1>1, <3>1
    <3>2. CASE base' = [nonce |-> check.reading.nonce, bal |-> check.reading.bal, at |-> watchTime]
      BY <2>2, <2>3, <3>2, BaseFrom
    <3> QED
      BY <2>1, <3>1, <3>2
  <2>8. BaseKnown' /\ LogKnown' /\ ReadKnown' /\ CommandKnown'
    BY <1>4, <2>1, <2>6, <2>7, IdleReads
  <2> QED
    BY <2>8, KeptParts, PTL
<1>13. CASE Alarm
  <2>1. UNCHANGED <<base, command>> /\ check' = NoCheck /\ UNCHANGED log
    BY <1>13 DEF Alarm, PersistOther, logVars
  <2>2. LogKnown'
    BY <1>2, <2>1
  <2>3. BaseKnown' /\ LogKnown' /\ ReadKnown' /\ CommandKnown'
    BY <1>1, <1>4, <2>1, <2>2, IdleReads
  <2> QED
    BY <2>3, KeptParts, PTL
<1>14. CASE AcceptBegin
  <2>1. UNCHANGED <<base, log, check, chain>> /\ command' = [at |-> watchTime, nonce |-> chain.nonce, bal |-> chain.bal]
    BY <1>14 DEF AcceptBegin, watchVars, walletVars, logVars
  <2>2. CommandKnown'
    BY <1>0, <2>1 DEF CommandKnown
  <2>3. BaseKnown' /\ LogKnown' /\ ReadKnown' /\ CommandKnown'
    BY <1>1, <1>2, <1>3, <2>1, <2>2
  <2> QED
    BY <2>3, KeptParts, PTL
<1>15. CASE AcceptStore
  <2>1. /\ UNCHANGED <<base, check, chain>> /\ command' = NoCommand /\ command # NoCommand
        /\ trusted' = SetMax({trusted, command.nonce})
        /\ log' \in Added(Event("accept", command, command.at, command.at))
    BY <1>15 DEF AcceptStore, Persist, watchVars, walletVars
  <2>2. PICK m : m = command.nonce
    OBVIOUS
  <2>3. Known(m)'
    <3>1. trusted \in Int /\ m \in Nat /\ m \in Int
      BY <1>0, <2>2, Facts
    <3>2. m <= trusted' /\ trusted' \in Int
      <4>1. trusted' = SetMax({trusted, m})
        BY <2>1, <2>2
      <4>2. SetMax({trusted, m}) \in {trusted, m} /\ m <= SetMax({trusted, m})
        BY <3>1, PairMax
      <4> QED
        BY <3>1, <4>1, <4>2
    <3>3. m <= chain'.nonce
      BY <1>0, <2>1, <2>2
    <3>4. \A n \in Nonces : n < m => n < trusted'
      BY <3>1, <3>2 DEF Nonces
    <3> QED
      BY <3>3, <3>4 DEF Known, Vouched
  <2>4. PICK e : e = Event("accept", command, command.at, command.at)
    OBVIOUS
  <2>5. e \in LogEvent /\ e.nonce = m
    <3>1. command.at \in 0 .. LastTime /\ command.bal \in 0 .. Balance + 1
      BY <2>1, WatchFacts DEF Dated
    <3> QED
      BY <1>0, <2>2, <2>4, <3>1, EventType
  <2>6. LogKnown'
    <3>1. Known(e.nonce)'
      BY <2>3, <2>5
    <3> QED
      BY <1>0, <2>1, <2>4, <2>5, <3>1, LogKnownKeeps
  <2>7. CommandKnown'
    BY <1>0, <2>1 DEF CommandKnown, NoCommand
  <2>8. BaseKnown' /\ LogKnown' /\ ReadKnown' /\ CommandKnown'
    BY <1>1, <1>3, <2>1, <2>6, <2>7
  <2> QED
    BY <2>8, KeptParts, PTL
<1>16. CASE Crash
  <2>1. UNCHANGED <<log, command>> /\ base' = None /\ check' = NoCheck
    BY <1>16 DEF Crash, logVars
  <2>2. BaseKnown'
    BY <2>1 DEF BaseKnown
  <2>3. BaseKnown' /\ LogKnown' /\ ReadKnown' /\ CommandKnown'
    BY <1>2, <1>4, <2>1, <2>2, IdleReads
  <2> QED
    BY <2>3, KeptParts, PTL
<1> QED
  BY <1>5, <1>6, <1>7, <1>8, <1>9, <1>10, <1>11, <1>12, <1>13, <1>14, <1>15, <1>16 DEF WatchNext

-----------------------------------------------------------------------------
(* What the bot did itself                                                 *)

\* Blameless in parts, for a wallet nobody else has used.
Unstopped == ~killed /\ command = NoCommand /\ check.pc \in {"idle", "read"}
BaseExplained == base # None => Explained(base.nonce, base.bal, base.at)
LogExplained == \A i \in DOMAIN log : log[i].kind = "baseline" /\ Explained(log[i].nonce, log[i].bal, log[i].seen)
ReadExplained ==
  check.pc = "read" =>
    /\ Explained(check.reading.nonce, check.reading.bal, check.at)
    /\ base # None => base.nonce + base.bal <= check.reading.nonce + check.reading.bal

LEMMA BlamelessParts ==
  Blameless <=> (Foreign = {} => Unstopped /\ BaseExplained /\ LogExplained /\ ReadExplained)
BY DEF Blameless, Unstopped, BaseExplained, LogExplained, ReadExplained

\* The transactions between two counts, each one of a run that is settling, are no more than the
\* fall the reservations allow.
LEMMA FallAllowed ==
  ASSUME WatchTypeOK, ChainKept, Foreign = {}, NEW b \in Baseline, NEW m \in 0 .. MaxNonce,
         b.nonce <= m, m <= chain.nonce, Explained(b.nonce, b.bal, b.at)
  PROVE  m - b.nonce <= AllowedFall(b) /\ AllowedFall(b) \in Nat
<1> DEFINE R == {r \in WalletRuns : Settling(r, b.at)}
           N == b.nonce .. (m - 1)
           f == [n \in N |-> spender[n]]
<1>0. b.nonce \in Nat /\ m \in Nat /\ MaxNonce \in Nat /\ chain.nonce \in Nat
  BY Facts DEF Baseline
<1>1. AllowedFall(b) = Cardinality(R)
  BY DEF AllowedFall, Settling
<1>2. IsFiniteSet(R)
  BY WalletRunsAssumption, FS_Subset
<1>3. Cardinality(R) \in Nat
  BY <1>2, FS_CardinalityType
<1>4. \A n \in N : n \in Nonces /\ n < chain.nonce /\ b.nonce <= n /\ n \in Int
  BY <1>0 DEF Nonces
<1>5. \A n \in N : spender[n] \in WalletRuns /\ attempt[spender[n]] = n /\ Settling(spender[n], b.at)
  BY <1>4, OwnCounts DEF Explained
<1> HIDE DEF N
<1>6. f \in Injection(N, R)
  <2>1. f \in [N -> R]
    BY <1>5
  <2>2. \A i, j \in N : f[i] = f[j] => i = j
    BY <1>5
  <2> HIDE DEF f, R
  <2> QED
    BY <2>1, <2>2, Fun_IsInj
<1>7. Cardinality(N) <= Cardinality(R)
  BY <1>2, <1>6, FS_Injection
<1>8. Cardinality(N) = m - b.nonce
  <2>1. b.nonce \in Int /\ m - 1 \in Int
    BY <1>0
  <2>2. Cardinality(N) = IF b.nonce > m - 1 THEN 0 ELSE (m - 1) - b.nonce + 1
    BY <2>1, FS_Interval DEF N
  <2> QED
    BY <1>0, <2>2
<1> QED
  BY <1>1, <1>3, <1>7, <1>8

\* Whatever was read of a wallet that only MintBot used, no judgement finds anything.
LEMMA NothingFound ==
  ASSUME WatchTypeOK, ChainKept, Foreign = {}, NEW b, b = None \/ b \in Baseline, NEW r \in Reading, r.nonce <= chain.nonce,
         b # None => Explained(b.nonce, b.bal, b.at) /\ b.nonce + b.bal <= r.nonce + r.bal
  PROVE  ~KillClass(Verdict(r, b))
<1>0. r.nonce \in 0 .. MaxNonce /\ r.bal \in Nat /\ chain.nonce \in 0 .. MaxNonce /\ MaxNonce \in Nat
  BY Facts DEF Reading
<1>1. CASE b = None
  BY <1>1 DEF Verdict, KillClass
<1>2. CASE b # None /\ r.nonce < b.nonce
  BY <1>2 DEF Verdict, KillClass
<1>3. CASE b # None /\ ~(r.nonce < b.nonce)
  <2>0. b \in Baseline /\ b.nonce \in Nat /\ b.bal \in Nat /\ b.nonce <= r.nonce /\ KnownNext \in Nat
    BY <1>0, <1>3, KnownNextIs DEF Baseline
  <2>1. r.nonce <= Expected(b) /\ Expected(b) \in Nat
    <3>1. CASE r.nonce <= b.nonce
      BY <1>0, <2>0, <3>1 DEF Expected
    <3>2. CASE r.nonce > b.nonce
      <4>1. r.nonce - 1 \in Nonces /\ r.nonce - 1 < chain.nonce /\ r.nonce - 1 \in Nat
        BY <1>0, <2>0, <3>2 DEF Nonces
      <4>2. spender[r.nonce - 1] \in WalletRuns /\ attempt[spender[r.nonce - 1]] = r.nonce - 1
        BY <4>1, OwnCounts
      <4>3. \E s \in WalletRuns : r.nonce - 1 <= attempt[s]
        <5>1. r.nonce - 1 <= r.nonce - 1
          BY <1>0
        <5> QED
          BY <4>2, <5>1
      <4>4. r.nonce - 1 < KnownNext
        BY <4>1, <4>3, KnownNextIs
      <4>5. r.nonce <= KnownNext
        BY <1>0, <2>0, <4>4
      <4> QED
        BY <1>0, <2>0, <4>5 DEF Expected
    <3> QED
      BY <1>0, <2>0, <3>1, <3>2
  <2>2. b.bal - r.bal <= AllowedFall(b) /\ AllowedFall(b) \in Nat
    <3>1. r.nonce - b.nonce <= AllowedFall(b) /\ AllowedFall(b) \in Nat
      BY <1>0, <1>3, <2>0, FallAllowed
    <3>2. b.nonce + b.bal <= r.nonce + r.bal
      BY <1>3
    <3> QED
      BY <1>0, <2>0, <3>1, <3>2
  <2>3. ~(r.nonce > Expected(b)) /\ ~(b.bal - r.bal > AllowedFall(b))
    BY <1>0, <2>0, <2>1, <2>2
  <2> QED
    BY <1>3, <2>3 DEF Verdict, KillClass
<1> QED
  BY <1>1, <1>2, <1>3

\* What a check of such a wallet does with the baseline it was given.
LEMMA OwnJudgement ==
  ASSUME WatchTypeOK, Dated, log \in Seq(LogEvent), ChainKept, KeptIsKnown, Foreign = {}, BaseExplained, LogExplained, ReadExplained, Judge
  PROVE  Same(base) \/ Taken(base)
<1>1. Synced(base, check.reading) = base
  <2>1. \A i \in DOMAIN log : log[i].kind # "accept"
    BY DEF LogExplained
  <2> QED
    BY <2>1, SyncedIs
<1>2. (Found(base) \/ Same(base) \/ Taken(base)) /\ check.pc = "read" /\ (base = None \/ base \in Baseline)
  BY <1>1, JudgeIs
<1>3. check.reading \in Reading /\ check.reading.nonce <= chain.nonce
  BY Facts DEF KeptIsKnown
<1>4. base # None => Explained(base.nonce, base.bal, base.at) /\ base.nonce + base.bal <= check.reading.nonce + check.reading.bal
  BY <1>2 DEF BaseExplained, ReadExplained
<1>5. ~KillClass(Verdict(check.reading, base))
  BY <1>2, <1>3, <1>4, NothingFound
<1> QED
  BY <1>2, <1>5 DEF Found

LEMMA ExplainedFrom ==
  ASSUME WatchTypeOK, WatchTypeOK', ChainKept, ChainKept', Grows, Foreign' = {},
         NEW r, r.nonce \in 0 .. MaxNonce, r.bal \in 0 .. Balance + 1, NEW at \in 0 .. LastTime, Explained(r.nonce, r.bal, at),
         NEW nonce, nonce = r.nonce, NEW bal, bal = r.bal
  PROVE  Explained(nonce, bal, at)'
<1>1. nonce \in Int /\ bal \in Int
  BY WatchAssumption
<1> QED
  BY <1>1, ExplainedKeeps

LEMMA BaseExplainedKeeps ==
  ASSUME WatchTypeOK, WatchTypeOK', ChainKept, ChainKept', Grows, Foreign' = {},
         NEW r, r.nonce \in 0 .. MaxNonce, r.bal \in 0 .. Balance + 1, NEW at \in 0 .. LastTime, Explained(r.nonce, r.bal, at),
         base' = [nonce |-> r.nonce, bal |-> r.bal, at |-> at]
  PROVE  BaseExplained'
<1>1. PICK nonce, bal : nonce = r.nonce /\ bal = r.bal
  OBVIOUS
<1>2. Explained(nonce, bal, at)'
  BY <1>1, ExplainedFrom
<1>3. base'.nonce = nonce /\ base'.bal = bal /\ base'.at = at
  BY <1>1
<1> QED
  BY <1>2, <1>3 DEF BaseExplained, Explained, Settling, Open

LEMMA BaseExplainedStays ==
  ASSUME WatchTypeOK, WatchTypeOK', ChainKept, ChainKept', Grows, Foreign' = {}, BaseExplained, base' = base
  PROVE  BaseExplained'
<1>1. CASE base = None
  BY <1>1 DEF BaseExplained
<1>2. CASE base # None
  <2>1. base \in Baseline
    BY <1>2 DEF WatchTypeOK, Baseline
  <2>2. /\ base.nonce \in 0 .. MaxNonce /\ base.bal \in 0 .. Balance + 1 /\ base.at \in 0 .. LastTime
        /\ base = [nonce |-> base.nonce, bal |-> base.bal, at |-> base.at]
    BY <2>1 DEF Baseline
  <2>3. PICK at \in 0 .. LastTime : at = base.at
    BY <2>2
  <2>4. PICK r : r = base
    OBVIOUS
  <2>5. Explained(r.nonce, r.bal, at)
    BY <1>2, <2>3, <2>4 DEF BaseExplained
  <2>6. base' = [nonce |-> r.nonce, bal |-> r.bal, at |-> at]
    BY <2>2, <2>3, <2>4
  <2> QED
    BY <2>2, <2>4, <2>5, <2>6, BaseExplainedKeeps
<1> QED
  BY <1>1, <1>2

LEMMA LogExplainedKeeps ==
  ASSUME WatchTypeOK, WatchTypeOK', ChainKept, ChainKept', Grows, Foreign' = {}, log \in Seq(LogEvent), LogExplained,
         \/ log' = log
         \/ \E e \in LogEvent : log' \in Added(e) /\ e.kind = "baseline" /\ Explained(e.nonce, e.bal, e.seen)
  PROVE  LogExplained'
<1>1. ASSUME NEW e \in LogEvent, Explained(e.nonce, e.bal, e.seen), NEW nonce, NEW bal, NEW at, nonce = e.nonce, bal = e.bal, at = e.seen
      PROVE  Explained(nonce, bal, at)'
  <2>1. e.nonce \in 0 .. MaxNonce /\ e.bal \in 0 .. Balance + 1 /\ at \in 0 .. LastTime
    BY <1>1 DEF LogEvent
  <2> QED
    BY <1>1, <2>1, ExplainedFrom
<1>2. ASSUME NEW i \in DOMAIN log'
      PROVE  \E e \in LogEvent : log'[i] = e /\ e.kind = "baseline" /\ Explained(e.nonce, e.bal, e.seen)
  <2>1. CASE \E j \in DOMAIN log : log'[i] = log[j]
    BY <1>2, <2>1, LogElement DEF LogExplained
  <2>2. CASE \E e \in LogEvent : log' \in Added(e) /\ e.kind = "baseline" /\ Explained(e.nonce, e.bal, e.seen)
    <3>1. PICK e \in LogEvent : log' \in Added(e) /\ e.kind = "baseline" /\ Explained(e.nonce, e.bal, e.seen)
      BY <2>2
    <3>2. log'[i] = e \/ \E j \in DOMAIN log : log'[i] = log[j]
      BY <1>2, <3>1, AddedIs
    <3> QED
      BY <2>1, <3>1, <3>2
  <2>3. CASE log' = log
    BY <1>2, <2>1, <2>3
  <2> QED
    BY <2>2, <2>3
<1> QED
  <2> SUFFICES ASSUME NEW i \in DOMAIN log'
               PROVE  log'[i].kind = "baseline" /\ Explained(log[i].nonce, log[i].bal, log[i].seen)'
    BY DEF LogExplained
  <2>1. PICK e \in LogEvent : log'[i] = e /\ e.kind = "baseline" /\ Explained(e.nonce, e.bal, e.seen)
    BY <1>2
  <2>2. PICK nonce, bal, at : nonce = e.nonce /\ bal = e.bal /\ at = e.seen
    OBVIOUS
  <2>3. Explained(nonce, bal, at)'
    BY <1>1, <2>1, <2>2
  <2>4. log'[i].kind = "baseline" /\ log'[i].nonce = nonce /\ log'[i].bal = bal /\ log'[i].seen = at
    BY <2>1, <2>2
  <2> QED
    BY <2>3, <2>4 DEF Explained, Settling, Open

LEMMA ReadExplainedStays ==
  ASSUME WatchTypeOK, WatchTypeOK', Dated, ChainKept, ChainKept', Grows, Foreign' = {}, ReadExplained, UNCHANGED <<base, check>>
  PROVE  ReadExplained'
<1>1. SUFFICES ASSUME check.pc = "read" PROVE ReadExplained'
  BY DEF ReadExplained
<1>2. check.at \in 0 .. LastTime /\ check.reading.nonce \in 0 .. MaxNonce /\ check.reading.bal \in 0 .. Balance + 1
  BY <1>1, WatchFacts DEF Dated
<1>3. PICK nonce, bal, at : nonce = check.reading.nonce /\ bal = check.reading.bal /\ at = check.at
  OBVIOUS
<1>4. PICK r : r = check.reading
  OBVIOUS
<1>5. Explained(nonce, bal, at)'
  <2>1. Explained(r.nonce, r.bal, at)
    BY <1>1, <1>3, <1>4 DEF ReadExplained
  <2> QED
    BY <1>2, <1>3, <1>4, <2>1, ExplainedFrom
<1>6. base # None => base.nonce + base.bal <= check.reading.nonce + check.reading.bal
  BY <1>1 DEF ReadExplained
<1> QED
  BY <1>3, <1>5, <1>6 DEF ReadExplained, Explained, Settling, Open

LEMMA BlamelessKeeps ==
  ASSUME WatchTypeOK, Dated, log \in Seq(LogEvent), WatchTypeOK', ChainKept, ChainKept', KeptIsKnown, Blameless, [WatchNext]_fleetVars
  PROVE  Blameless'
<1>1. SUFFICES ASSUME Foreign' = {} PROVE Unstopped' /\ BaseExplained' /\ LogExplained' /\ ReadExplained'
  <2>1. Blameless' <=> (Foreign = {} => Unstopped /\ BaseExplained /\ LogExplained /\ ReadExplained)'
    BY BlamelessParts, PTL
  <2> QED
    BY <2>1
<1>2. Grows
  BY NextGrows
<1>3. Foreign = {}
  BY <1>1, <1>2, ForeignBack
<1>4. Unstopped /\ BaseExplained /\ LogExplained /\ ReadExplained
  BY <1>3, BlamelessParts
<1>5. /\ ~killed /\ command = NoCommand /\ check.pc \in {"idle", "read"}
      /\ check.reading.nonce \in 0 .. MaxNonce /\ check.reading.bal \in 0 .. Balance + 1 /\ watchTime \in 0 .. LastTime
  BY <1>4, WatchFacts DEF Unstopped
<1>6. UNCHANGED base => BaseExplained'
  BY <1>1, <1>2, <1>4, BaseExplainedStays
<1>7. UNCHANGED log => LogExplained'
  BY <1>1, <1>2, <1>4, LogExplainedKeeps
<1>8. UNCHANGED <<base, check>> => ReadExplained'
  BY <1>1, <1>2, <1>4, ReadExplainedStays
<1>9. UNCHANGED <<killed, command>> /\ check'.pc \in {"idle", "read"} => Unstopped'
  BY <1>4 DEF Unstopped
<1>10. check'.pc = "idle" => ReadExplained'
  BY DEF ReadExplained
<1>11. ASSUME UNCHANGED <<killed, command, base, check, log>> PROVE Unstopped' /\ BaseExplained' /\ LogExplained' /\ ReadExplained'
  BY <1>5, <1>6, <1>7, <1>8, <1>9, <1>11
<1>12. (\E r \in WalletRuns : Reserve(r) \/ RecordAttempt(r) \/ OwnMined(r) \/ Close(r)) => UNCHANGED <<killed, command, base, check, log>>
  BY DEF Reserve, RecordAttempt, OwnMined, Close, watchVars, logVars
<1>13. (\E who \in {"thief", "treasury"} : Spend(who)) => UNCHANGED <<killed, command, base, check, log>>
  BY DEF Spend, watchVars, logVars
<1>14. Deposit \/ ClockTick \/ UNCHANGED fleetVars => UNCHANGED <<killed, command, base, check, log>>
  BY DEF Deposit, ClockTick, fleetVars, watchVars, logVars
<1>15. ~(Confirm \/ ConfirmFails \/ CommitReturn \/ Alarm \/ AcceptBegin \/ AcceptStore \/ KillRelease)
  BY <1>5 DEF Confirm, ConfirmFails, CommitReturn, Alarm, AcceptBegin, AcceptStore, KillRelease
<1>16. CASE TickRead
  <2>1. UNCHANGED <<log, command, killed, chain, spender, watchTime, attempt, res>> /\ base' = Loaded
        /\ check' = [pc |-> "read", reading |-> chain, at |-> watchTime]
    BY <1>16 DEF TickRead, walletVars, logVars, bookVars
  <2>2. BaseExplained'
    <3>1. CASE Loaded = base
      BY <1>6, <2>1, <3>1
    <3>2. CASE \E i \in DOMAIN log : Loaded = [nonce |-> log[i].nonce, bal |-> log[i].bal, at |-> log[i].seen]
      <4>1. PICK i \in DOMAIN log : Loaded = [nonce |-> log[i].nonce, bal |-> log[i].bal, at |-> log[i].seen]
        BY <3>2
      <4>2. PICK r, at : r = log[i] /\ at = log[i].seen
        OBVIOUS
      <4>3. r.nonce \in 0 .. MaxNonce /\ r.bal \in 0 .. Balance + 1 /\ at \in 0 .. LastTime
        BY <4>2, LogElement
      <4>4. Explained(r.nonce, r.bal, at)
        BY <1>4, <4>1, <4>2 DEF LogExplained
      <4>5. base' = [nonce |-> r.nonce, bal |-> r.bal, at |-> at]
        BY <2>1, <4>1, <4>2
      <4> QED
        BY <1>1, <1>2, <4>3, <4>4, <4>5, BaseExplainedKeeps
    <3> QED
      BY <3>1, <3>2, LoadedIs
  <2>3. ReadExplained'
    <3>1. check'.reading = chain' /\ check'.at = watchTime'
      BY <2>1
    <3>2. chain'.nonce \in Nat /\ chain'.bal \in Nat /\ watchTime' \in Nat
      BY DEF WatchTypeOK, Reading
    <3>3. \A n \in Nonces : ~(chain'.nonce <= n /\ n < chain'.nonce)
      BY <3>2 DEF Nonces
    <3>4. Explained(check.reading.nonce, check.reading.bal, check.at)'
      BY <3>1, <3>2, <3>3 DEF Explained
    <3>5. base' # None => base'.nonce + base'.bal <= check'.reading.nonce + check'.reading.bal
      BY <2>2, <3>1 DEF BaseExplained, Explained
    <3> QED
      BY <3>4, <3>5 DEF ReadExplained
  <2>4. Unstopped'
    BY <1>9, <2>1
  <2> QED
    BY <1>7, <2>1, <2>2, <2>3, <2>4
<1>17. CASE Judge
  <2>1. (Same(base) \/ Taken(base)) /\ check.pc = "read" /\ UNCHANGED <<command, killed>>
    BY <1>3, <1>4, <1>17, OwnJudgement, JudgeIs
  <2>2. check' = NoCheck
    BY <2>1 DEF Same, Taken
  <2>3. Unstopped' /\ ReadExplained'
    <3>1. check'.pc = "idle"
      BY <2>2 DEF NoCheck
    <3> QED
      BY <1>9, <1>10, <2>1, <3>1
  <2>4. CASE Same(base)
    BY <1>6, <1>7, <2>3, <2>4 DEF Same
  <2>5. CASE Taken(base)
    <3>1. PICK r, at : r = check.reading /\ at = check.at
      OBVIOUS
    <3>2. r.nonce \in 0 .. MaxNonce /\ r.bal \in 0 .. Balance + 1 /\ at \in 0 .. LastTime
      BY <1>5, <2>1, <3>1 DEF Dated
    <3>3. Explained(r.nonce, r.bal, at)
      BY <1>4, <2>1, <3>1 DEF ReadExplained
    <3>4. base' = [nonce |-> r.nonce, bal |-> r.bal, at |-> at]
      BY <2>5, <3>1 DEF Taken
    <3>5. BaseExplained'
      BY <1>1, <1>2, <3>2, <3>3, <3>4, BaseExplainedKeeps
    <3>6. PICK e : e = Event("baseline", r, watchTime, at)
      OBVIOUS
    <3>7. e \in LogEvent /\ e.kind = "baseline" /\ e.nonce = r.nonce /\ e.bal = r.bal /\ e.seen = at
      BY <1>5, <3>2, <3>6, EventType
    <3>8. log' \in Added(e)
      BY <2>5, <3>1, <3>6 DEF Taken
    <3>9. Explained(e.nonce, e.bal, e.seen)
      BY <3>3, <3>7
    <3>10. LogExplained'
      BY <1>1, <1>2, <1>4, <3>7, <3>8, <3>9, LogExplainedKeeps
    <3> QED
      BY <2>3, <3>5, <3>10
  <2> QED
    BY <2>1, <2>4, <2>5
<1>18. CASE Crash
  <2>1. UNCHANGED <<log, command, killed>> /\ base' = None /\ check' = NoCheck
    BY <1>18 DEF Crash, logVars
  <2>2. check'.pc = "idle"
    BY <2>1 DEF NoCheck
  <2>3. BaseExplained'
    BY <2>1 DEF BaseExplained
  <2> QED
    BY <1>7, <1>9, <1>10, <2>1, <2>2, <2>3
<1> QED
  BY <1>11, <1>12, <1>13, <1>14, <1>15, <1>16, <1>17, <1>18 DEF WatchNext

-----------------------------------------------------------------------------
(* The invariant                                                           *)

LEMMA WatchStarts == WatchInit => WatchInv
<1> SUFFICES ASSUME WatchInit PROVE WatchInv
  OBVIOUS
<1>0. MaxNonce \in Nat /\ MaxNonce >= 1 /\ Balance \in Nat /\ MaxNonce <= Balance /\ LastTime \in Nat /\ Faults \in Nat
  BY WatchAssumption
<1>1. chain = [nonce |-> 0, bal |-> Balance] /\ chain \in Reading /\ chain.nonce = 0 /\ chain.bal = Balance
  BY <1>0 DEF WatchInit, Reading
<1>2. log = <<>> /\ log \in Seq(LogEvent) /\ DOMAIN log = {}
  BY DEF WatchInit
<1>3. check = NoCheck /\ command = NoCommand /\ base = None /\ ~killed
      /\ NoCheck.pc = "idle" /\ NoCheck.reading.nonce = 0 /\ NoCommand.nonce = 0
  BY DEF WatchInit, NoCheck, NoCommand
<1>4. spender = [n \in Nonces |-> "none"] /\ attempt = [r \in WalletRuns |-> -1] /\ res = [r \in WalletRuns |-> [status |-> "none", at |-> -1]]
  BY DEF WatchInit
<1>5. AllTypes
  <2>1. ChainTypes
    BY <1>0, <1>1, <1>4 DEF ChainTypes
  <2>2. WatchTypes
    <3>1. NoCheck \in [pc : {"idle", "read", "confirm", "proven", "alarm"}, reading : Reading, at : -1 .. LastTime]
      BY <1>0 DEF NoCheck, Reading
    <3>2. NoCommand \in [at : -1 .. LastTime, nonce : 0 .. MaxNonce, bal : 0 .. Balance + 1]
      BY <1>0 DEF NoCommand
    <3> QED
      BY <1>3, <3>1, <3>2 DEF WatchTypes, Dated
  <2>3. CountTypes
    BY <1>0 DEF CountTypes, WatchInit
  <2>4. killed \in BOOLEAN
    BY <1>3 DEF WatchInit
  <2> QED
    BY <1>2, <2>1, <2>2, <2>3, <2>4 DEF AllTypes
<1>6. ChainKept
  <2>1. \A n \in Nonces : spender[n] = "none" /\ ~(n < 0)
    BY <1>0, <1>4 DEF Nonces
  <2>2. "none" \notin WalletRuns
    BY WalletRunsAssumption
  <2> QED
    BY <1>0, <1>1, <2>1, <2>2 DEF ChainKept
<1>7. KeptIsKnown
  BY <1>1, <1>2, <1>3 DEF KeptIsKnown
<1>8. Blameless
  BY <1>2, <1>3 DEF Blameless
<1> QED
  BY <1>2, <1>5, <1>6, <1>7, <1>8, TypesAre DEF WatchInv

LEMMA WatchKeeps == WatchInv /\ [WatchNext]_fleetVars => WatchInv'
<1> SUFFICES ASSUME WatchInv, [WatchNext]_fleetVars PROVE WatchInv'
  OBVIOUS
<1>0. WatchTypeOK /\ log \in Seq(LogEvent) /\ ChainKept /\ Dated /\ KeptIsKnown /\ Blameless
  BY DEF WatchInv
<1>1. WatchTypeOK' /\ Dated' /\ log' \in Seq(LogEvent)
  BY <1>0, TypesKeep
<1>2. ChainKept'
  BY <1>0, ChainKeeps
<1>3. KeptIsKnown'
  BY <1>0, <1>1, KeptKeeps
<1>4. Blameless'
  BY <1>0, <1>1, <1>2, BlamelessKeeps
<1> QED
  BY <1>1, <1>2, <1>3, <1>4 DEF WatchInv

LEMMA WatchImplies == WatchInv => WatchSafety
<1> SUFFICES ASSUME WatchInv PROVE WatchSafety
  OBVIOUS
<1>1. NoFalseKill
  BY DEF NoFalseKill, WatchInv, Blameless
<1>2. NothingHidden
  BY DEF NothingHidden, WatchInv, KeptIsKnown, Known, Vouched
<1> QED
  BY <1>1, <1>2 DEF WatchSafety, WatchInv

\* Safety of the fleet watch, for any number of runs, transactions, deposits of the bound, accepts
\* and faults: the watcher never stops the bot for its own mints, and its baseline passes nobody
\* else's transaction unseen (fleet-watcher.ts tick, judgeWallet, syncAccepts).
THEOREM WatchSafe == WatchSpec => []WatchSafety
<1>1. WatchInit => WatchInv
  BY WatchStarts
<1>2. WatchInv /\ [WatchNext]_fleetVars => WatchInv'
  BY WatchKeeps
<1>3. WatchInv => WatchSafety
  BY WatchImplies
<1> QED
  BY <1>1, <1>2, <1>3, PTL DEF WatchSpec

-----------------------------------------------------------------------------
(* The canonical store                                                      *)


(* What a connection keeps is the beginning of what it sees, or it ends in a *)
(* row of a transaction that was rolled back and is nowhere any more.        *)
Starts(s, t) == Len(s) <= Len(t) /\ \A i \in 1 .. Len(s) : s[i] = t[i]
Gone(id) ==
  /\ id[1] <= begun /\ (lock # Free => id[1] < begun)
  /\ \A i \in 1 .. Len(rows) : rows[i].id # id
CacheOk(p) == LET c == cache[p] IN
  /\ c.rowid = Len(c.seen) /\ (c.rowid > 0 => c.id = c.seen[c.rowid].id)
  /\ Starts(c.seen, Visible(p)) \/ (c.rowid > 0 /\ Gone(c.id))

(* Row ids name the transaction that wrote them.                             *)
IdsOk ==
  /\ \A i \in 1 .. Len(rows) : rows[i].id[1] <= begun /\ (lock # Free => rows[i].id[1] < begun)
  /\ \A i \in 1 .. Len(txn.added) : txn.added[i].id[1] = begun

(* The tables at rest, and the rows that tell of them.                       *)
Closed(s) == s.intents = s.runs /\ s.attempts \subseteq s.intents /\ s.receipts \subseteq s.attempts /\ s.recs \subseteq s.attempts
Told == \A r \in store.runs : \E i \in 1 .. Len(rows) : rows[i].kind = "event" /\ rows[i].run = r
Accounted ==
  /\ \A i \in 1 .. Len(rows) : rows[i].kind = "accounting" => rows[i].run \in store.receipts
  /\ \A i, j \in 1 .. Len(rows) :
       rows[i].kind = "accounting" /\ rows[j].kind = "accounting" /\ rows[i].run = rows[j].run => i = j
  /\ \A r \in store.receipts : \E i \in 1 .. Len(rows) : rows[i].kind = "accounting" /\ rows[i].run = r

(* A transaction that is open: what it has written so far, table by table.   *)
WroteOk ==
  LET w == txn.written  c == txn.copy  n == txn.next  k == txn.at  IN
  /\ w.runs = IF k > 1 THEN n.runs ELSE c.runs
  /\ w.intents = IF k > 2 THEN n.intents ELSE c.intents
  /\ w.attempts = IF k > 3 THEN n.attempts ELSE c.attempts
  /\ w.receipts = IF k > 4 THEN n.receipts ELSE c.receipts
  /\ c.recs \subseteq w.recs /\ w.recs \subseteq w.attempts
  /\ w.attempts \subseteq w.intents /\ w.receipts \subseteq w.attempts
AddedOk ==
  IF txn.at = 0 THEN txn.added = <<>>
  ELSE IF Accounts
       THEN Len(txn.added) = 1 /\ txn.added[1].kind = "accounting" /\ txn.added[1].run = txn.run
  ELSE IF txn.at > 6 /\ Tells
       THEN Len(txn.added) = 1 /\ txn.added[1].kind = "event" /\ txn.added[1].run = txn.run
  ELSE txn.added = <<>>
TxnOk == lock # Free =>
  /\ lock \in opened /\ txn.work \in Works /\ txn.run \in StoreRuns
  /\ txn.copy = store
  /\ txn.next = IF txn.at = 0 THEN store ELSE Wanted(txn.work, txn.run, store)
  /\ WroteOk /\ AddedOk

GoodView(v) ==
  /\ v.state.runs \subseteq store.runs
  /\ v.at >= 2 => v.state.intents = v.state.runs
  /\ v.state.attempts \cup v.state.receipts \subseteq v.state.runs
  /\ v.at >= 6 => \A r \in v.state.runs : \E i \in 1 .. Len(v.events) : v.events[i].run = r /\ v.events[i].kind = "event"
ViewOk == \A p \in Connections : GoodView(view[p])

StoreInv ==
  /\ StoreTypeOK /\ IdsOk /\ (\A p \in Connections : CacheOk(p))
  /\ Closed(store) /\ Told /\ Accounted /\ TxnOk /\ ViewOk

-----------------------------------------------------------------------------
CacheRecord == [seen : Seq(Row), rowid : Nat, id : Nat \X Nat]
Fresh(s) == [seen |-> s, rowid |-> Len(s), id |-> IF Len(s) > 0 THEN s[Len(s)].id ELSE NoCache.id]

(* Rows that are added to the ones read before give all rows.                *)
LEMMA RestIs ==
  ASSUME NEW s \in Seq(Row), NEW t \in Seq(Row), Starts(s, t)
  PROVE  s \o SubSeq(t, Len(s) + 1, Len(t)) = t
<1> DEFINE rest == SubSeq(t, Len(s) + 1, Len(t))
<1>1. Len(s) \in Nat /\ Len(t) \in Nat /\ Len(s) <= Len(t)
  BY DEF Starts
<1>2. rest \in Seq(Row) /\ Len(rest) = Len(t) - Len(s)
      /\ \A i \in 1 .. Len(t) - Len(s) : rest[i] = t[Len(s) + i]
  <2>1. \A i \in Len(s) + 1 .. Len(t) : t[i] \in Row
    BY <1>1
  <2>2. /\ rest \in Seq(Row)
        /\ Len(rest) = IF Len(s) + 1 <= Len(t) THEN Len(t) - (Len(s) + 1) + 1 ELSE 0
        /\ \A i \in 1 .. Len(t) - (Len(s) + 1) + 1 : rest[i] = t[Len(s) + 1 + i - 1]
    BY <1>1, <2>1, SubSeqProperties
  <2> QED
    BY <1>1, <2>2
<1> HIDE DEF rest
<1>3. s \o rest \in Seq(Row) /\ Len(s \o rest) = Len(t)
  BY <1>1, <1>2, ConcatProperties
<1>4. \A i \in 1 .. Len(t) : (s \o rest)[i] = t[i]
  <2> SUFFICES ASSUME NEW i \in 1 .. Len(t) PROVE (s \o rest)[i] = t[i]
    OBVIOUS
  <2>1. (s \o rest)[i] = IF i <= Len(s) THEN s[i] ELSE rest[i - Len(s)]
    BY <1>1, <1>2, ConcatProperties
  <2>2. CASE i <= Len(s)
    BY <1>1, <2>1, <2>2 DEF Starts
  <2>3. CASE i > Len(s)
    <3> DEFINE k == i - Len(s)
    <3>1. k \in 1 .. Len(t) - Len(s) /\ Len(s) + k = i
      BY <1>1, <2>3
    <3>2. rest[k] = t[Len(s) + k]
      BY <1>2, <3>1
    <3>3. (s \o rest)[i] = rest[k]
      BY <1>1, <2>1, <2>3
    <3> QED
      BY <3>1, <3>2, <3>3
  <2>4. i <= Len(s) \/ i > Len(s)
    BY <1>1
  <2> QED
    BY <2>2, <2>3, <2>4
<1>5. s \o rest = t
  BY <1>3, <1>4, SeqEqual
<1> QED
  BY <1>5 DEF rest

(* What a read of the events leaves in the cache, from a cache that begins   *)
(* the visible rows or ends in a row that is not there (readEvents).         *)
LEMMA RefreshedIs ==
  ASSUME NEW c \in CacheRecord, NEW t \in Seq(Row),
         c.rowid = Len(c.seen), c.rowid > 0 => c.id = c.seen[c.rowid].id,
         Starts(c.seen, t) \/ (c.rowid > 0 /\ \A i \in 1 .. Len(t) : t[i].id # c.id)
  PROVE  Refreshed(c, t) = Fresh(t)
<1>0. c.seen \in Seq(Row) /\ c.rowid \in Nat
  BY DEF CacheRecord
<1>1. CASE Starts(c.seen, t)
  <2>1. Trusted(c, t) = c
    BY <1>0, <1>1 DEF Trusted, Starts
  <2> QED
    BY <1>0, <1>1, <2>1, RestIs DEF Refreshed, Fresh
<1>2. CASE ~Starts(c.seen, t)
  <2>1. Trusted(c, t) = NoCache
    BY <1>0, <1>2 DEF Trusted
  <2>2. NoCache.seen = <<>> /\ NoCache.rowid = 0
    BY DEF NoCache
  <2>3. <<>> \in Seq(Row) /\ Len(<<>>) = 0 /\ Starts(<<>>, t)
    BY DEF Starts
  <2>4. <<>> \o SubSeq(t, 0 + 1, Len(t)) = t
    BY <2>3, RestIs
  <2> QED
    BY <2>1, <2>2, <2>4 DEF Refreshed, Fresh
<1> QED
  BY <1>1, <1>2

LEMMA FreshType == ASSUME NEW t \in Seq(Row) PROVE Fresh(t) \in CacheRecord
<1>1. Len(t) \in Nat /\ (Len(t) > 0 => t[Len(t)] \in Row)
  OBVIOUS
<1>2. NoCache.id \in Nat \X Nat
  BY DEF NoCache
<1>3. (IF Len(t) > 0 THEN t[Len(t)].id ELSE NoCache.id) \in Nat \X Nat
  BY <1>1, <1>2 DEF Row
<1> QED
  BY <1>1, <1>3 DEF Fresh, CacheRecord

LEMMA VisibleType == StoreTypeOK => \A p \in Connections : Visible(p) \in Seq(Row)
<1> SUFFICES ASSUME StoreTypeOK, NEW p \in Connections PROVE Visible(p) \in Seq(Row)
  OBVIOUS
<1>1. rows \in Seq(Row) /\ txn.added \in Seq(Row)
  BY DEF StoreTypeOK
<1>2. rows \o txn.added \in Seq(Row)
  BY <1>1, ConcatProperties
<1> QED
  BY <1>1, <1>2 DEF Visible

(* The rows of the open transaction come after the committed ones.           *)
LEMMA VisibleIs ==
  ASSUME StoreTypeOK
  PROVE  LET all == rows \o txn.added IN
         /\ Len(rows) \in Nat /\ Len(txn.added) \in Nat
         /\ all \in Seq(Row) /\ Len(all) = Len(rows) + Len(txn.added)
         /\ \A i \in 1 .. Len(rows) : all[i] = rows[i]
         /\ \A i \in Len(rows) + 1 .. Len(rows) + Len(txn.added) : all[i] = txn.added[i - Len(rows)]
<1>1. rows \in Seq(Row) /\ txn.added \in Seq(Row)
  BY DEF StoreTypeOK
<1> QED
  BY <1>1, ConcatProperties

(* Every read of the events, by anyone at any time, shows the stored rows.   *)
LEMMA AllRefreshed ==
  ASSUME StoreTypeOK, IdsOk, NEW p \in Connections, CacheOk(p)
  PROVE  Refreshed(cache[p], Visible(p)) = Fresh(Visible(p))
<1> DEFINE c == cache[p]
<1>1. c \in CacheRecord /\ Visible(p) \in Seq(Row) /\ begun \in Nat /\ p # Free
  BY VisibleType, ConnectionsAssumption DEF StoreTypeOK, CacheRecord
<1>2. c.rowid = Len(c.seen) /\ (c.rowid > 0 => c.id = c.seen[c.rowid].id)
  BY DEF CacheOk
<1>3. Starts(c.seen, Visible(p)) \/ (c.rowid > 0 /\ \A i \in 1 .. Len(Visible(p)) : Visible(p)[i].id # c.id)
  <2> SUFFICES ASSUME c.rowid > 0, Gone(c.id), NEW i \in 1 .. Len(Visible(p)) PROVE Visible(p)[i].id # c.id
    BY DEF CacheOk
  <2>1. CASE lock # p
    BY <2>1 DEF Gone, Visible
  <2>2. CASE lock = p
    <3>1. c.id[1] < begun /\ c.id[1] \in Nat
      BY <1>1, <2>2 DEF Gone, CacheRecord
    <3>2. Visible(p) = rows \o txn.added
      BY <2>2 DEF Visible
    <3>3. CASE i <= Len(rows)
      BY <3>2, <3>3, VisibleIs DEF Gone
    <3>4. CASE i > Len(rows)
      <4>1. i - Len(rows) \in 1 .. Len(txn.added) /\ Visible(p)[i] = txn.added[i - Len(rows)]
        BY <3>2, <3>4, VisibleIs
      <4>2. Visible(p)[i].id[1] = begun
        BY <4>1 DEF IdsOk
      <4> QED
        BY <1>1, <3>1, <4>2
    <3> QED
      BY <3>3, <3>4, VisibleIs, <3>2
  <2> QED
    BY <2>1, <2>2
<1> QED
  BY <1>1, <1>2, <1>3, RefreshedIs

-----------------------------------------------------------------------------
(* The caches under every kind of step.                                      *)
LEMMA SequencesTyped ==
  ASSUME StoreTypeOK, NEW q \in Connections
  PROVE  /\ cache[q].seen \in Seq(Row) /\ cache[q].rowid \in Nat /\ cache[q].id \in Nat \X Nat
         /\ begun \in Nat /\ rows \in Seq(Row) /\ txn.added \in Seq(Row)
<1>1. cache[q] \in [seen : Seq(Row), rowid : Nat, id : Nat \X Nat]
  BY DEF StoreTypeOK
<1>2. begun \in Nat
  BY TransactionsAssumption DEF StoreTypeOK
<1> QED
  BY <1>1, <1>2 DEF StoreTypeOK

LEMMA StartsAgain ==
  ASSUME NEW s \in Seq(Row), NEW t \in Seq(Row), NEW u \in Seq(Row), Starts(s, t), Starts(t, u)
  PROVE  Starts(s, u)
<1>1. Len(s) \in Nat /\ Len(t) \in Nat /\ Len(u) \in Nat
  OBVIOUS
<1> QED
  BY <1>1 DEF Starts

LEMMA StartsSelf == ASSUME NEW s \in Seq(Row) PROVE Starts(s, s)
  BY DEF Starts

(* Nobody commits or gives up: a cache stays right, a fresh one is right.    *)
LEMMA CacheStays ==
  ASSUME StoreTypeOK, NEW q \in Connections, CacheOk(q), cache'[q] = cache[q],
         rows' = rows, begun' = begun, lock' = lock,
         Visible(q)' \in Seq(Row), Starts(Visible(q), Visible(q)')
  PROVE  CacheOk(q)'
<1>1. cache[q].seen \in Seq(Row) /\ Visible(q) \in Seq(Row)
  BY VisibleType DEF StoreTypeOK
<1>2. Starts(cache[q].seen, Visible(q)) => Starts(cache[q].seen, Visible(q)')
  BY <1>1, StartsAgain
<1>3. Gone(cache[q].id) => Gone(cache[q].id)'
  BY DEF Gone
<1> QED
  BY <1>2, <1>3 DEF CacheOk

LEMMA CacheFresh ==
  ASSUME StoreTypeOK, NEW q \in Connections, NEW t \in Seq(Row), cache'[q] = Fresh(t),
         Starts(t, Visible(q)')
  PROVE  CacheOk(q)'
<1>1. Fresh(t).seen = t /\ Fresh(t).rowid = Len(t) /\ (Len(t) > 0 => Fresh(t).id = t[Len(t)].id)
  BY DEF Fresh
<1> QED
  BY <1>1 DEF CacheOk

LEMMA CacheEmpty ==
  ASSUME NEW q \in Connections, cache'[q] = NoCache
  PROVE  CacheOk(q)'
<1>1. NoCache.seen = <<>> /\ NoCache.rowid = 0
  BY DEF NoCache
<1>2. Visible(q)' = Visible(q)'
  OBVIOUS
<1>3. Len(<<>>) = 0
  OBVIOUS
<1> QED
  BY <1>1, <1>3 DEF CacheOk, Starts

(* The lock is given up and the rows written under it are gone.              *)
LEMMA CacheAfterRollback ==
  ASSUME StoreTypeOK, IdsOk, NEW q \in Connections, CacheOk(q), cache'[q] = cache[q],
         rows' = rows, begun' = begun, lock # Free, lock' = Free
  PROVE  CacheOk(q)'
<1> DEFINE c == cache[q]
<1>1. c.seen \in Seq(Row) /\ c.rowid \in Nat /\ c.id \in Nat \X Nat /\ begun \in Nat /\ rows \in Seq(Row) /\ txn.added \in Seq(Row)
  BY SequencesTyped
<1>2. Visible(q)' = rows
  BY ConnectionsAssumption DEF Visible
<1>3. CASE c.rowid > 0 /\ Gone(c.id)
  BY <1>3, <1>1 DEF Gone, CacheOk
<1>4. CASE Starts(c.seen, Visible(q)) /\ (lock # q \/ Len(c.seen) <= Len(rows))
  <2>1. Starts(c.seen, rows)
    <3>1. CASE lock # q
      BY <1>4, <3>1 DEF Visible
    <3>2. CASE lock = q
      <4>1. Visible(q) = rows \o txn.added
        BY <3>2 DEF Visible
      <4>2. \A i \in 1 .. Len(rows) : Visible(q)[i] = rows[i]
        BY <4>1, VisibleIs
      <4> QED
        BY <1>1, <1>4, <3>2, <4>2 DEF Starts
    <3> QED
      BY <3>1, <3>2
  <2> QED
    BY <1>2, <2>1 DEF CacheOk
<1>5. CASE Starts(c.seen, Visible(q)) /\ lock = q /\ Len(c.seen) > Len(rows)
  <2>1. Visible(q) = rows \o txn.added
    BY <1>5 DEF Visible
  <2>2. c.rowid = Len(c.seen) /\ c.rowid > 0 /\ c.id = c.seen[c.rowid].id
    BY <1>1, <1>5 DEF CacheOk
  <2>a. Len(Visible(q)) = Len(rows) + Len(txn.added)
    BY <2>1, VisibleIs
  <2>b. Len(c.seen) <= Len(Visible(q)) /\ \A i \in 1 .. Len(c.seen) : c.seen[i] = Visible(q)[i]
    BY <1>5 DEF Starts
  <2>3. c.rowid \in Len(rows) + 1 .. Len(rows) + Len(txn.added) /\ c.seen[c.rowid] = Visible(q)[c.rowid]
    BY <1>1, <1>5, <2>a, <2>b, <2>2
  <2>4. c.seen[c.rowid] = txn.added[c.rowid - Len(rows)]
    <3>1. \A i \in Len(rows) + 1 .. Len(rows) + Len(txn.added) : (rows \o txn.added)[i] = txn.added[i - Len(rows)]
      BY VisibleIs
    <3>2. (rows \o txn.added)[c.rowid] = txn.added[c.rowid - Len(rows)]
      BY <2>3, <3>1
    <3> QED BY <2>1, <2>3, <3>2
  <2>5. c.rowid - Len(rows) \in 1 .. Len(txn.added)
    <3>1. Len(rows) \in Nat /\ Len(txn.added) \in Nat
      BY VisibleIs
    <3> HIDE DEF c
    <3> QED BY <1>1, <2>3, <3>1
  <2>6. c.id[1] = begun
    BY <2>2, <2>4, <2>5 DEF IdsOk
  <2>7. \A i \in 1 .. Len(rows) : rows[i].id # c.id
    <3> SUFFICES ASSUME NEW i \in 1 .. Len(rows) PROVE rows[i].id # c.id
      OBVIOUS
    <3>1. rows[i].id[1] < begun
      BY DEF IdsOk
    <3> QED
      BY <1>1, <2>6, <3>1
  <2>8. Gone(c.id)'
    BY <1>1, <2>6, <2>7 DEF Gone
  <2> QED
    BY <2>2, <2>8 DEF CacheOk
<1> QED
  BY <1>1, <1>3, <1>4, <1>5 DEF CacheOk

(* The rows of the transaction are stored.                                   *)
LEMMA CacheAfterCommit ==
  ASSUME StoreTypeOK, IdsOk, NEW q \in Connections, CacheOk(q), cache'[q] = cache[q],
         rows' = rows \o txn.added, begun' = begun, lock # Free, lock' = Free
  PROVE  CacheOk(q)'
<1> DEFINE c == cache[q]
<1>1. c.seen \in Seq(Row) /\ c.rowid \in Nat /\ c.id \in Nat \X Nat /\ begun \in Nat /\ rows \in Seq(Row) /\ txn.added \in Seq(Row)
  BY SequencesTyped
<1>2. Visible(q)' = rows \o txn.added /\ rows \o txn.added \in Seq(Row)
  BY ConnectionsAssumption, VisibleIs DEF Visible
<1>3. Starts(Visible(q), rows \o txn.added)
  <2>1. Starts(rows, rows \o txn.added)
    BY <1>1, VisibleIs DEF Starts
  <2> QED
    BY <1>2, <2>1, StartsSelf DEF Visible
<1>4. CASE c.rowid > 0 /\ Gone(c.id)
  <2>1. c.id[1] < begun /\ c.id[1] \in Nat
    BY <1>1, <1>4 DEF Gone
  <2>2. ASSUME NEW i \in 1 .. Len(rows') PROVE rows'[i].id # c.id
    <3>1. CASE i <= Len(rows)
      BY <1>4, <3>1, VisibleIs DEF Gone
    <3>2. CASE i > Len(rows)
      <4>1. i - Len(rows) \in 1 .. Len(txn.added) /\ rows'[i] = txn.added[i - Len(rows)]
        BY <3>2, VisibleIs
      <4>2. rows'[i].id[1] = begun
        BY <4>1 DEF IdsOk
      <4>3. rows'[i].id[1] # c.id[1]
        BY <1>1, <2>1, <4>2
      <4> QED
        BY <4>3
    <3> QED
      BY <3>1, <3>2, VisibleIs
  <2>3. Gone(c.id)'
    BY <1>1, <1>4, <2>2 DEF Gone
  <2> QED
    BY <1>4, <2>3 DEF CacheOk
<1>5. CASE Starts(c.seen, Visible(q))
  <2>1. Visible(q) \in Seq(Row)
    BY VisibleType
  <2>2. Starts(c.seen, rows \o txn.added)
    BY <1>1, <1>2, <1>3, <1>5, <2>1, StartsAgain
  <2> QED
    BY <1>2, <2>2 DEF CacheOk
<1> QED
  BY <1>4, <1>5 DEF CacheOk

-----------------------------------------------------------------------------
(* One lemma per action: it keeps the invariant.                             *)
LEMMA Quiet ==
  ASSUME StoreInv, rows' = rows, store' = store
  PROVE  /\ Closed(store') /\ Told' /\ Accounted'
         /\ view' = view => ViewOk'
  BY DEF StoreInv, Closed, Told, Accounted, ViewOk, GoodView

(* A new read of the events, by p.                                           *)
LEMMA RefreshGives ==
  ASSUME StoreInv, NEW p \in Connections, Refresh(p)
  PROVE  /\ cache' \in [Connections -> CacheRecord]
         /\ cache'[p] = Fresh(Visible(p)) /\ Visible(p) \in Seq(Row)
         /\ \A q \in Connections \ {p} : cache'[q] = cache[q]
<1>1. cache \in [Connections -> CacheRecord]
  BY DEF StoreInv, StoreTypeOK, CacheRecord
<1>2. Refreshed(cache[p], Visible(p)) = Fresh(Visible(p))
  BY AllRefreshed DEF StoreInv
<1>3. Visible(p) \in Seq(Row)
  BY VisibleType DEF StoreInv
<1>4. Fresh(Visible(p)) \in CacheRecord
  BY <1>3, FreshType
<1>5. cache' = [cache EXCEPT ![p] = Fresh(Visible(p))]
  BY <1>2 DEF Refresh
<1> QED
  BY <1>1, <1>3, <1>4, <1>5

LEMMA RowIds == ASSUME NEW t \in Seq(Row) PROVE \A i \in 1 .. Len(t) : t[i].id[1] \in Nat
<1> SUFFICES ASSUME NEW i \in 1 .. Len(t) PROVE t[i].id[1] \in Nat
  OBVIOUS
<1>1. t[i] \in Row
  OBVIOUS
<1>2. t[i].id \in Nat \X Nat
  BY <1>1 DEF Row
<1> QED
  BY <1>2

LEMMA BeginKeeps ==
  ASSUME StoreInv, NEW p \in Connections, NEW work \in Works, NEW r \in StoreRuns, Begin(p, work, r)
  PROVE  StoreInv'
<1>0. StoreTypeOK /\ IdsOk /\ Closed(store) /\ lock = Free /\ p # Free /\ p \in opened
  BY ConnectionsAssumption DEF StoreInv, Begin, AtRest
<1>1. /\ txn'.work = work /\ txn'.run = r /\ txn'.at = 0 /\ txn'.copy = store /\ txn'.next = store
      /\ txn'.written = store /\ txn'.added = <<>>
      /\ txn' = [work |-> work, run |-> r, at |-> 0, copy |-> store, next |-> store, written |-> store, added |-> <<>>]
  BY DEF Begin, NoTxn
<1>2. begun \in Nat /\ begun' = begun + 1 /\ begun' \in 0 .. Transactions /\ lock' = p
  BY <1>0, TransactionsAssumption DEF StoreTypeOK, Begin
<1>3. rows' = rows /\ store' = store /\ opened' = opened /\ view' = view /\ Refresh(p)
  BY DEF Begin
<1>4. StoreTypeOK'
  <2>1. cache' \in [Connections -> CacheRecord]
    BY <1>3, RefreshGives
  <2>2. txn' \in [work : Works \cup {"none"}, run : StoreRuns \cup {Free}, at : 0 .. LastTable + 1,
                  copy : State, next : State, written : State, added : Seq(Row)]
    BY <1>0, <1>1 DEF StoreTypeOK, LastTable
  <2> QED
    BY <1>0, <1>2, <1>3, <2>1, <2>2 DEF StoreTypeOK, CacheRecord
<1>5. IdsOk'
  <2>1. \A i \in 1 .. Len(rows) : rows[i].id[1] \in Nat
    BY <1>0, RowIds DEF StoreTypeOK
  <2> QED
    BY <1>0, <1>1, <1>2, <1>3, <2>1 DEF IdsOk
<1>6. ASSUME NEW q \in Connections PROVE CacheOk(q)'
  <2>1. Visible(q)' = rows /\ Visible(q) = rows /\ rows \in Seq(Row)
    <3>1. rows \in Seq(Row) /\ rows \o <<>> = rows
      BY <1>0, ConcatEmptySeq DEF StoreTypeOK
    <3> QED
      BY <1>0, <1>1, <1>2, <1>3, <3>1, ConnectionsAssumption DEF Visible
  <2>2. CASE q = p
    BY <1>0, <1>3, <2>1, <2>2, RefreshGives, StartsSelf, CacheFresh
  <2>3. CASE q # p
    <3>1. cache'[q] = cache[q] /\ CacheOk(q)
      BY <1>3, <2>3, RefreshGives DEF StoreInv
    <3>2. cache[q].id[1] \in Nat
      BY <1>0, SequencesTyped
    <3>3. Gone(cache[q].id) => Gone(cache[q].id)'
      BY <1>0, <1>2, <1>3, <3>1, <3>2 DEF Gone
    <3> QED
      BY <2>1, <3>1, <3>3 DEF CacheOk
  <2> QED
    BY <2>2, <2>3
<1>7. TxnOk'
  BY <1>0, <1>1, <1>2, <1>3 DEF TxnOk, WroteOk, AddedOk, Closed
<1> QED
  BY <1>3, <1>4, <1>5, <1>6, <1>7, Quiet DEF StoreInv

LEMMA OpenKeeps ==
  ASSUME StoreInv, NEW p \in Connections, OpenStore(p)
  PROVE  StoreInv'
<1>1. /\ rows' = rows /\ store' = store /\ lock' = lock /\ txn' = txn /\ cache' = cache
      /\ view' = view /\ begun' = begun /\ opened' = opened \cup {p}
  BY DEF OpenStore
<1>2. StoreTypeOK' /\ IdsOk'
  BY <1>1 DEF StoreInv, StoreTypeOK, IdsOk
<1>3. \A q \in Connections : CacheOk(q)'
  BY <1>1 DEF StoreInv, CacheOk, Gone, Visible
<1>4. TxnOk'
  BY <1>1 DEF StoreInv, TxnOk, WroteOk, AddedOk, Accounts, Tells
<1> QED
  BY <1>1, <1>2, <1>3, <1>4, Quiet DEF StoreInv

LEMMA ReadInsideKeeps ==
  ASSUME StoreInv, NEW p \in Connections, ReadInside(p)
  PROVE  StoreInv'
<1>1. /\ rows' = rows /\ store' = store /\ lock' = lock /\ txn' = txn
      /\ view' = view /\ begun' = begun /\ opened' = opened /\ Refresh(p)
  BY DEF ReadInside
<1>2. StoreTypeOK' /\ IdsOk'
  BY <1>1, RefreshGives DEF StoreInv, StoreTypeOK, IdsOk, CacheRecord
<1>3. ASSUME NEW q \in Connections PROVE CacheOk(q)'
  <2>1. Visible(q)' = Visible(q) /\ Visible(q) \in Seq(Row) /\ StoreTypeOK /\ CacheOk(q)
    BY <1>1, VisibleType DEF Visible, StoreInv
  <2>2. CASE q = p
    BY <1>1, <2>1, <2>2, RefreshGives, StartsSelf, CacheFresh
  <2>3. CASE q # p
    BY <1>1, <2>1, <2>3, RefreshGives, StartsSelf, CacheStays
  <2> QED
    BY <2>2, <2>3
<1>4. TxnOk'
  BY <1>1 DEF StoreInv, TxnOk, WroteOk, AddedOk, Accounts, Tells
<1> QED
  BY <1>1, <1>2, <1>3, <1>4, Quiet DEF StoreInv

LEMMA WantedIs ==
  ASSUME NEW s \in State, NEW work \in Works, NEW r \in StoreRuns
  PROVE  LET n == Wanted(work, r, s) IN
         /\ n \in State
         /\ n.runs = IF work = "prepare" THEN s.runs \cup {r} ELSE s.runs
         /\ n.intents = IF work = "prepare" THEN s.intents \cup {r} ELSE s.intents
         /\ n.attempts = IF work = "attempt" THEN s.attempts \cup {r} ELSE s.attempts
         /\ n.receipts = IF work = "receipt" THEN s.receipts \cup {r} ELSE s.receipts
         /\ n.recs = IF work = "reconcile" THEN s.recs \cup {r} ELSE s.recs
<1>1. CASE work = "prepare"
  BY <1>1 DEF Wanted, State
<1>2. CASE work = "attempt"
  BY <1>2 DEF Wanted, State
<1>3. CASE work = "receipt"
  BY <1>3 DEF Wanted, State
<1>4. CASE work = "reconcile"
  BY <1>4 DEF Wanted, State
<1>5. CASE work = "kill"
  BY <1>5 DEF Wanted, State
<1> QED
  BY <1>1, <1>2, <1>3, <1>4, <1>5 DEF Works

TxnRecord == [work : Works \cup {"none"}, run : StoreRuns \cup {Free}, at : 0 .. LastTable + 1,
              copy : State, next : State, written : State, added : Seq(Row)]

(* What the open transaction is, from the invariant.                         *)
LEMMA OpenTxn ==
  ASSUME StoreInv, NEW p \in Connections, lock = p
  PROVE  /\ p # Free /\ p \in opened /\ txn \in TxnRecord /\ txn.work \in Works /\ txn.run \in StoreRuns
         /\ txn.copy = store /\ store \in State /\ Closed(store) /\ WroteOk /\ AddedOk
         /\ txn.next = IF txn.at = 0 THEN store ELSE Wanted(txn.work, txn.run, store)
         /\ txn.added \in Seq(Row) /\ begun \in Nat /\ rows \in Seq(Row)
<1>1. txn \in TxnRecord /\ store \in State /\ rows \in Seq(Row) /\ begun \in Nat
  BY TransactionsAssumption DEF StoreInv, StoreTypeOK, TxnRecord
<1>2. p # Free
  BY ConnectionsAssumption
<1> QED
  BY <1>1, <1>2 DEF StoreInv, TxnOk, TxnRecord

LEMMA NewRowType ==
  ASSUME StoreInv, NEW p \in Connections, lock = p, NEW kind \in {"event", "accounting"}
  PROVE  /\ NewRow(kind) \in Row /\ NewRow(kind).id[1] = begun
         /\ NewRow(kind).kind = kind /\ NewRow(kind).run = txn.run
<1>1. Len(txn.added) + 1 \in Nat /\ begun \in Nat /\ txn.run \in StoreRuns
  BY OpenTxn
<1> QED
  BY <1>1 DEF NewRow, Row

LEMMA MoreRows ==
  ASSUME NEW s \in Seq(Row), NEW t \in Seq(Row), NEW u \in Seq(Row), Starts(t, u)
  PROVE  s \o u \in Seq(Row) /\ Starts(s \o t, s \o u)
<1>1. Len(s) \in Nat /\ Len(t) \in Nat /\ Len(u) \in Nat /\ Len(t) <= Len(u)
  BY DEF Starts
<1>2. s \o u \in Seq(Row) /\ Len(s \o t) = Len(s) + Len(t) /\ Len(s \o u) = Len(s) + Len(u)
  BY ConcatProperties
<1>3. ASSUME NEW i \in 1 .. Len(s) + Len(t) PROVE (s \o t)[i] = (s \o u)[i]
  <2>1. (s \o t)[i] = IF i <= Len(s) THEN s[i] ELSE t[i - Len(s)]
    BY ConcatProperties
  <2>2. (s \o u)[i] = IF i <= Len(s) THEN s[i] ELSE u[i - Len(s)]
    <3>1. i \in 1 .. Len(s) + Len(u)
      BY <1>1
    <3> QED
      BY <3>1, ConcatProperties
  <2>3. CASE i <= Len(s)
    BY <2>1, <2>2, <2>3
  <2>4. CASE ~(i <= Len(s))
    <3>1. i - Len(s) \in 1 .. Len(t)
      BY <1>1, <2>4
    <3>2. t[i - Len(s)] = u[i - Len(s)]
      BY <3>1 DEF Starts
    <3> QED
      BY <2>1, <2>2, <2>4, <3>2
  <2> QED
    BY <2>3, <2>4
<1> QED
  BY <1>1, <1>2, <1>3 DEF Starts

(* The transaction goes on, perhaps with one more row: what everyone sees    *)
(* of the committed rows is as before.                                       *)
LEMMA AddedKeeps ==
  ASSUME StoreInv, NEW p \in Connections, lock = p, lock' = lock, rows' = rows, begun' = begun, cache' = cache,
         NEW kind \in {"event", "accounting"},
         txn'.added = txn.added \/ txn'.added = Append(txn.added, NewRow(kind))
  PROVE  /\ txn'.added \in Seq(Row) /\ IdsOk' /\ \A q \in Connections : CacheOk(q)'
<1>0. txn.added \in Seq(Row) /\ rows \in Seq(Row) /\ StoreTypeOK /\ NewRow(kind) \in Row /\ begun \in Nat
  BY OpenTxn, NewRowType DEF StoreInv
<1>1. txn'.added \in Seq(Row) /\ Starts(txn.added, txn'.added)
  <2>1. CASE txn'.added = txn.added
    BY <1>0, <2>1, StartsSelf
  <2>2. CASE txn'.added = Append(txn.added, NewRow(kind))
    BY <1>0, <2>2 DEF Starts
  <2> QED
    BY <2>1, <2>2
<1>2. IdsOk'
  <2>1. \A i \in 1 .. Len(txn'.added) : txn'.added[i].id[1] = begun
    <3>1. \A i \in 1 .. Len(txn.added) : txn.added[i].id[1] = begun
      BY DEF StoreInv, IdsOk
    <3>2. CASE txn'.added = txn.added
      BY <3>1, <3>2
    <3>3. CASE txn'.added = Append(txn.added, NewRow(kind))
      <4>1. NewRow(kind).id[1] = begun
        BY NewRowType
      <4>2. /\ Len(txn'.added) = Len(txn.added) + 1 /\ Len(txn.added) \in Nat
            /\ \A i \in 1 .. Len(txn.added) : txn'.added[i] = txn.added[i]
            /\ txn'.added[Len(txn.added) + 1] = NewRow(kind)
        BY <1>0, <3>3
      <4> QED
        BY <3>1, <4>1, <4>2
    <3> QED
      BY <3>2, <3>3
  <2> QED
    BY <2>1 DEF StoreInv, IdsOk
<1>3. ASSUME NEW q \in Connections PROVE CacheOk(q)'
  <2>1. CASE q # p
    <3>1. Visible(q)' = rows /\ Visible(q) = rows
      BY <2>1 DEF Visible
    <3> QED
      BY <1>0, <3>1, StartsSelf, CacheStays DEF StoreInv
  <2>2. CASE q = p
    <3>1. Visible(q)' = rows \o txn'.added /\ Visible(q) = rows \o txn.added
      BY <2>2 DEF Visible
    <3>2. rows \o txn'.added \in Seq(Row) /\ Starts(rows \o txn.added, rows \o txn'.added)
      BY <1>0, <1>1, MoreRows
    <3> QED
      BY <1>0, <3>1, <3>2, CacheStays DEF StoreInv
  <2> QED
    BY <2>1, <2>2
<1> QED
  BY <1>1, <1>2, <1>3

LEMMA MutateKeeps ==
  ASSUME StoreInv, NEW p \in Connections, Mutate(p)
  PROVE  StoreInv'
<1>1. /\ lock = p /\ txn.at = 0 /\ rows' = rows /\ store' = store /\ lock' = lock
      /\ view' = view /\ begun' = begun /\ opened' = opened /\ cache' = cache
  BY DEF Mutate
<1> DEFINE n == Wanted(txn.work, txn.run, txn.copy)
           a == IF Accounts THEN Append(txn.added, NewRow("accounting")) ELSE txn.added
<1>2. /\ txn' = [txn EXCEPT !.at = 1, !.next = n, !.added = a]
      /\ txn \in TxnRecord /\ n \in State
  <2>1. txn.copy = store /\ store \in State /\ txn.work \in Works /\ txn.run \in StoreRuns /\ txn \in TxnRecord
    BY <1>1, OpenTxn
  <2>2. n \in State
    BY <2>1, WantedIs
  <2> QED
    BY <2>1, <2>2 DEF Mutate
<1>3. /\ txn'.at = 1 /\ txn'.next = n /\ txn'.added = a /\ txn'.work = txn.work /\ txn'.run = txn.run
      /\ txn'.copy = txn.copy /\ txn'.written = txn.written
  BY <1>2 DEF TxnRecord
<1>4. a \in Seq(Row) /\ IdsOk' /\ \A q \in Connections : CacheOk(q)'
  BY <1>1, <1>3, AddedKeeps
<1>5. StoreTypeOK'
  <2>1. txn' \in TxnRecord
    <3>1. 1 \in 0 .. LastTable + 1
      BY DEF LastTable
    <3> HIDE DEF n, a
    <3> QED
      BY <1>2, <1>4, <3>1 DEF TxnRecord
  <2> QED
    BY <1>1, <2>1 DEF StoreInv, StoreTypeOK, TxnRecord
<1>6. WroteOk'
  BY <1>1, <1>3, OpenTxn DEF WroteOk
<1>7. AddedOk'
  <2>1. Accounts' = Accounts /\ txn.added = <<>>
    BY <1>1, <1>3, OpenTxn DEF Accounts, AddedOk
  <2>2. CASE Accounts
    BY <1>3, <2>1, <2>2, <1>1, NewRowType DEF AddedOk
  <2>3. CASE ~Accounts
    BY <1>3, <2>1, <2>3 DEF AddedOk
  <2> QED
    BY <2>2, <2>3
<1>8. TxnOk'
  BY <1>1, <1>3, <1>6, <1>7, OpenTxn DEF TxnOk
<1> QED
  BY <1>1, <1>4, <1>5, <1>8, Quiet DEF StoreInv

LEMMA PersistEventsKeeps ==
  ASSUME StoreInv, NEW p \in Connections, PersistEvents(p)
  PROVE  StoreInv'
<1>1. /\ lock = p /\ txn.at \in 1 .. LastTable /\ Tables[txn.at] = "events" /\ rows' = rows /\ store' = store
      /\ lock' = lock /\ view' = view /\ begun' = begun /\ opened' = opened /\ cache' = cache
  BY DEF PersistEvents
<1> DEFINE a == IF Tells THEN Append(txn.added, NewRow("event")) ELSE txn.added
<1>2. txn' = [txn EXCEPT !.at = txn.at + 1, !.added = a] /\ txn \in TxnRecord
  BY <1>1, OpenTxn DEF PersistEvents
<1>3. txn.at = 6
  BY <1>1 DEF Tables, LastTable
<1>4. /\ txn'.at = 7 /\ txn'.next = txn.next /\ txn'.added = a /\ txn'.work = txn.work /\ txn'.run = txn.run
      /\ txn'.copy = txn.copy /\ txn'.written = txn.written
  BY <1>2, <1>3 DEF TxnRecord
<1>5. a \in Seq(Row) /\ IdsOk' /\ \A q \in Connections : CacheOk(q)'
  BY <1>1, <1>4, AddedKeeps
<1>6. StoreTypeOK'
  <2>1. txn' \in TxnRecord
    <3>1. txn.at + 1 \in 0 .. LastTable + 1
      BY <1>3 DEF LastTable
    <3> HIDE DEF a
    <3> QED
      BY <1>2, <1>5, <3>1 DEF TxnRecord
  <2> QED
    BY <1>1, <2>1 DEF StoreInv, StoreTypeOK, TxnRecord
<1>7. WroteOk'
  BY <1>1, <1>3, <1>4, OpenTxn DEF WroteOk
<1>8. AddedOk'
  <2>1. Accounts' = Accounts /\ Tells' = Tells /\ ~(Accounts /\ Tells)
    BY <1>4 DEF Accounts, Tells
  <2>2. CASE Accounts
    BY <1>3, <1>4, <1>1, <2>1, <2>2, OpenTxn DEF AddedOk
  <2>3. CASE ~Accounts
    <3>1. txn.added = <<>>
      BY <1>1, <1>3, <2>3, OpenTxn DEF AddedOk
    <3>2. NewRow("event").kind = "event" /\ NewRow("event").run = txn.run
      BY <1>1, NewRowType
    <3> QED
      BY <1>4, <2>1, <2>3, <3>1, <3>2 DEF AddedOk
  <2> QED
    BY <2>2, <2>3
<1>9. TxnOk'
  BY <1>1, <1>3, <1>4, <1>7, <1>8, OpenTxn DEF TxnOk
<1> QED
  BY <1>1, <1>5, <1>6, <1>9, Quiet DEF StoreInv

LEMMA PersistKillKeeps ==
  ASSUME StoreInv, NEW p \in Connections, PersistKill(p)
  PROVE  StoreInv'
<1>1. /\ lock = p /\ txn.at \in 1 .. LastTable /\ Tables[txn.at] = "killed" /\ rows' = rows /\ store' = store
      /\ lock' = lock /\ view' = view /\ begun' = begun /\ opened' = opened /\ cache' = cache
  BY DEF PersistKill
<1>2. txn \in TxnRecord /\ txn.at = 7
  BY <1>1, OpenTxn DEF Tables, LastTable
<1> DEFINE w == [txn.written EXCEPT !.killed = IF txn.next.killed THEN TRUE ELSE @]
<1>a. txn' = [txn EXCEPT !.at = 8, !.written = w]
  BY <1>2 DEF PersistKill
<1>b. 8 \in 0 .. LastTable + 1
  BY DEF LastTable
<1>c. w \in State
  <2>1. txn.written \in State /\ txn.written.killed \in BOOLEAN
    BY <1>2 DEF TxnRecord, State
  <2>2. CASE txn.next.killed
    <3>1. w = [txn.written EXCEPT !.killed = TRUE]
      BY <2>2
    <3> QED
      BY <2>1, <3>1 DEF State
  <2>3. CASE ~txn.next.killed
    <3>1. w = [txn.written EXCEPT !.killed = txn.written.killed]
      BY <2>3
    <3> QED
      BY <2>1, <3>1 DEF State
  <2> QED
    BY <2>2, <2>3
<1>3. /\ txn'.at = 8 /\ txn'.next = txn.next /\ txn'.added = txn.added /\ txn'.work = txn.work /\ txn'.run = txn.run
      /\ txn'.copy = txn.copy /\ txn' \in TxnRecord /\ txn'.written = w
  <2> HIDE DEF w
  <2> QED
    BY <1>2, <1>a, <1>b, <1>c DEF TxnRecord
<1>4. /\ txn'.written.runs = txn.written.runs /\ txn'.written.intents = txn.written.intents
      /\ txn'.written.attempts = txn.written.attempts /\ txn'.written.receipts = txn.written.receipts
      /\ txn'.written.recs = txn.written.recs
  BY <1>2, <1>3 DEF TxnRecord, State
<1>5. IdsOk' /\ \A q \in Connections : CacheOk(q)'
  BY <1>1, <1>3, AddedKeeps
<1>6. StoreTypeOK'
  BY <1>1, <1>3 DEF StoreInv, StoreTypeOK, TxnRecord
<1>7. WroteOk'
  BY <1>1, <1>2, <1>3, <1>4, OpenTxn DEF WroteOk
<1>8. AddedOk'
  <2>1. Accounts' = Accounts /\ Tells' = Tells
    BY <1>3 DEF Accounts, Tells
  <2> QED
    BY <1>1, <1>2, <1>3, <2>1, OpenTxn DEF AddedOk
<1>9. TxnOk'
  BY <1>1, <1>2, <1>3, <1>7, <1>8, OpenTxn DEF TxnOk
<1> QED
  BY <1>1, <1>5, <1>6, <1>9, Quiet DEF StoreInv

(* One table of a state is replaced.                                         *)
LEMMA StateExcept ==
  ASSUME NEW s \in State, NEW t \in RowTables, NEW X \in SUBSET StoreRuns
  PROVE  LET n == [s EXCEPT ![t] = X] IN
         /\ n \in State
         /\ n.runs = IF t = "runs" THEN X ELSE s.runs
         /\ n.intents = IF t = "intents" THEN X ELSE s.intents
         /\ n.attempts = IF t = "attempts" THEN X ELSE s.attempts
         /\ n.receipts = IF t = "receipts" THEN X ELSE s.receipts
         /\ n.recs = IF t = "recs" THEN X ELSE s.recs
<1>1. CASE t = "runs"
  BY <1>1 DEF State
<1>2. CASE t = "intents"
  BY <1>2 DEF State
<1>3. CASE t = "attempts"
  BY <1>3 DEF State
<1>4. CASE t = "receipts"
  BY <1>4 DEF State
<1>5. CASE t = "recs"
  BY <1>5 DEF State
<1> QED
  BY <1>1, <1>2, <1>3, <1>4, <1>5 DEF RowTables

(* Which table comes where.                                                  *)
LEMMA TableAt ==
  ASSUME NEW i \in 1 .. LastTable, NEW t \in RowTables, t = Tables[i]
  PROVE  \/ i = 1 /\ t = "runs"
         \/ i = 2 /\ t = "intents"
         \/ i = 3 /\ t = "attempts"
         \/ i = 4 /\ t = "receipts"
         \/ i = 5 /\ t = "recs"
<1>1. i \in {1, 2, 3, 4, 5, 6, 7}
  BY DEF LastTable
<1> QED
  BY <1>1 DEF Tables, RowTables

LEMMA PersistTableKeeps ==
  ASSUME StoreInv, NEW p \in Connections, PersistTable(p)
  PROVE  StoreInv'
<1>1. PICK t \in RowTables :
        /\ lock = p /\ txn.at \in 1 .. LastTable /\ t = Tables[txn.at] /\ Fits(t)
        /\ IF LooksUp(t) THEN Refresh(p) ELSE UNCHANGED cache
        /\ txn' = [txn EXCEPT !.at = txn.at + 1, !.written = [txn.written EXCEPT ![t] = ToWrite(t)]]
        /\ rows' = rows /\ store' = store /\ lock' = lock /\ opened' = opened /\ view' = view /\ begun' = begun
  BY DEF PersistTable
<1> DEFINE w == [txn.written EXCEPT ![t] = ToWrite(t)]
<1>2. txn \in TxnRecord /\ txn.written \in State /\ txn.next \in State
  BY <1>1, OpenTxn DEF TxnRecord
<1>3. ToWrite(t) \in SUBSET StoreRuns
  <2>1. /\ txn.next.runs \subseteq StoreRuns /\ txn.next.intents \subseteq StoreRuns
        /\ txn.next.attempts \subseteq StoreRuns /\ txn.next.receipts \subseteq StoreRuns
        /\ txn.written.recs \subseteq StoreRuns /\ txn.written.attempts \subseteq StoreRuns
    BY <1>2 DEF State
  <2> QED
    BY <2>1 DEF ToWrite, RowTables
<1>4. w \in State
  BY <1>2, <1>3, StateExcept
<1>5. txn.at + 1 \in 0 .. LastTable + 1 /\ txn.at \in Nat
  BY <1>1 DEF LastTable
<1>6. /\ txn'.at = txn.at + 1 /\ txn'.next = txn.next /\ txn'.added = txn.added /\ txn'.work = txn.work
      /\ txn'.run = txn.run /\ txn'.copy = txn.copy /\ txn'.written = w /\ txn' \in TxnRecord
  <2> HIDE DEF w
  <2>1. txn' = [txn EXCEPT !.at = txn.at + 1, !.written = w]
    BY <1>1 DEF w
  <2> QED
    BY <1>2, <1>4, <1>5, <2>1 DEF TxnRecord
<1>7. ASSUME NEW q \in Connections PROVE CacheOk(q)'
  <2>1. Visible(q)' = Visible(q) /\ Visible(q) \in Seq(Row) /\ StoreTypeOK /\ CacheOk(q)
    BY <1>1, <1>6, VisibleType DEF Visible, StoreInv
  <2>2. CASE cache' = cache
    BY <1>1, <2>1, <2>2, StartsSelf, CacheStays
  <2>3. CASE Refresh(p) /\ q = p
    BY <1>1, <2>1, <2>3, RefreshGives, StartsSelf, CacheFresh
  <2>4. CASE Refresh(p) /\ q # p
    BY <1>1, <2>1, <2>4, RefreshGives, StartsSelf, CacheStays
  <2> QED
    BY <1>1, <2>2, <2>3, <2>4
<1>8. StoreTypeOK' /\ IdsOk'
  <2>1. cache' \in [Connections -> CacheRecord]
    BY <1>1, RefreshGives DEF StoreInv, StoreTypeOK, CacheRecord
  <2>2. IdsOk'
    BY <1>1, <1>6 DEF StoreInv, IdsOk
  <2> QED
    BY <1>1, <1>6, <2>1, <2>2 DEF StoreInv, StoreTypeOK, TxnRecord, CacheRecord
<1>9. WroteOk'
  <2>0. /\ w.runs = IF t = "runs" THEN ToWrite(t) ELSE txn.written.runs
        /\ w.intents = IF t = "intents" THEN ToWrite(t) ELSE txn.written.intents
        /\ w.attempts = IF t = "attempts" THEN ToWrite(t) ELSE txn.written.attempts
        /\ w.receipts = IF t = "receipts" THEN ToWrite(t) ELSE txn.written.receipts
        /\ w.recs = IF t = "recs" THEN ToWrite(t) ELSE txn.written.recs
    <3> DEFINE X == ToWrite(t)
               old == txn.written
               n == [old EXCEPT ![t] = X]
    <3>1. old \in State /\ X \in SUBSET StoreRuns
      BY <1>2, <1>3
    <3> HIDE DEF X, old
    <3>2. /\ n.runs = IF t = "runs" THEN X ELSE old.runs
          /\ n.intents = IF t = "intents" THEN X ELSE old.intents
          /\ n.attempts = IF t = "attempts" THEN X ELSE old.attempts
          /\ n.receipts = IF t = "receipts" THEN X ELSE old.receipts
          /\ n.recs = IF t = "recs" THEN X ELSE old.recs
      BY <3>1, StateExcept, ZenonT(30)
    <3> QED
      BY <3>2 DEF X, old
  <2>1. WroteOk /\ Closed(store) /\ txn.copy = store /\ txn.next = Wanted(txn.work, txn.run, store)
        /\ store \in State /\ txn.work \in Works /\ txn.run \in StoreRuns
    BY <1>1, OpenTxn DEF LastTable
  <2>2. /\ store.runs \subseteq txn.next.runs /\ store.intents \subseteq txn.next.intents
        /\ store.attempts \subseteq txn.next.attempts /\ store.receipts \subseteq txn.next.receipts
        /\ txn.next.intents = txn.next.runs
    <3> DEFINE wk == txn.work
               r == txn.run
               n == Wanted(wk, r, store)
    <3>0. store \in State /\ wk \in Works /\ r \in StoreRuns /\ txn.next = n
      BY <2>1
    <3> HIDE DEF wk, r
    <3>1. /\ n.runs = IF wk = "prepare" THEN store.runs \cup {r} ELSE store.runs
          /\ n.intents = IF wk = "prepare" THEN store.intents \cup {r} ELSE store.intents
          /\ n.attempts = IF wk = "attempt" THEN store.attempts \cup {r} ELSE store.attempts
          /\ n.receipts = IF wk = "receipt" THEN store.receipts \cup {r} ELSE store.receipts
      BY <3>0, WantedIs, ZenonT(30)
    <3> QED
      BY <2>1, <3>0, <3>1 DEF Closed
  <2>3. CASE txn.at = 1 /\ t = "runs"
    <3>1. ToWrite(t) = txn.next.runs
      BY <2>3 DEF ToWrite
    <3> QED
      BY <1>6, <2>0, <2>1, <2>2, <2>3, <3>1 DEF WroteOk, Closed
  <2>4. CASE txn.at = 2 /\ t = "intents"
    <3>1. ToWrite(t) = txn.next.intents
      BY <2>4 DEF ToWrite
    <3> QED
      BY <1>6, <2>0, <2>1, <2>2, <2>4, <3>1 DEF WroteOk, Closed
  <2>5. CASE txn.at = 3 /\ t = "attempts"
    <3>1. ToWrite(t) = txn.next.attempts /\ ToWrite(t) \subseteq txn.written.intents \cup txn.copy.attempts
      BY <1>1, <2>5 DEF ToWrite, Fits, Parent
    <3> QED
      BY <1>6, <2>0, <2>1, <2>2, <2>5, <3>1 DEF WroteOk, Closed
  <2>6. CASE txn.at = 4 /\ t = "receipts"
    <3>1. ToWrite(t) = txn.next.receipts /\ ToWrite(t) \subseteq txn.written.attempts \cup txn.copy.receipts
      BY <1>1, <2>6 DEF ToWrite, Fits, Parent
    <3> QED
      BY <1>6, <2>0, <2>1, <2>2, <2>6, <3>1 DEF WroteOk, Closed
  <2>7. CASE txn.at = 5 /\ t = "recs"
    <3>1. ToWrite(t) = txn.written.recs \cup (txn.next.recs \cap txn.written.attempts)
      BY <2>7 DEF ToWrite
    <3> QED
      BY <1>6, <2>0, <2>1, <2>2, <2>7, <3>1 DEF WroteOk, Closed
  <2> QED
    BY <1>1, <2>3, <2>4, <2>5, <2>6, <2>7, TableAt
<1>10. AddedOk'
  <2>1. Accounts' = Accounts /\ Tells' = Tells
    BY <1>6 DEF Accounts, Tells
  <2>2. txn.at \in 1 .. 5
    BY <1>1, TableAt
  <2> QED
    BY <1>1, <1>6, <2>1, <2>2, OpenTxn DEF AddedOk
<1>11. TxnOk'
  <2>1. txn.at # 0
    BY <1>1
  <2> QED
    BY <1>1, <1>5, <1>6, <1>9, <1>10, <2>1, OpenTxn DEF TxnOk
<1> QED
  BY <1>1, <1>7, <1>8, <1>11, Quiet DEF StoreInv

LEMMA NothingOpen ==
  ASSUME txn' = NoTxn
  PROVE  txn' \in TxnRecord /\ txn'.added = <<>>
<1>1. NoState \in State
  BY DEF NoState, State
<1> QED
  BY <1>1 DEF NoTxn, TxnRecord, LastTable

(* What one commit adds to the rows.                                         *)
LEMMA OneMore ==
  ASSUME StoreTypeOK, Len(txn.added) = 1, rows' = rows \o txn.added
  PROVE  /\ Len(rows) \in Nat /\ Len(rows') = Len(rows) + 1
         /\ \A i \in 1 .. Len(rows) : rows'[i] = rows[i]
         /\ rows'[Len(rows) + 1] = txn.added[1]
         /\ \A i \in 1 .. Len(rows') : i \in 1 .. Len(rows) \/ i = Len(rows) + 1
<1>1. /\ Len(rows) \in Nat /\ Len(rows') = Len(rows) + 1
      /\ \A i \in 1 .. Len(rows) : rows'[i] = rows[i]
      /\ \A i \in Len(rows) + 1 .. Len(rows) + 1 : rows'[i] = txn.added[i - Len(rows)]
  BY VisibleIs
<1>2. Len(rows) + 1 \in Len(rows) + 1 .. Len(rows) + 1 /\ (Len(rows) + 1) - Len(rows) = 1
  BY <1>1
<1>3. rows'[Len(rows) + 1] = txn.added[(Len(rows) + 1) - Len(rows)]
  BY <1>1, <1>2
<1> QED
  BY <1>1, <1>2, <1>3

LEMMA CommitKeeps ==
  ASSUME StoreInv, NEW p \in Connections, Commit(p)
  PROVE  StoreInv'
<1>1. /\ lock = p /\ txn.at = 8 /\ rows' = rows \o txn.added /\ store' = txn.written /\ lock' = Free
      /\ txn' = NoTxn /\ opened' = opened /\ cache' = cache /\ view' = view /\ begun' = begun
  BY DEF Commit, LastTable
<1>2. /\ p # Free /\ txn \in TxnRecord /\ txn.copy = store /\ store \in State /\ Closed(store) /\ WroteOk /\ AddedOk
      /\ txn.next = Wanted(txn.work, txn.run, store) /\ txn.added \in Seq(Row) /\ begun \in Nat /\ rows \in Seq(Row)
      /\ txn.work \in Works /\ txn.run \in StoreRuns /\ txn.written \in State /\ StoreTypeOK /\ IdsOk
  BY <1>1, OpenTxn DEF StoreInv, TxnRecord
<1>3. txn' \in TxnRecord /\ txn'.added = <<>>
  BY <1>1, NothingOpen
<1>4. rows' \in Seq(Row)
  BY <1>1, <1>2, ConcatProperties
<1>5. StoreTypeOK'
  BY <1>1, <1>2, <1>3, <1>4 DEF StoreTypeOK, TxnRecord
<1>6. IdsOk'
  <2>1. \A i \in 1 .. Len(txn'.added) : txn'.added[i].id[1] = begun'
    BY <1>3
  <2>2. ASSUME NEW i \in 1 .. Len(rows') PROVE rows'[i].id[1] <= begun
    <3>1. CASE i <= Len(rows)
      <4>1. i \in 1 .. Len(rows) /\ rows'[i] = rows[i]
        BY <1>1, <1>2, <3>1, VisibleIs
      <4> QED
        BY <1>2, <4>1 DEF IdsOk
    <3>2. CASE i > Len(rows)
      <4>1. i - Len(rows) \in 1 .. Len(txn.added) /\ rows'[i] = txn.added[i - Len(rows)]
        BY <1>1, <1>2, <3>2, VisibleIs
      <4>2. txn.added[i - Len(rows)].id[1] = begun
        BY <1>2, <4>1 DEF IdsOk
      <4> QED
        BY <1>2, <4>1, <4>2
    <3> QED
      BY <1>1, <1>2, <3>1, <3>2, VisibleIs
  <2> QED
    BY <1>1, <2>1, <2>2 DEF IdsOk
<1>7. \A q \in Connections : CacheOk(q)'
  BY <1>1, <1>2, CacheAfterCommit DEF StoreInv
<1> DEFINE wk == txn.work
           r == txn.run
           n == Wanted(wk, r, store)
<1>8. /\ n.runs = IF wk = "prepare" THEN store.runs \cup {r} ELSE store.runs
      /\ n.intents = IF wk = "prepare" THEN store.intents \cup {r} ELSE store.intents
      /\ n.receipts = IF wk = "receipt" THEN store.receipts \cup {r} ELSE store.receipts
      /\ n = txn.next
  <2>0. store \in State /\ wk \in Works /\ r \in StoreRuns /\ n = txn.next
    BY <1>2
  <2> HIDE DEF wk, r
  <2> QED
    BY <2>0, WantedIs, ZenonT(30)
<1>9. /\ store'.runs = n.runs /\ store'.intents = n.intents /\ store'.receipts = n.receipts
      /\ store'.attempts \subseteq store'.intents /\ store'.receipts \subseteq store'.attempts
      /\ store'.recs \subseteq store'.attempts
  BY <1>1, <1>2, <1>8 DEF WroteOk
<1>10. Closed(store')
  BY <1>2, <1>8, <1>9 DEF Closed
<1>11. Told'
  <2> SUFFICES ASSUME NEW q \in store'.runs
               PROVE  \E i \in 1 .. Len(rows') : rows'[i].kind = "event" /\ rows'[i].run = q
    BY DEF Told
  <2>1. CASE q \in store.runs
    <3>1. PICK i \in 1 .. Len(rows) : rows[i].kind = "event" /\ rows[i].run = q
      BY <2>1 DEF StoreInv, Told
    <3>2. i \in 1 .. Len(rows') /\ rows'[i] = rows[i]
      BY <1>1, <1>2, VisibleIs
    <3> QED
      BY <3>1, <3>2
  <2>2. CASE q \notin store.runs
    <3>1. wk = "prepare" /\ q = r /\ n.runs # store.runs
      BY <1>8, <1>9, <2>2
    <3>2. Tells /\ ~Accounts
      BY <1>2, <1>8, <3>1 DEF Tells, Accounts
    <3>3. Len(txn.added) = 1 /\ txn.added[1].kind = "event" /\ txn.added[1].run = r
      BY <1>1, <1>2, <3>2 DEF AddedOk
    <3>4. Len(rows) + 1 \in 1 .. Len(rows') /\ rows'[Len(rows) + 1] = txn.added[1]
      BY <1>1, <1>2, <3>3, OneMore
    <3> QED
      BY <3>1, <3>3, <3>4
  <2> QED
    BY <2>1, <2>2
<1>12. Accounted'
  <2>1. CASE Accounts
    <3>1. wk = "receipt" /\ r \notin store.receipts /\ store'.receipts = store.receipts \cup {r}
      BY <1>2, <1>8, <1>9, <2>1 DEF Accounts
    <3>2. Len(txn.added) = 1 /\ txn.added[1].kind = "accounting" /\ txn.added[1].run = r
      BY <1>1, <1>2, <2>1 DEF AddedOk
    <3>3. /\ Len(rows) \in Nat /\ Len(rows') = Len(rows) + 1
          /\ \A i \in 1 .. Len(rows) : rows'[i] = rows[i]
          /\ rows'[Len(rows) + 1].kind = "accounting" /\ rows'[Len(rows) + 1].run = r
          /\ \A i \in 1 .. Len(rows') : i \in 1 .. Len(rows) \/ i = Len(rows) + 1
      BY <1>1, <1>2, <3>2, OneMore
    <3>4. Accounted
      BY DEF StoreInv
    <3> HIDE DEF r, wk, n
    <3>5. \A i \in 1 .. Len(rows') : rows'[i].kind = "accounting" => rows'[i].run \in store'.receipts
      BY <3>1, <3>3, <3>4 DEF Accounted
    <3>6. \A i, j \in 1 .. Len(rows') :
            rows'[i].kind = "accounting" /\ rows'[j].kind = "accounting" /\ rows'[i].run = rows'[j].run => i = j
      BY <3>1, <3>3, <3>4 DEF Accounted
    <3>7. ASSUME NEW q \in store'.receipts
          PROVE  \E i \in 1 .. Len(rows') : rows'[i].kind = "accounting" /\ rows'[i].run = q
      <4>1. CASE q = r
        BY <3>3, <4>1
      <4>2. CASE q # r
        <5>1. PICK i \in 1 .. Len(rows) : rows[i].kind = "accounting" /\ rows[i].run = q
          BY <3>1, <3>4, <4>2 DEF Accounted
        <5> QED
          BY <3>3, <5>1
      <4> QED
        BY <4>1, <4>2
    <3> QED
      BY <3>5, <3>6, <3>7 DEF Accounted
  <2>2. CASE ~Accounts
    <3>1. store'.receipts = store.receipts
      BY <1>2, <1>8, <1>9, <2>2 DEF Accounts
    <3>2. CASE txn.added = <<>>
      <4>1. rows' = rows
        BY <1>1, <1>2, <3>2, ConcatEmptySeq
      <4> QED
        BY <3>1, <4>1 DEF StoreInv, Accounted
    <3>3. CASE Len(txn.added) = 1 /\ txn.added[1].kind = "event"
      <4>1. /\ Len(rows) \in Nat /\ Len(rows') = Len(rows) + 1
            /\ \A i \in 1 .. Len(rows) : rows'[i] = rows[i]
            /\ rows'[Len(rows) + 1].kind = "event"
            /\ \A i \in 1 .. Len(rows') : i \in 1 .. Len(rows) \/ i = Len(rows) + 1
        BY <1>1, <1>2, <3>3, OneMore
      <4>2. \A i \in 1 .. Len(rows') : rows'[i].kind = "accounting" => i \in 1 .. Len(rows) /\ rows'[i] = rows[i]
        BY <4>1
      <4>3. Accounted /\ 1 .. Len(rows) \subseteq 1 .. Len(rows')
        BY <4>1 DEF StoreInv
      <4> QED
        BY <3>1, <4>1, <4>2, <4>3 DEF Accounted
    <3> QED
      BY <1>1, <1>2, <2>2, <3>2, <3>3 DEF AddedOk
  <2> QED
    BY <2>1, <2>2
<1>13. ViewOk'
  <2>1. store.runs \subseteq store'.runs
    BY <1>8, <1>9
  <2> QED
    BY <1>1, <2>1 DEF StoreInv, ViewOk, GoodView
<1>14. TxnOk'
  BY <1>1 DEF TxnOk
<1> QED
  BY <1>5, <1>6, <1>7, <1>10, <1>11, <1>12, <1>13, <1>14 DEF StoreInv

LEMMA RollbackKeeps ==
  ASSUME StoreInv, NEW p \in Connections, Rollback(p)
  PROVE  StoreInv'
<1>1. /\ lock = p /\ lock' = Free /\ txn' = NoTxn /\ rows' = rows /\ store' = store
      /\ opened' = opened /\ cache' = cache /\ view' = view /\ begun' = begun /\ p # Free
  BY ConnectionsAssumption DEF Rollback
<1>2. txn' \in TxnRecord /\ txn'.added = <<>> /\ begun \in Nat
  BY <1>1, NothingOpen, OpenTxn
<1>3. StoreTypeOK'
  BY <1>1, <1>2 DEF StoreInv, StoreTypeOK, TxnRecord
<1>4. IdsOk'
  BY <1>1, <1>2 DEF StoreInv, IdsOk
<1>5. \A q \in Connections : CacheOk(q)'
  BY <1>1, CacheAfterRollback DEF StoreInv
<1>6. TxnOk'
  BY <1>1 DEF TxnOk
<1> QED
  BY <1>1, <1>3, <1>4, <1>5, <1>6, Quiet DEF StoreInv

LEMMA CrashKeeps ==
  ASSUME StoreInv, NEW p \in Connections, ProcessEnds(p)
  PROVE  StoreInv'
<1>1. /\ p \in opened /\ opened' = opened \ {p} /\ rows' = rows /\ store' = store /\ begun' = begun
      /\ cache' = [cache EXCEPT ![p] = NoCache] /\ view' = [view EXCEPT ![p] = NoView]
      /\ IF lock = p THEN lock' = Free /\ txn' = NoTxn ELSE lock' = lock /\ txn' = txn
  BY DEF ProcessEnds
<1>2. /\ StoreTypeOK /\ IdsOk /\ p # Free
      /\ cache \in [Connections -> CacheRecord]
      /\ view \in [Connections -> [at : 0 .. LastTable, state : State, events : Seq(Row)]]
  BY ConnectionsAssumption DEF StoreInv, StoreTypeOK, CacheRecord
<1>3. NoCache \in CacheRecord /\ NoView \in [at : 0 .. LastTable, state : State, events : Seq(Row)]
  BY DEF NoCache, CacheRecord, NoView, NoState, State, LastTable
<1>4. /\ cache' \in [Connections -> CacheRecord]
      /\ view' \in [Connections -> [at : 0 .. LastTable, state : State, events : Seq(Row)]]
      /\ cache'[p] = NoCache /\ view'[p] = NoView
      /\ \A q \in Connections \ {p} : cache'[q] = cache[q] /\ view'[q] = view[q]
  BY <1>1, <1>2, <1>3
<1>5. txn' \in TxnRecord /\ IdsOk'
  <2>1. CASE lock = p
    <3>1. txn' \in TxnRecord /\ txn'.added = <<>> /\ begun \in Nat
      BY <1>1, <2>1, NothingOpen, OpenTxn
    <3> QED
      BY <1>1, <1>2, <2>1, <3>1, SMTT(20) DEF IdsOk
  <2>2. CASE lock # p
    BY <1>1, <1>2, <2>2 DEF IdsOk, StoreTypeOK, TxnRecord
  <2> QED
    BY <2>1, <2>2
<1>6. StoreTypeOK'
  BY <1>1, <1>2, <1>4, <1>5 DEF StoreTypeOK, TxnRecord, CacheRecord
<1>7. ASSUME NEW q \in Connections PROVE CacheOk(q)'
  <2>1. CASE q = p
    BY <1>4, <2>1, CacheEmpty
  <2>2. CASE q # p /\ lock = p
    BY <1>1, <1>2, <1>4, <2>2, CacheAfterRollback DEF StoreInv
  <2>3. CASE q # p /\ lock # p
    <3>1. Visible(q)' = Visible(q) /\ Visible(q) \in Seq(Row)
      BY <1>1, <1>2, <2>3, VisibleType DEF Visible
    <3> QED
      BY <1>1, <1>2, <1>4, <2>3, <3>1, StartsSelf, CacheStays DEF StoreInv
  <2> QED
    BY <2>1, <2>2, <2>3
<1>8. TxnOk'
  <2>1. CASE lock = p
    BY <1>1, <2>1 DEF TxnOk
  <2>2. CASE lock # p
    BY <1>1, <2>2 DEF StoreInv, TxnOk, WroteOk, AddedOk, Accounts, Tells
  <2> QED
    BY <2>1, <2>2
<1>9. ViewOk'
  <2> SUFFICES ASSUME NEW q \in Connections PROVE GoodView(view[q])'
    BY DEF ViewOk
  <2>1. CASE q = p
    <3>1. view'[q] = NoView
      BY <1>4, <2>1
    <3>2. NoView.at = 0 /\ NoView.state.runs = {} /\ NoView.state.attempts = {} /\ NoView.state.receipts = {}
      BY DEF NoView, NoState
    <3> QED
      BY <3>1, <3>2 DEF GoodView
  <2>2. CASE q # p
    <3>1. view'[q] = view[q] /\ GoodView(view[q])
      BY <1>4, <2>2 DEF StoreInv, ViewOk
    <3> QED
      BY <1>1, <3>1 DEF GoodView
  <2> QED
    BY <2>1, <2>2
<1> QED
  BY <1>1, <1>5, <1>6, <1>7, <1>8, <1>9, Quiet DEF StoreInv

(* One more table of a snapshot.                                             *)
LEMMA ReadTableKeeps ==
  ASSUME StoreInv, NEW p \in Connections, ReadTable(p)
  PROVE  StoreInv'
<1> DEFINE View == [at : 0 .. LastTable, state : State, events : Seq(Row)]
           k == NextAt(p)
           t == Tables[k]
           b == Before(p)
<1>1. /\ lock # p /\ rows' = rows /\ store' = store /\ lock' = lock /\ txn' = txn /\ opened' = opened /\ begun' = begun
  BY DEF ReadTable
<1>2. /\ StoreTypeOK /\ cache \in [Connections -> CacheRecord] /\ view \in [Connections -> View]
      /\ store \in State /\ Closed(store) /\ rows \in Seq(Row) /\ Visible(p) = rows
  BY <1>1 DEF StoreInv, StoreTypeOK, CacheRecord, Visible
<1>3. k \in 1 .. LastTable /\ b \in State
  <2>1. view[p] \in View /\ NoState \in State
    BY <1>2 DEF NoState, State
  <2> QED
    BY <2>1 DEF NextAt, Before, LastTable
<1>4. /\ b.runs \subseteq store.runs /\ b.attempts \cup b.receipts \subseteq b.runs
      /\ k > 2 => b.intents = b.runs
      /\ k = 7 => \A r \in b.runs : \E i \in 1 .. Len(view[p].events) :
                     view[p].events[i].run = r /\ view[p].events[i].kind = "event"
      /\ k = 1 => b = NoState
      /\ k # 1 => b = view[p].state
  <2>1. CASE k = 1
    BY <2>1 DEF Before, NoState
  <2>2. CASE k # 1
    <3>1. b = view[p].state /\ k = view[p].at + 1 /\ view[p].at \in Nat
      BY <1>2, <2>2 DEF Before, NextAt, LastTable
    <3>2. GoodView(view[p])
      BY DEF StoreInv, ViewOk
    <3> QED
      BY <2>2, <3>1, <3>2 DEF GoodView
  <2> QED
    BY <2>1, <2>2
<1>5. \/ k = 1 /\ t = "runs"
      \/ k = 2 /\ t = "intents"
      \/ k = 3 /\ t = "attempts"
      \/ k = 4 /\ t = "receipts"
      \/ k = 5 /\ t = "recs"
      \/ k = 6 /\ t = "events"
      \/ k = 7 /\ t = "killed"
  BY <1>3 DEF LastTable, Tables
<1>6. IdsOk' /\ TxnOk'
  BY <1>1 DEF StoreInv, IdsOk, TxnOk, WroteOk, AddedOk, Accounts, Tells
<1>7. /\ cache' \in [Connections -> CacheRecord]
      /\ cache' = cache \/ (t = "events" /\ Refresh(p) /\ cache'[p] = Fresh(rows))
  BY <1>2, RefreshGives DEF ReadTable
<1>8. ASSUME NEW q \in Connections PROVE CacheOk(q)'
  <2>1. Visible(q)' = Visible(q) /\ Visible(q) \in Seq(Row) /\ CacheOk(q)
    BY <1>1, <1>2, VisibleType DEF Visible, StoreInv
  <2>2. CASE cache' = cache
    BY <1>1, <1>2, <2>1, <2>2, StartsSelf, CacheStays
  <2>3. CASE Refresh(p) /\ q = p
    BY <1>1, <1>2, <2>1, <2>3, RefreshGives, StartsSelf, CacheFresh
  <2>4. CASE Refresh(p) /\ q # p
    BY <1>1, <1>2, <2>1, <2>4, RefreshGives, StartsSelf, CacheStays
  <2> QED
    BY <1>7, <2>2, <2>3, <2>4
<1> DEFINE x == IF t = "killed" THEN store.killed ELSE OfRuns(t, store[t], b)
           n == [b EXCEPT ![t] = x]
<1>9. CASE t = "events"
  <2>1. view' = [view EXCEPT ![p] = [view[p] EXCEPT !.at = k, !.events = rows]]
    <3>1. cache'[p].seen = rows
      <4>1. Refresh(p)
        BY <1>9 DEF ReadTable
      <4>2. cache'[p] = Fresh(rows)
        BY <1>2, <4>1, RefreshGives
      <4> QED
        BY <4>2 DEF Fresh
    <3>2. view' = [view EXCEPT ![p].at = k, ![p].events = cache'[p].seen]
      BY <1>9 DEF ReadTable
    <3> QED
      BY <3>1, <3>2
  <2>2. k = 6
    BY <1>5, <1>9
  <2>3. /\ view' \in [Connections -> View] /\ view'[p].at = 6 /\ view'[p].events = rows /\ view'[p].state = b
        /\ \A q \in Connections \ {p} : view'[q] = view[q]
    <3>1. view[p] \in View /\ k \in 0 .. LastTable /\ view[p].state = b
      BY <1>2, <1>3, <1>4, <2>2
    <3>2. [view[p] EXCEPT !.at = k, !.events = rows] \in View
      BY <1>2, <3>1
    <3> QED
      BY <1>2, <2>1, <2>2, <3>1, <3>2
  <2>4. ViewOk'
    <3>1. \A r \in b.runs : \E i \in 1 .. Len(rows) : rows[i].run = r /\ rows[i].kind = "event"
      BY <1>4 DEF StoreInv, Told
    <3> SUFFICES ASSUME NEW q \in Connections PROVE GoodView(view[q])'
      BY DEF ViewOk
    <3>2. CASE q = p
      <4>1. b.runs \subseteq store.runs /\ b.attempts \cup b.receipts \subseteq b.runs /\ b.intents = b.runs
        BY <1>4, <2>2
      <4>2. view'[q].at = 6 /\ view'[q].events = rows /\ view'[q].state = b /\ store' = store
        BY <1>1, <2>3, <3>2
      <4> HIDE DEF b
      <4> QED
        BY <3>1, <4>1, <4>2 DEF GoodView
    <3>3. CASE q # p
      <4>1. view'[q] = view[q] /\ GoodView(view[q])
        BY <2>3, <3>3 DEF StoreInv, ViewOk
      <4> QED
        BY <1>1, <4>1 DEF GoodView
    <3> QED
      BY <3>2, <3>3
  <2>5. StoreTypeOK'
    BY <1>1, <1>2, <1>7, <2>3 DEF StoreTypeOK, CacheRecord
  <2> QED
    BY <1>1, <1>6, <1>8, <2>4, <2>5, Quiet DEF StoreInv
<1>10. CASE t # "events"
  <2>1. view' = [view EXCEPT ![p].at = k, ![p].state = n]
    BY <1>10 DEF ReadTable
  <2>2. n \in State /\ n.runs \subseteq store.runs /\ n.attempts \cup n.receipts \subseteq n.runs
        /\ (k >= 2 => n.intents = n.runs) /\ (k >= 6 => n.runs = b.runs)
    <3>1. CASE t = "killed"
      <4>1. n = [b EXCEPT !.killed = store.killed] /\ k = 7
        BY <1>5, <3>1
      <4>2. b \in State /\ store.killed \in BOOLEAN /\ b.runs \subseteq store.runs /\ b.intents = b.runs
            /\ b.attempts \cup b.receipts \subseteq b.runs
        BY <1>2, <1>3, <1>4, <4>1 DEF State
      <4> HIDE DEF n, b
      <4> QED
        BY <4>1, <4>2 DEF State
    <3>2. CASE t # "killed"
      <4> DEFINE X == OfRuns(t, store[t], b)
      <4>1. t \in RowTables /\ n = [b EXCEPT ![t] = X]
        BY <1>5, <1>10, <3>2 DEF RowTables
      <4>2. /\ store.runs \subseteq StoreRuns /\ store.intents = store.runs /\ store.attempts \subseteq StoreRuns
            /\ store.receipts \subseteq StoreRuns /\ store.recs \subseteq StoreRuns
        BY <1>2 DEF State, Closed
      <4>3. /\ t = "runs" => X = store.runs
            /\ t = "intents" => X = store.runs \cap b.runs
            /\ t = "attempts" => X = store.attempts \cap b.runs
            /\ t = "receipts" => X = store.receipts \cap b.runs
            /\ t = "recs" => X = store.recs
        <5>1. t = "runs" => X = store.runs
          BY DEF OfRuns
        <5>2. t = "intents" => X = store.runs \cap b.runs
          BY <4>2 DEF OfRuns
        <5>3. t = "attempts" => X = store.attempts \cap b.runs
          <6> HIDE DEF b
          <6> QED
            BY DEF OfRuns
        <5>4. t = "receipts" => X = store.receipts \cap b.runs
          <6> HIDE DEF b
          <6> QED
            BY DEF OfRuns
        <5>5. t = "recs" => X = store.recs
          BY DEF OfRuns
        <5> QED
          BY <5>1, <5>2, <5>3, <5>4, <5>5
      <4>4. X \in SUBSET StoreRuns /\ b \in State
        BY <1>3, <4>1, <4>2, <4>3 DEF RowTables
      <4> HIDE DEF X, b
      <4>5. /\ n \in State
            /\ n.runs = IF t = "runs" THEN X ELSE b.runs
            /\ n.intents = IF t = "intents" THEN X ELSE b.intents
            /\ n.attempts = IF t = "attempts" THEN X ELSE b.attempts
            /\ n.receipts = IF t = "receipts" THEN X ELSE b.receipts
        <5> HIDE DEF n, t
        <5>1. LET m == [b EXCEPT ![t] = X] IN
              /\ m \in State
              /\ m.runs = IF t = "runs" THEN X ELSE b.runs
              /\ m.intents = IF t = "intents" THEN X ELSE b.intents
              /\ m.attempts = IF t = "attempts" THEN X ELSE b.attempts
              /\ m.receipts = IF t = "receipts" THEN X ELSE b.receipts
          BY <4>1, <4>4, StateExcept, ZenonT(30)
        <5> QED
          BY <4>1, <5>1
      <4>6. /\ b.runs \subseteq store.runs /\ b.attempts \cup b.receipts \subseteq b.runs
            /\ k > 2 => b.intents = b.runs
            /\ t = "runs" => b.runs = {} /\ b.attempts = {} /\ b.receipts = {} /\ b.intents = {}
        <5>1. NoState.runs = {} /\ NoState.attempts = {} /\ NoState.receipts = {} /\ NoState.intents = {}
          BY DEF NoState
        <5> QED
          BY <1>4, <1>5, <5>1
      <4>7. \/ k = 1 /\ t = "runs"
            \/ k = 2 /\ t = "intents"
            \/ k = 3 /\ t = "attempts"
            \/ k = 4 /\ t = "receipts"
            \/ k = 5 /\ t = "recs"
        BY <1>5, <1>10, <3>2
      <4> HIDE DEF n, k, t
      <4>8. CASE k = 1 /\ t = "runs"
        BY <4>3, <4>5, <4>6, <4>8
      <4>9. CASE k = 2 /\ t = "intents"
        BY <4>3, <4>5, <4>6, <4>9
      <4>10. CASE k = 3 /\ t = "attempts"
        BY <4>3, <4>5, <4>6, <4>10
      <4>11. CASE k = 4 /\ t = "receipts"
        BY <4>3, <4>5, <4>6, <4>11
      <4>12. CASE k = 5 /\ t = "recs"
        BY <4>3, <4>5, <4>6, <4>12
      <4> QED
        BY <4>7, <4>8, <4>9, <4>10, <4>11, <4>12
    <3> QED
      BY <3>1, <3>2
  <2>3. /\ view' \in [Connections -> View] /\ view'[p].at = k /\ view'[p].events = view[p].events /\ view'[p].state = n
        /\ \A q \in Connections \ {p} : view'[q] = view[q]
    <3>1. view[p] \in View /\ k \in 0 .. LastTable
      BY <1>2, <1>3
    <3> HIDE DEF n, k
    <3>2. [view[p] EXCEPT !.at = k, !.state = n] \in View
      BY <2>2, <3>1
    <3>3. view' = [view EXCEPT ![p] = [view[p] EXCEPT !.at = k, !.state = n]]
      BY <1>2, <2>1
    <3> QED
      BY <1>2, <3>1, <3>2, <3>3
  <2>4. ViewOk'
    <3> SUFFICES ASSUME NEW q \in Connections PROVE GoodView(view[q])'
      BY DEF ViewOk
    <3>2. CASE q = p
      <4>1. k \in Nat /\ (k >= 6 => k = 7)
        BY <1>5, <1>10
      <4>2. k >= 6 => \A r \in n.runs : \E i \in 1 .. Len(view[p].events) :
                        view[p].events[i].run = r /\ view[p].events[i].kind = "event"
        <5>1. k >= 6 => n.runs = b.runs
          BY <2>2
        <5> HIDE DEF n, k, b
        <5> QED
          BY <1>4, <4>1, <5>1
      <4>3. n.runs \subseteq store.runs /\ n.attempts \cup n.receipts \subseteq n.runs /\ (k >= 2 => n.intents = n.runs)
        BY <2>2
      <4>4. view'[q].at = k /\ view'[q].events = view[p].events /\ view'[q].state = n /\ store' = store
        BY <1>1, <2>3, <3>2
      <4> HIDE DEF n, k, b
      <4> QED
        BY <4>1, <4>2, <4>3, <4>4 DEF GoodView
    <3>3. CASE q # p
      <4>1. view'[q] = view[q] /\ GoodView(view[q])
        BY <2>3, <3>3 DEF StoreInv, ViewOk
      <4> QED
        BY <1>1, <4>1 DEF GoodView
    <3> QED
      BY <3>2, <3>3
  <2>5. StoreTypeOK'
    BY <1>1, <1>2, <1>7, <2>3 DEF StoreTypeOK, CacheRecord
  <2> QED
    BY <1>1, <1>6, <1>8, <2>4, <2>5, Quiet DEF StoreInv
<1> QED
  BY <1>9, <1>10

LEMMA StoreStarts == StoreInit => StoreInv
<1> SUFFICES ASSUME StoreInit PROVE StoreInv
  OBVIOUS
<1>1. NoState \in State /\ NoCache \in CacheRecord /\ 0 \in 0 .. Transactions /\ NoTxn \in TxnRecord
  BY TransactionsAssumption DEF NoState, State, NoCache, CacheRecord, NoTxn, TxnRecord, LastTable
<1>2. /\ rows = <<>> /\ store = NoState /\ lock = Free /\ opened = {} /\ begun = 0 /\ txn = NoTxn
      /\ cache = [p \in Connections |-> NoCache] /\ view = [p \in Connections |-> NoView]
  BY DEF StoreInit
<1>3. StoreTypeOK
  <2>1. NoView \in [at : 0 .. LastTable, state : State, events : Seq(Row)]
    BY <1>1 DEF NoView, LastTable
  <2> QED
    BY <1>1, <1>2, <2>1 DEF StoreTypeOK, TxnRecord, CacheRecord
<1>4. IdsOk
  BY <1>2 DEF IdsOk, NoTxn
<1>5. \A p \in Connections : CacheOk(p)
  <2> SUFFICES ASSUME NEW p \in Connections PROVE CacheOk(p)
    OBVIOUS
  <2>1. cache[p] = NoCache /\ NoCache.seen = <<>> /\ NoCache.rowid = 0 /\ Len(<<>>) = 0
    BY <1>2 DEF NoCache
  <2>2. Starts(<<>>, Visible(p))
    <3>1. Visible(p) \in Seq(Row)
      BY <1>3, VisibleType
    <3> QED
      BY <3>1 DEF Starts
  <2> QED
    BY <2>1, <2>2 DEF CacheOk
<1>6. Closed(store) /\ Told /\ Accounted
  BY <1>2 DEF Closed, Told, Accounted, NoState
<1>7. TxnOk /\ ViewOk
  <2>1. NoView.at = 0 /\ NoView.state.runs = {} /\ NoView.state.attempts = {} /\ NoView.state.receipts = {}
    BY DEF NoView, NoState
  <2>2. \A p \in Connections : view[p] = NoView
    BY <1>2
  <2> QED
    BY <1>2, <2>1, <2>2 DEF TxnOk, ViewOk, GoodView
<1> QED
  BY <1>3, <1>4, <1>5, <1>6, <1>7 DEF StoreInv

LEMMA StoreKeeps == StoreInv /\ [StoreNext]_storeVars => StoreInv'
<1> SUFFICES ASSUME StoreInv, [StoreNext]_storeVars PROVE StoreInv'
  OBVIOUS
<1>1. CASE UNCHANGED storeVars
  <2>1. /\ rows' = rows /\ store' = store /\ lock' = lock /\ txn' = txn /\ opened' = opened /\ cache' = cache
        /\ view' = view /\ begun' = begun
    BY <1>1 DEF storeVars
  <2>2. StoreTypeOK' /\ IdsOk'
    BY <2>1 DEF StoreInv, StoreTypeOK, IdsOk
  <2>3. \A p \in Connections : CacheOk(p)'
    BY <2>1 DEF StoreInv, CacheOk, Gone, Visible
  <2>4. TxnOk'
    BY <2>1 DEF StoreInv, TxnOk, WroteOk, AddedOk, Accounts, Tells
  <2> QED
    BY <2>1, <2>2, <2>3, <2>4, Quiet DEF StoreInv
<1>2. ASSUME NEW p \in Connections, NEW work \in Works, NEW r \in StoreRuns, Begin(p, work, r) PROVE StoreInv'
  BY <1>2, BeginKeeps
<1>3. ASSUME NEW p \in Connections,
             Mutate(p) \/ PersistTable(p) \/ PersistEvents(p) \/ PersistKill(p) \/ ReadInside(p) \/ Commit(p)
             \/ Rollback(p) \/ ReadTable(p) \/ OpenStore(p) \/ ProcessEnds(p)
      PROVE  StoreInv'
  BY <1>3, MutateKeeps, PersistTableKeeps, PersistEventsKeeps, PersistKillKeeps, ReadInsideKeeps, CommitKeeps,
     RollbackKeeps, ReadTableKeeps, OpenKeeps, CrashKeeps
<1> QED
  BY <1>1, <1>2, <1>3 DEF StoreNext

LEMMA StoreInvIsSafe == StoreInv => StoreSafety
<1> SUFFICES ASSUME StoreInv PROVE StoreSafety
  OBVIOUS
<1>1. EventsAsStored
  <2>1. \A p \in Connections : Refreshed(cache[p], Visible(p)) = Fresh(Visible(p))
    BY AllRefreshed DEF StoreInv
  <2>2. opened \subseteq Connections
    BY DEF StoreInv, StoreTypeOK
  <2> SUFFICES ASSUME NEW p \in opened PROVE Refreshed(cache[p], Visible(p)).seen = Visible(p)
    BY DEF EventsAsStored
  <2>3. Refreshed(cache[p], Visible(p)) = Fresh(Visible(p))
    BY <2>1, <2>2
  <2>4. Fresh(Visible(p)).seen = Visible(p)
    BY DEF Fresh
  <2> QED
    BY <2>3, <2>4
<1>2. CopyIsCurrent
  BY DEF StoreInv, TxnOk, CopyIsCurrent
<1>3. RecordsBelong
  <2>0. rows \in Seq(Row) /\ DOMAIN rows = 1 .. Len(rows)
    BY DEF StoreInv, StoreTypeOK
  <2>1. \A t \in RowTables \ {"runs"} : store[t] \subseteq store[Parent[t]]
    BY DEF StoreInv, Closed, RowTables, Parent
  <2>2. \A i, j \in DOMAIN rows : rows[i].kind = "accounting" =>
          /\ rows[i].run \in store.receipts
          /\ rows[j].kind = "accounting" /\ rows[j].run = rows[i].run => i = j
    BY <2>0 DEF StoreInv, Accounted
  <2>3. \A r \in store.receipts : AccountingOf(r) # {}
    BY <2>0 DEF StoreInv, Accounted, AccountingOf
  <2> QED
    BY <2>1, <2>2, <2>3 DEF RecordsBelong
<1>4. SnapshotsClose
  <2> SUFFICES ASSUME NEW p \in Connections PROVE LET v == view[p] IN
       /\ v.at >= 2 => v.state.intents = v.state.runs
       /\ v.state.attempts \cup v.state.receipts \subseteq v.state.runs
       /\ v.at >= 6 => \A r \in v.state.runs : \E i \in DOMAIN v.events : v.events[i].run = r /\ v.events[i].kind = "event"
    BY DEF SnapshotsClose
  <2>0. GoodView(view[p])
    BY DEF StoreInv, ViewOk
  <2>1. view[p].events \in Seq(Row)
    BY DEF StoreInv, StoreTypeOK
  <2>2. DOMAIN view[p].events = 1 .. Len(view[p].events)
    BY <2>1
  <2> QED
    BY <2>0, <2>2 DEF GoodView
<1> QED
  BY <1>1, <1>2, <1>3, <1>4 DEF StoreInv, StoreSafety

(* Whatever the processes do, the store keeps its promises (StoreSafety).    *)
THEOREM StoreSafe == StoreSpec => []StoreSafety
<1>1. StoreInit => StoreInv
  BY StoreStarts
<1>2. StoreInv /\ [StoreNext]_storeVars => StoreInv'
  BY StoreKeeps
<1>3. StoreInv => StoreSafety
  BY StoreInvIsSafe
<1> QED
  BY <1>1, <1>2, <1>3, PTL DEF StoreSpec

-----------------------------------------------------------------------------
(* The spend window and the store together                                  *)

\* A behaviour is the ledger's or the store's, and what it does not move rests.
LEMMA SpendingSteps ==
  TypeOK /\ StoreInv /\ [AllNext]_allVars => TypeOK' /\ StoreInv'
<1> SUFFICES ASSUME TypeOK, StoreInv, [AllNext]_allVars PROVE TypeOK' /\ StoreInv'
  OBVIOUS
<1>1. [Next]_vars /\ [StoreNext]_storeVars
  BY DEF AllNext, allVars, LedgerPart, StorePart
<1> QED
  BY <1>1, TypeStep, StoreKeeps

\* AllSafety: the ledger's rows keep their shape and the store its promises, whichever moves.
THEOREM SpendingSafe == AllSpec => []AllSafety
<1>1. Init => TypeOK
  BY LedgerAssumption DEF Init, TypeOK
<1>2. AllInit => TypeOK /\ StoreInv
  BY <1>1, StoreStarts DEF AllInit
<1>3. TypeOK /\ StoreInv => AllSafety
  BY StoreInvIsSafe DEF AllSafety
<1> QED
  BY <1>2, <1>3, SpendingSteps, PTL DEF AllSpec
=============================================================================
