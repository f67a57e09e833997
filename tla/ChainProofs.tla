---------------------------- MODULE ChainProofs ----------------------------
(***************************************************************************)
(* Proofs about what is settled on a chain and what is read from it.       *)
(* L2Settlement, for any fleet, fates, lies and number of faults: money    *)
(* moves, a run completes and the owner is told only on what is final on   *)
(* Ethereum.  Discovery, for any chain, lag, range and number of mishaps:  *)
(* the cursor passes no block it cannot account for.  Readiness, for any   *)
(* wallets, drops and evidence: what a stored sweep says of the wallets.   *)
(* HealthMonitor and PauseWatch, for any limits, times and restarts: what  *)
(* the owner is told of troubles and of time the bot did not run.          *)
(* Replication, for any contracts, wallets and limits: what a watched mint *)
(* sets off.                                                               *)
(***************************************************************************)
EXTENDS L2Settlement, MCIntelligence, NumberLemmas, FiniteSetTheorems, WellFoundedInduction, TLAPS

-----------------------------------------------------------------------------
(* The settlement of a run on an L2                                        *)

Passes == [pc : {"idle", "read", "apply", "report"}, todo : SUBSET (Wallets \X Hashes),
           seen : [Wallets \X Hashes -> View], halt : {"no", "unknown", "reorged"},
           report : SUBSET (Wallets \X Receipt)]

\* What the pass has read as final is so.
Proven(w, v) == v.kind = "final" => IsFinal(w) /\ v.of = at[w]
SeenIsTrue == \A a \in Wallets \X Hashes : Proven(a[1], pass.seen[a])

\* What is reported, and what was told, is a stored final receipt.
ReportIsStored == \A x \in pass.report : x[2] \in receipts[x[1]] /\ Final(x[2])
ToldIsStored == \A w \in Wallets : \A r \in told[w] : r \in receipts[w] /\ Final(r)

L2Inv == Safety /\ SeenIsTrue /\ ReportIsStored /\ ToldIsStored

-----------------------------------------------------------------------------
(* What is final stays so, and an honest provider calls nothing else final *)

\* The chain moves: a wallet whose transaction is final is not touched.
ChainMoves ==
  /\ at' \in [Wallets -> Nat] /\ included' \in [Wallets -> BOOLEAN] /\ stage' \in [Wallets -> Stages]
  /\ \A w \in Wallets : at'[w] <= Len(fate[w])
  /\ \A w \in Wallets : IsFinal(w) => IsFinal(w)' /\ at'[w] = at[w]

LEMMA ChainStep ==
  ASSUME TypeOK, NEW w \in Wallets, Mine(w) \/ Advance(w) \/ Orphan(w)
  PROVE  ChainMoves
<1>1. \A v \in Wallets : fate[v] \in Seq(Inclusions) /\ Len(fate[v]) \in Nat
  BY FatesAssumption DEF TypeOK
<1>2. CASE Mine(w)
  BY <1>1, <1>2 DEF TypeOK, Mine, ChainMoves, IsFinal, Stages
<1>3. CASE Advance(w)
  BY <1>1, <1>3 DEF TypeOK, Advance, ChainMoves, IsFinal, Stages
<1>4. CASE Orphan(w)
  BY <1>1, <1>4 DEF TypeOK, Orphan, ChainMoves, IsFinal, Stages
<1> QED
  BY <1>2, <1>3, <1>4

LEMMA HonestView ==
  ASSUME TypeOK, NEW w \in Wallets, NEW h \in Hashes, NEW v \in Honest(w, h)
  PROVE  v \in View /\ Proven(w, v)
<1>1. at[w] \in Nat /\ stage[w] \in Stages /\ included[w] \in BOOLEAN
  BY DEF TypeOK
<1>2. Seen(w, h) \subseteq 1 .. at[w]
  BY DEF Seen
<1>3. CASE v \in [kind : Stages, of : Seen(w, h)] /\ ~Orphaned(w, v.of) /\ Reached(v.kind) <= Reached(stage[w])
  <2>1. v.of \in 1 .. at[w] /\ v.kind \in Stages
    BY <1>2, <1>3
  <2>2. v.kind = "final" => stage[w] = "final"
    BY <1>1, <1>3 DEF Reached, Stages
  <2>3. v.of = at[w] /\ included[w]
    BY <1>1, <1>3, <2>1 DEF Orphaned
  <2>4. v \in View
    BY <1>1, <1>2, <1>3 DEF View, Kinds
  <2> QED
    BY <2>2, <2>3, <2>4 DEF Proven, IsFinal
<1>4. CASE v = NoView
  BY <1>4 DEF NoView, View, Proven
<1>5. CASE v \in [kind : {"unproven"}, of : Seen(w, h)]
  BY <1>1, <1>2, <1>5 DEF View, Proven
<1>6. CASE v \in [kind : {"reorged", "soft", "posted"}, of : {i \in Seen(w, h) : Orphaned(w, i)}]
  BY <1>1, <1>2, <1>6 DEF View, Proven, Kinds, Stages
<1> QED
  BY <1>3, <1>4, <1>5, <1>6 DEF Honest

\* Whatever a provider shows has the form of a view.
LEMMA ShownView ==
  ASSUME TypeOK, NEW w \in Wallets, NEW h \in Hashes, NEW provider, NEW v \in Shown(provider, w, h)
  PROVE  v \in View
<1>1. fate[w] \in Seq(Inclusions)
  BY FatesAssumption DEF TypeOK
<1>2. CASE v \in Lying(w)
  <2>1. DOMAIN fate[w] \subseteq Nat
    BY <1>1
  <2>2. Lies \subseteq Kinds \cup {"none", "unproven"}
    BY FatesAssumption DEF Kinds, Stages
  <2> QED
    BY <1>2, <2>1, <2>2 DEF Lying, View
<1>3. CASE v \in Honest(w, h)
  BY <1>3, HonestView
<1> QED
  BY <1>2, <1>3 DEF Shown

\* Two providers that agree do not both lie.
LEMMA AgreedView ==
  ASSUME TypeOK, NEW w \in Wallets, NEW h \in Hashes,
         NEW p \in Shown("primary", w, h), NEW f \in Shown("fallback", w, h), Agree(p, f)
  PROVE  p \in View /\ Proven(w, p)
<1>1. p \in View /\ f \in View
  BY ShownView
<1>2. CASE liar = "primary"
  <2>1. f \in Honest(w, h)
    BY <1>2 DEF Shown
  <2> QED
    BY <1>1, <2>1, HonestView DEF Agree, Proven
<1>3. CASE liar # "primary"
  <2>1. p \in Honest(w, h)
    BY <1>3 DEF Shown
  <2> QED
    BY <2>1, HonestView
<1> QED
  BY <1>2, <1>3

-----------------------------------------------------------------------------
(* The types and what the pass has seen *)

LEMMA IdleType == Idle \in Passes /\ Idle.report = {} /\ \A a \in Wallets \X Hashes : Idle.seen[a] = NoView
<1>1. NoView \in View
  BY DEF NoView, View
<1> QED
  BY <1>1 DEF Idle, Passes

LEMMA IdleSees == \A a \in Wallets \X Hashes, w \in Wallets : Proven(w, Idle.seen[a])
BY IdleType DEF Proven, NoView

\* Noting a view, or halting, keeps the form of the pass.
LEMMA NoteType ==
  ASSUME pass \in Passes, NEW a \in Wallets \X Hashes, NEW v \in View, Note(a, v)
  PROVE  pass' \in Passes /\ pass'.seen = [pass.seen EXCEPT ![a] = v] /\ pass'.report = pass.report
BY DEF Note, Passes

LEMMA HaltType ==
  ASSUME pass \in Passes, NEW result \in {"unknown", "reorged"}, Halt(result)
  PROVE  pass' \in Passes /\ pass'.seen = pass.seen /\ pass'.report = pass.report
BY DEF Halt, Passes

\* One reading of the chain keeps what was read true.
LEMMA ReadStep ==
  ASSUME L2Inv, NEW a \in pass.todo, ReadBase(a) \/ ReadRobinhood(a)
  PROVE  /\ pass' \in Passes /\ pass'.report = pass.report
         /\ \A b \in Wallets \X Hashes : Proven(b[1], pass'.seen[b])
<1> DEFINE w == a[1]
           h == a[2]
           Good2(v) == v \in View /\ Proven(w, v)
<1>1. TypeOK /\ pass \in Passes /\ a \in Wallets \X Hashes /\ w \in Wallets /\ h \in Hashes /\ a = <<w, h>>
  <2>1. TypeOK /\ pass \in Passes
    BY DEF L2Inv, Safety, TypeOK, Passes
  <2>2. a \in Wallets \X Hashes
    BY <2>1 DEF Passes
  <2> QED
    BY <2>1, <2>2
<1>2. ASSUME NEW v, Good2(v), Note(a, v)
      PROVE  /\ pass' \in Passes /\ pass'.report = pass.report
             /\ \A b \in Wallets \X Hashes : Proven(b[1], pass'.seen[b])
  <2>1. pass' \in Passes /\ pass'.seen = [pass.seen EXCEPT ![a] = v] /\ pass'.report = pass.report
    BY <1>1, <1>2, NoteType
  <2>2. \A b \in Wallets \X Hashes : pass'.seen[b] = IF b = a THEN v ELSE pass.seen[b]
    BY <1>1, <2>1 DEF Passes
  <2> QED
    BY <1>2, <2>1, <2>2 DEF L2Inv, SeenIsTrue
<1>3. ASSUME NEW result \in {"unknown", "reorged"}, Halt(result)
      PROVE  /\ pass' \in Passes /\ pass'.report = pass.report
             /\ \A b \in Wallets \X Hashes : Proven(b[1], pass'.seen[b])
  BY <1>1, <1>3, HaltType DEF L2Inv, SeenIsTrue
<1>4. CASE ReadBase(a)
  <2>1. PICK p \in Shown("primary", w, h), f \in Shown("fallback", w, h) :
          IF NoView \in {p, f} THEN Note(a, NoView)
          ELSE IF ~Agree(p, f) \/ p.kind = "unproven" THEN Halt("unknown")
          ELSE IF p.kind = "reorged" THEN Halt("reorged") ELSE Note(a, p)
    BY <1>4 DEF ReadBase
  <2>2. CASE NoView \in {p, f}
    <3>1. Good2(NoView)
      BY DEF NoView, View, Proven
    <3> QED
      BY <1>2, <2>1, <2>2, <3>1
  <2>3. CASE NoView \notin {p, f} /\ (~Agree(p, f) \/ p.kind \in {"unproven", "reorged"})
    BY <1>3, <2>1, <2>3
  <2>4. CASE NoView \notin {p, f} /\ Agree(p, f) /\ p.kind \notin {"unproven", "reorged"}
    <3>1. Good2(p)
      BY <1>1, <2>4, AgreedView
    <3> QED
      BY <1>2, <2>1, <2>4, <3>1
  <2> QED
    BY <2>2, <2>3, <2>4
<1>5. CASE ReadRobinhood(a)
  <2>1. PICK v \in Honest(w, h) : Note(a, v)
    BY <1>5 DEF ReadRobinhood
  <2>2. Good2(v)
    BY <1>1, HonestView
  <2> QED
    BY <1>2, <2>1, <2>2
<1> QED
  BY <1>4, <1>5

-----------------------------------------------------------------------------
(* What the pass applies *)

LEMMA FactIsProven ==
  ASSUME L2Inv, NEW w \in Wallets, NEW r \in FactsOf(w)
  PROVE  r \in Receipt /\ Proven(w, r)
<1>1. PICK a \in FactAttempts : a[1] = w /\ r = pass.seen[a]
  BY DEF FactsOf
<1>2. a \in Wallets \X Hashes /\ pass.seen[a].kind \in Kinds
  BY <1>1 DEF FactAttempts, Seeing, Attempts, Kinds, Stages
<1>3. pass.seen[a] \in View
  BY <1>2 DEF L2Inv, Safety, TypeOK
<1>4. r \in Receipt
  BY <1>1, <1>2, <1>3 DEF View, Receipt
<1>5. Proven(w, r)
  BY <1>1, <1>2 DEF L2Inv, SeenIsTrue
<1> QED
  BY <1>4, <1>5

LEMMA ShortSequence ==
  ASSUME NEW F, NEW r \in F
  PROVE  <<>> \in Seq(F) /\ <<r>> \in Seq(F)
OBVIOUS

LEMMA NewIsFact ==
  ASSUME NEW w \in Wallets
  PROVE  /\ \A i \in DOMAIN New(w) : New(w)[i] \in FactsOf(w)
         /\ New(w) # <<>> => Len(New(w)) \in DOMAIN New(w)
<1>1. \A h \in Hashes : NewOf(w, h) = <<>> \/ \E r \in FactsOf(w) : NewOf(w, h) = <<r>>
  <2> SUFFICES ASSUME NEW h \in Hashes, NewOf(w, h) # <<>> PROVE \E r \in FactsOf(w) : NewOf(w, h) = <<r>>
    OBVIOUS
  <2>1. <<w, h>> \in FactAttempts /\ NewOf(w, h) = <<pass.seen[<<w, h>>]>>
    BY DEF NewOf
  <2>2. pass.seen[<<w, h>>] \in FactsOf(w)
    BY <2>1 DEF FactsOf
  <2> QED
    BY <2>1, <2>2
<1>2. NewOf(w, 1) \in Seq(FactsOf(w)) /\ NewOf(w, 2) \in Seq(FactsOf(w))
  <2>1. <<>> \in Seq(FactsOf(w))
    OBVIOUS
  <2>2. \A h \in Hashes : NewOf(w, h) \in Seq(FactsOf(w))
    BY <1>1, <2>1, ShortSequence
  <2> QED
    BY <2>2 DEF Hashes
<1>3. New(w) \in Seq(FactsOf(w))
  BY <1>2 DEF New
<1> QED
  BY <1>3

LEMMA TargetType ==
  ASSUME NEW w, NEW r
  PROVE  Target(w, r) \in {"submitted", "reorged", "confirmed", "failed"}
BY DEF Target

\* A final verdict covers every wallet, and with success.
LEMMA FinalCoversAll ==
  ASSUME L2Inv, Coherent, Result = "final", NEW w \in Wallets
  PROVE  \E r \in FactsOf(w) : Authorizes(r) /\ Good(w, r)
<1>1. PICK r \in FactsOf(w) : TRUE
  BY DEF Coherent
<1>2. PICK a \in FactAttempts : a[1] = w /\ r = pass.seen[a]
  BY <1>1 DEF FactsOf
<1>3. pass.halt = "no" /\ a \in Attempts
  BY <1>2 DEF FactAttempts, Seeing
<1>4. CASE chainId = "base"
  <2>1. r.kind \in Stages /\ ~Reverted(a) /\ Weakest(FactAttempts) = "final"
    BY <1>2, <1>3, <1>4 DEF FactAttempts, Seeing, Result, BaseResult
  <2>2. r.kind = "final"
    BY <1>2, <2>1 DEF Weakest, Stages
  <2> QED
    BY <1>2, <2>1, <2>2 DEF Reverted, Authorizes
<1>5. CASE chainId # "base"
  <2>1. r.kind \in {"final", "reorged"} /\ Seeing({"reorged"}) = {} /\ ~Reverted(a)
    BY <1>2, <1>3, <1>5 DEF FactAttempts, Seeing, Result, RobinhoodResult, Weakest
  <2>2. r.kind = "final"
    BY <1>2, <1>3, <2>1 DEF Seeing
  <2> QED
    BY <1>2, <2>1, <2>2 DEF Reverted, Authorizes
<1> QED
  BY <1>4, <1>5

\* The payment of a wallet that settles is that of its final inclusion.
LEMMA PaysFinal ==
  ASSUME L2Inv, NEW w \in Wallets, Settling(w)
  PROVE  LET amount == (CHOOSE r \in FactsOf(w) : Authorizes(r)).of
         IN  amount \in Nat /\ amount = at[w] /\ IsFinal(w)
<1> DEFINE paying == CHOOSE r \in FactsOf(w) : Authorizes(r)
<1>1. paying \in FactsOf(w) /\ Authorizes(paying)
  BY DEF Settling
<1>2. paying \in Receipt /\ Proven(w, paying)
  BY <1>1, FactIsProven
<1> QED
  BY <1>1, <1>2 DEF Authorizes, Proven, Receipt

\* A wallet with a final fact is settled by the pass, if it was not before.
LEMMA SettledAfter ==
  ASSUME L2Inv, Apply, NEW w \in Wallets, \E r \in FactsOf(w) : Authorizes(r)
  PROVE  resv'[w] = "settled"
<1>1. resv[w] \in {"reserved", "settled"}
  BY DEF L2Inv, Safety, TypeOK
<1> QED
  BY <1>1 DEF Apply, Settling

LEMMA ApplyType ==
  ASSUME L2Inv, Apply, UNCHANGED <<fixed, blocks, enabled>>
  PROVE  TypeOK'
<1>1. exec' \in [Wallets -> {"signed", "submitted", "confirmed", "failed", "reorged"}]
  <2>1. \A w \in Wallets : exec'[w] = IF New(w) = <<>> THEN exec[w] ELSE Target(w, New(w)[Len(New(w))])
    BY DEF Apply
  <2>2. \A w \in Wallets : exec'[w] \in {"signed", "submitted", "confirmed", "failed", "reorged"}
    BY <2>1, TargetType DEF L2Inv, Safety, TypeOK
  <2>3. exec' = [w \in Wallets |-> exec'[w]]
    BY DEF Apply
  <2> QED
    BY <2>2, <2>3
<1>2. receipts' \in [Wallets -> SUBSET Receipt]
  <2>1. \A w \in Wallets : {New(w)[i] : i \in DOMAIN New(w)} \subseteq Receipt
    BY NewIsFact, FactIsProven
  <2> QED
    BY <2>1 DEF Apply, L2Inv, Safety, TypeOK
<1>3. resv' \in [Wallets -> {"reserved", "settled"}]
  BY DEF Apply, L2Inv, Safety, TypeOK
<1>4. paid' \in [Wallets -> Nat]
  BY PaysFinal DEF Apply, L2Inv, Safety, TypeOK
<1>5. run' \in {"Active", "Aborted", "Completed", "Failed"}
  BY DEF Apply, RunAfter, L2Inv, Safety, TypeOK
<1>6. recon' \in {"none", "confirmed", "final", "reorged", "unknown"}
  BY DEF Apply, ReadBack
<1>7. pass' \in Passes
  <2>1. Reportable(receipts') \in SUBSET (Wallets \X Receipt)
    BY <1>2 DEF Reportable
  <2> QED
    BY <2>1, IdleType DEF Apply, Reporting, Passes, Idle
<1> QED
  BY <1>1, <1>2, <1>3, <1>4, <1>5, <1>6, <1>7 DEF Apply, L2Inv, Safety, TypeOK, Passes, fixed, blocks, notes

LEMMA ApplyStep ==
  ASSUME L2Inv, Apply, UNCHANGED <<fixed, blocks, enabled>>
  PROVE  L2Inv'
<1>1. TypeOK'
  BY ApplyType
<1>2. \A w \in Wallets : IsFinal(w)' = IsFinal(w) /\ at'[w] = at[w] /\ fate'[w] = fate[w]
  BY DEF fixed, blocks, IsFinal
<1>3. SettledIsFinal'
  <2> SUFFICES ASSUME NEW w \in Wallets, resv'[w] = "settled" PROVE IsFinal(w) /\ paid'[w] = at[w]
    BY <1>2 DEF SettledIsFinal
  <2>1. CASE Settling(w)
    BY <2>1, PaysFinal DEF Apply
  <2>2. CASE ~Settling(w)
    <3>1. resv[w] = "settled" /\ paid'[w] = paid[w]
      BY <2>2 DEF Apply
    <3> QED
      BY <3>1 DEF L2Inv, Safety, SettledIsFinal
  <2> QED
    BY <2>1, <2>2
<1>4. CompletedIsSettled'
  <2> SUFFICES ASSUME run' = "Completed", NEW w \in Wallets PROVE resv'[w] = "settled" /\ fate[w][at[w]].ok
    BY <1>2 DEF CompletedIsSettled
  <2>1. CASE Result = "final"
    <3>1. PICK r \in FactsOf(w) : Authorizes(r) /\ Good(w, r)
      BY <2>1, FinalCoversAll DEF Apply, Accepted
    <3>2. r.of = at[w]
      BY <3>1, FactIsProven DEF Authorizes, Proven
    <3> QED
      BY <3>1, <3>2, SettledAfter DEF Good
  <2>2. CASE Result # "final"
    <3>1. run = "Completed"
      BY <2>2 DEF Apply, RunAfter
    <3> QED
      BY <3>1 DEF Apply, L2Inv, Safety, CompletedIsSettled, Settling
  <2> QED
    BY <2>1, <2>2
<1>5. \A w \in Wallets : receipts[w] \subseteq receipts'[w]
  BY DEF Apply
<1>6. StoredIsPaid'
  <2> SUFFICES ASSUME NEW w \in Wallets, NEW r \in receipts'[w], Final(r) PROVE resv'[w] = "settled" /\ r.of = at[w]
    BY <1>2 DEF StoredIsPaid, Final
  <2>1. CASE r \in receipts[w]
    BY <2>1 DEF Apply, Settling, L2Inv, Safety, StoredIsPaid
  <2>2. CASE r \notin receipts[w]
    <3>1. r \in FactsOf(w)
      BY <2>2, NewIsFact DEF Apply
    <3>2. Authorizes(r) /\ r.of = at[w]
      BY <3>1, FactIsProven DEF Final, Authorizes, Proven
    <3> QED
      BY <3>1, <3>2, SettledAfter
  <2> QED
    BY <2>1, <2>2
<1>7. ReportsAreTrue' /\ ToldIsStored'
  BY <1>2, <1>5 DEF Apply, notes, L2Inv, Safety, ReportsAreTrue, ToldIsStored, Final
<1>8. SeenIsTrue'
  BY IdleSees, <1>2 DEF Apply, Reporting, Idle, SeenIsTrue, Proven
<1>9. ReportIsStored'
  <2>1. \A x \in Reportable(receipts') : x[2] \in receipts'[x[1]] /\ Final(x[2])
    BY DEF Reportable
  <2>2. pass'.report = Reportable(receipts')
    BY IdleType DEF Apply, Reporting, Idle
  <2> QED
    BY <2>1, <2>2 DEF ReportIsStored, Final
<1> QED
  BY <1>1, <1>3, <1>4, <1>6, <1>7, <1>8, <1>9 DEF L2Inv, Safety

-----------------------------------------------------------------------------
(* The other steps *)

LEMMA L2Starts == Init => L2Inv
<1> SUFFICES ASSUME Init PROVE L2Inv
  OBVIOUS
<1>1. \A w \in Wallets : fate[w] \in Seq(Inclusions)
  BY FatesAssumption DEF Init
<1>2. TypeOK
  <2>1. sent \in [Wallets -> SUBSET Hashes]
    BY DEF Init, Hashes
  <2>2. at \in [Wallets -> Nat] /\ included \in [Wallets -> BOOLEAN] /\ stage \in [Wallets -> Stages]
    BY DEF Init, Stages
  <2>3. exec \in [Wallets -> {"signed", "submitted", "confirmed", "failed", "reorged"}]
        /\ resv \in [Wallets -> {"reserved", "settled"}] /\ paid \in [Wallets -> Nat]
    BY DEF Init
  <2>4. receipts \in [Wallets -> SUBSET Receipt] /\ marked \in [Wallets -> SUBSET Receipt]
        /\ told \in [Wallets -> SUBSET Receipt]
    BY DEF Init
  <2>5. pass \in Passes
    BY IdleType DEF Init
  <2>6. \A w \in Wallets : at[w] <= Len(fate[w])
    <3> SUFFICES ASSUME NEW w \in Wallets PROVE at[w] <= Len(fate[w])
      OBVIOUS
    <3>1. at[w] = 0
      BY DEF Init
    <3>2. Len(fate[w]) \in Nat
      BY <1>1
    <3> QED
      BY <3>1, <3>2
  <2>7. faults \in 0 .. MaxFaults /\ enabled \in BOOLEAN /\ fate \in [Wallets -> Fates]
        /\ chainId \in {"base", "robinhood"} /\ liar \in {"none", "primary", "fallback"}
        /\ run \in {"Active", "Aborted", "Completed", "Failed"}
        /\ recon \in {"none", "confirmed", "final", "reorged", "unknown"}
    BY FatesAssumption DEF Init
  <2> QED
    BY <2>1, <2>2, <2>3, <2>4, <2>5, <2>6, <2>7 DEF TypeOK, Passes
<1>3. SettledIsFinal /\ CompletedIsSettled /\ ReportsAreTrue /\ StoredIsPaid
  BY DEF Init, SettledIsFinal, CompletedIsSettled, ReportsAreTrue, StoredIsPaid
<1>4. SeenIsTrue /\ ReportIsStored /\ ToldIsStored
  BY IdleType, IdleSees DEF Init, SeenIsTrue, ReportIsStored, ToldIsStored
<1> QED
  BY <1>2, <1>3, <1>4 DEF L2Inv, Safety

\* The chain moves on, and nothing of the store or the pass does.
LEMMA ChainKeeps ==
  ASSUME L2Inv, ChainMoves, UNCHANGED <<fixed, enabled, money, notes, pass>>, faults' \in 0 .. MaxFaults
  PROVE  L2Inv'
<1>1. TypeOK'
  BY SMTT(30) DEF L2Inv, Safety, TypeOK, ChainMoves, fixed, money, notes
<1>2. \A w \in Wallets : IsFinal(w) => IsFinal(w)' /\ at'[w] = at[w] /\ fate'[w] = fate[w]
  BY DEF ChainMoves, fixed
<1>3. SettledIsFinal' /\ CompletedIsSettled' /\ StoredIsPaid'
  BY <1>2 DEF L2Inv, Safety, SettledIsFinal, CompletedIsSettled, StoredIsPaid, Final, money
<1>4. ReportsAreTrue'
  BY <1>2 DEF L2Inv, Safety, ReportsAreTrue, Final, notes
<1>5. SeenIsTrue' /\ ReportIsStored' /\ ToldIsStored'
  BY <1>2 DEF L2Inv, SeenIsTrue, Proven, ReportIsStored, ToldIsStored, Final, money, notes
<1> QED
  BY <1>1, <1>3, <1>4, <1>5 DEF L2Inv, Safety

\* The pass moves on, and nothing of the store does.
LEMMA PassKeeps ==
  ASSUME L2Inv, UNCHANGED <<fixed, blocks, money, notes>>, enabled' \in BOOLEAN, faults' \in 0 .. MaxFaults,
         pass' \in Passes, \A a \in Wallets \X Hashes : Proven(a[1], pass'.seen[a]), pass'.report \subseteq pass.report
  PROVE  L2Inv'
<1>1. TypeOK'
  BY DEF L2Inv, Safety, TypeOK, Passes, fixed, blocks, money, notes
<1>2. \A w \in Wallets : IsFinal(w)' = IsFinal(w) /\ at'[w] = at[w]
  BY DEF blocks, IsFinal
<1>3. SettledIsFinal' /\ CompletedIsSettled' /\ ReportsAreTrue' /\ StoredIsPaid'
  BY <1>2 DEF L2Inv, Safety, SettledIsFinal, CompletedIsSettled, ReportsAreTrue, StoredIsPaid, Final, fixed, blocks, money, notes
<1>4. SeenIsTrue'
  BY <1>2 DEF SeenIsTrue, Proven
<1>5. ReportIsStored' /\ ToldIsStored'
  BY DEF L2Inv, ReportIsStored, ToldIsStored, Final, money, notes
<1> QED
  BY <1>1, <1>3, <1>4, <1>5 DEF L2Inv, Safety

LEMMA ReportStep ==
  ASSUME L2Inv, NEW x \in pass.report, Report(x), UNCHANGED <<fixed, blocks, enabled>>
  PROVE  L2Inv'
<1> DEFINE w == x[1]
           r == x[2]
<1>1. TypeOK /\ pass \in Passes
  BY DEF L2Inv, Safety, TypeOK, Passes
<1>2. x \in Wallets \X Receipt
  BY <1>1 DEF Passes
<1>3. w \in Wallets /\ r \in Receipt /\ r \in receipts[w] /\ Final(r)
  BY <1>2 DEF L2Inv, ReportIsStored
<1>4. /\ told' \in [Wallets -> SUBSET Receipt] /\ marked' \in [Wallets -> SUBSET Receipt]
      /\ \A v \in Wallets : \A s \in told'[v] : s \in told[v] \/ (v = w /\ s = r)
      /\ \A v \in Wallets : marked'[v] \subseteq told'[v]
  <2> DEFINE toldMore == [told EXCEPT ![w] = @ \cup {r}]
             markedMore == [marked EXCEPT ![w] = @ \cup {r}]
  <2>1. told \in [Wallets -> SUBSET Receipt] /\ marked \in [Wallets -> SUBSET Receipt]
        /\ \A v \in Wallets : marked[v] \subseteq told[v]
    BY <1>1 DEF TypeOK, L2Inv, Safety, ReportsAreTrue
  <2>2. toldMore \in [Wallets -> SUBSET Receipt] /\ markedMore \in [Wallets -> SUBSET Receipt]
    BY <1>3, <2>1
  <2>3. \A v \in Wallets : toldMore[v] = (IF v = w THEN told[v] \cup {r} ELSE told[v])
                          /\ markedMore[v] = (IF v = w THEN marked[v] \cup {r} ELSE marked[v])
    BY <2>1
  <2>4. told' \in {told, toldMore} /\ (marked' = marked \/ (marked' = markedMore /\ told' = toldMore))
    BY DEF Report, notes
  <2> HIDE DEF toldMore, markedMore
  <2> QED
    BY <2>1, <2>2, <2>3, <2>4
<1>5. pass' \in Passes /\ (\A a \in Wallets \X Hashes : Proven(a[1], pass'.seen[a])) /\ pass'.report \subseteq pass.report
  <2> DEFINE left == pass.report \ {x}
  <2>1. left \in SUBSET (Wallets \X Receipt)
    BY <1>1 DEF Passes
  <2>2. pass' = Idle \/ pass' = [Idle EXCEPT !.pc = "report", !.report = left]
    BY DEF Report, Reporting
  <2>3. pass' \in Passes /\ pass'.seen = Idle.seen /\ pass'.report \subseteq left
    BY <2>1, <2>2, IdleType DEF Passes, Idle
  <2> QED
    BY <2>3, IdleSees
<1>6. faults' \in 0 .. MaxFaults
  BY <1>1, FatesAssumption DEF Report, Fault, Charge, TypeOK
<1>7. TypeOK'
  BY <1>1, <1>4, <1>5, <1>6 DEF TypeOK, Passes, Report, fixed, blocks, money
<1>8. \A v \in Wallets : IsFinal(v)' = IsFinal(v) /\ at'[v] = at[v]
  BY DEF blocks, IsFinal
<1>9. ToldIsStored'
  BY <1>3, <1>4 DEF L2Inv, ToldIsStored, Final, Report, money
<1>10. StoredIsPaid' /\ SettledIsFinal' /\ CompletedIsSettled'
  BY <1>8 DEF L2Inv, Safety, SettledIsFinal, CompletedIsSettled, StoredIsPaid, Final, Report, money, fixed, blocks
<1>11. ReportsAreTrue'
  BY <1>4, <1>8, <1>9, <1>10 DEF ReportsAreTrue, ToldIsStored, StoredIsPaid, SettledIsFinal, Final
<1>12. SeenIsTrue' /\ ReportIsStored'
  BY <1>5, <1>8 DEF L2Inv, SeenIsTrue, Proven, ReportIsStored, Final, Report, money
<1> QED
  BY <1>7, <1>9, <1>10, <1>11, <1>12 DEF L2Inv, Safety

LEMMA L2Step == L2Inv /\ [Next]_vars => L2Inv'
<1> SUFFICES ASSUME L2Inv, [Next]_vars PROVE L2Inv'
  OBVIOUS
<1>1. TypeOK /\ pass \in Passes /\ SeenIsTrue
  BY DEF L2Inv, Safety, TypeOK, Passes
<1>2. ASSUME NEW n \in {0, 1}, Charge(n) PROVE faults' \in 0 .. MaxFaults
  BY <1>1, <1>2, FatesAssumption DEF Charge, TypeOK
<1>3. ASSUME NEW w \in Wallets, Mine(w) \/ Advance(w) \/ Orphan(w) PROVE L2Inv'
  <2>1. faults' \in 0 .. MaxFaults
    BY <1>1, <1>2, <1>3 DEF Mine, Advance, Orphan, Fault, TypeOK
  <2>2. UNCHANGED <<fixed, enabled, money, notes, pass>>
    BY <1>3 DEF Mine, Advance, Orphan
  <2> QED
    BY <1>1, <1>3, <2>1, <2>2, ChainStep, ChainKeeps
<1>4. CASE Revoke \/ Enable
  BY <1>1, <1>2, <1>4, PassKeeps DEF Revoke, Enable, Fault, TypeOK, SeenIsTrue
<1>5. CASE Kill
  <2>1. TypeOK'
    BY <1>1, <1>2, <1>5 DEF Kill, Fault, TypeOK, fixed, blocks, notes
  <2>2. \A w \in Wallets : IsFinal(w)' = IsFinal(w) /\ at'[w] = at[w]
    BY <1>5 DEF Kill, blocks, IsFinal
  <2>3. SettledIsFinal' /\ CompletedIsSettled' /\ ReportsAreTrue' /\ StoredIsPaid'
    BY <1>5, <2>2 DEF Kill, L2Inv, Safety, SettledIsFinal, CompletedIsSettled, ReportsAreTrue, StoredIsPaid, Final, fixed, blocks, notes
  <2>4. SeenIsTrue' /\ ReportIsStored' /\ ToldIsStored'
    BY <1>5, <2>2 DEF Kill, L2Inv, SeenIsTrue, Proven, ReportIsStored, ToldIsStored, Final, notes
  <2> QED
    BY <2>1, <2>3, <2>4 DEF L2Inv, Safety
<1>6. CASE Crash
  BY <1>1, <1>2, <1>6, IdleType, IdleSees, PassKeeps DEF Crash, Fault, TypeOK
<1>7. CASE Reconcile
  <2>1. UNCHANGED <<fixed, blocks, enabled>> /\ enabled' \in BOOLEAN
    BY <1>1, <1>7 DEF Reconcile, TypeOK
  <2>2. CASE StartPass
    <3>1. Attempts \subseteq Wallets \X Hashes
      BY DEF Attempts
    <3>2. pass' \in Passes /\ pass'.seen = Idle.seen /\ pass'.report = {}
      BY <2>2, <3>1, IdleType DEF StartPass, Passes, Idle
    <3> QED
      BY <1>1, <2>1, <2>2, <3>2, IdleSees, PassKeeps DEF StartPass, TypeOK
  <2>3. CASE Apply
    BY <2>1, <2>3, ApplyStep
  <2>4. CASE ApplyThrows
    BY <1>1, <2>1, <2>4, IdleType, IdleSees, PassKeeps DEF ApplyThrows, TypeOK
  <2>5. ASSUME NEW a \in pass.todo, ReadBase(a) \/ ReadRobinhood(a) PROVE L2Inv'
    <3>1. UNCHANGED <<money, notes>> /\ faults' \in 0 .. MaxFaults
      BY <1>2, <2>5 DEF ReadBase, ReadRobinhood
    <3> QED
      BY <2>1, <2>5, <3>1, ReadStep, PassKeeps
  <2>6. ASSUME NEW x \in pass.report, Report(x) PROVE L2Inv'
    BY <2>1, <2>6, ReportStep
  <2> QED
    BY <1>7, <2>2, <2>3, <2>4, <2>5, <2>6 DEF Reconcile
<1>8. CASE UNCHANGED vars
  BY <1>1, <1>8, PassKeeps DEF vars, SeenIsTrue, TypeOK
<1> QED
  BY <1>3, <1>4, <1>5, <1>6, <1>7, <1>8 DEF Next

\* However far providers lag or one of Base's two lies, whatever is reorganised, revoked, killed
\* or crashes: money is settled, a run completes and the owner is told only on what is final on
\* Ethereum, and a final receipt is stored only with its payment (coordinator.ts reconcileOnce).
THEOREM SettlesOnlyFinal == Spec => []Safety
<1>1. L2Inv => Safety
  BY DEF L2Inv
<1> QED
  BY <1>1, L2Starts, L2Step, PTL DEF Spec

-----------------------------------------------------------------------------
(* The block scan and the notices                                          *)

\* A first scan and a first cursor come together, and no cursor is ahead of the chain.
CursorOnChain == (cursor = -1 <=> first = -1) /\ cursor <= head
\* A tick works from the cursor on, to the head it began with; a jump is in the journal.
TickFollows ==
  /\ disc.pc # "idle" => mem.restored /\ disc.head <= head
  /\ disc.pc = "skip" => cursor # -1 /\ disc.from <= disc.head /\ \E s \in skips : s.range = <<cursor + 1, disc.from - 1>>
  /\ disc.pc \in {"scan", "emit", "raise"} => disc.from >= 1 /\ (IF cursor = -1 THEN disc.from <= disc.head ELSE disc.from = cursor + 1)
  /\ disc.pc \in {"emit", "raise"} => disc.from - 1 <= disc.to /\ disc.to <= disc.head
\* What was seen is tracked, and what counts as written was written or in the transaction that failed.
SeenIsTracked ==
  /\ ~mem.restored => mem.seen = {}
  /\ \A b \in mem.seen : Mint[b] # NoMint /\ Mint[b] \in mem.tracked
EmittedIsStored ==
  /\ mem.emitted \subseteq events \union unstored
  /\ disc.pc = "raise" => mem.tracked \subseteq mem.emitted
\* The blocks that the tick has in hand.
InHandIsTracked ==
  disc.pc \in {"emit", "raise"} => \A b \in disc.from .. disc.to : Mint[b] # NoMint => Mint[b] \in mem.tracked
\* Only ranges in the journal wait for a notice.
WaitingIsStored == mem.pending \subseteq Keys(skips) /\ disc.skipped \subseteq Keys(skips)
\* A plan names stored ranges, none of them younger than the plan.
PlansAreOfSkips == \A p \in plans : \A r \in p.keys : \E s \in skips : s.range = r /\ s.age >= p.age
\* Each notice was planned.
AlertsArePlanned == \A a \in alerts : \E p \in plans : p.keys = a
\* What is about to be announced was never announced.
PlannedIsNew ==
  ann.pc = "planned" =>
    /\ ann.keys # {} /\ (\E p \in plans : p.keys = ann.keys)
    /\ \A a \in alerts : a \intersect ann.keys = {}
\* Once the journal was read, what was announced is known to be, or too old to be announced again.
AnnouncedIsKnown ==
  mem.sinceRead < Interval =>
    \A a \in alerts : \A r \in a : r \in mem.covered \/ \E s \in skips : s.range = r /\ TooOld(s.age)

\* The inductive invariant of the scan: its two halves, what was read and what was announced.
ReadHalf == CursorIsBacked /\ CursorOnChain /\ TickFollows /\ SeenIsTracked /\ EmittedIsStored /\ InHandIsTracked
NoticeHalf == EachSkipOnce /\ WaitingIsStored /\ PlansAreOfSkips /\ AlertsArePlanned /\ PlannedIsNew /\ AnnouncedIsKnown
ScanInv == ScanTypeOK /\ ReadHalf /\ NoticeHalf

\* The types of the process's memory and of a tick.
Memories == [restored : BOOLEAN, tracked : SUBSET Contracts, emitted : SUBSET Contracts,
             seen : SUBSET (1 .. MaxBlock), pending : SUBSET Ranges, covered : SUBSET Ranges,
             sinceNotice : 0 .. Interval, sinceRead : 0 .. Interval]
Ticks == [pc : {"idle", "skip", "scan", "emit", "raise", "done"}, from : 0 .. MaxBlock + 1,
          head : 0 .. MaxBlock, to : 0 .. MaxBlock, scans : 0 .. MaxScans, skipped : SUBSET Ranges]

\* The parts of the types.
LEMMA ScanTypes ==
  ASSUME ScanTypeOK
  PROVE  /\ head \in 1 .. MaxBlock /\ cursor \in -1 .. MaxBlock /\ first \in -1 .. MaxBlock
         /\ mem \in Memories /\ disc \in Ticks
         /\ mem.pending \subseteq Ranges /\ mem.covered \subseteq Ranges /\ disc.skipped \subseteq Ranges
         /\ skips \subseteq [range : Ranges, age : 0 .. Horizon + 1]
         /\ plans \subseteq [keys : SUBSET Ranges, age : 0 .. Horizon + 1]
         /\ ann \in [pc : {"idle", "planned", "alerted"}, keys : SUBSET Ranges]
<1>1. mem \in Memories /\ disc \in Ticks
  BY DEF ScanTypeOK, Memories, Ticks
<1> QED BY <1>1 DEF ScanTypeOK, Memories, Ticks

\* The constants.
LEMMA ScanConstants ==
  /\ MaxBlock \in Nat /\ Lookback \in Nat /\ MaxLag \in Nat /\ MaxScans \in Nat /\ MaxRange \in Nat /\ Interval \in Nat
  /\ Horizon \in Nat /\ Faults \in Nat
  /\ MaxBlock > 0 /\ Lookback > 0 /\ MaxScans > 0 /\ Interval > 0 /\ Horizon > 0
  /\ Hot \subseteq Contracts /\ Mint \in [1 .. MaxBlock -> Contracts \union {NoMint}]
BY DiscoveryAssumption

\* Skipped ranges stay in the journal and grow older.
SkipsKept == \A s \in skips : \E t \in skips' : t.range = s.range /\ t.age >= s.age

\* While the scan rests, what it relies on stays.
LEMMA ReadHalfStays ==
  ASSUME ScanInv, ScanTypeOK', SkipsKept, head <= head', UNCHANGED <<cursor, first, events, unstored, disc>>,
         mem'.restored = mem.restored, mem'.seen = mem.seen, mem'.tracked = mem.tracked, mem'.emitted = mem.emitted
  PROVE  ReadHalf'
<1>1. CursorIsBacked'
  BY DEF ScanInv, ReadHalf, CursorIsBacked, Accounted, SkipsKept
<1>2. CursorOnChain'
  BY ScanConstants DEF ScanInv, ScanTypeOK, ReadHalf, CursorOnChain
<1>3. TickFollows'
  <2>0. head \in Int /\ head' \in Int /\ disc.head \in Int
    BY ScanConstants DEF ScanInv, ScanTypeOK
  <2>1. disc'.pc # "idle" => mem'.restored /\ disc'.head <= head'
    BY <2>0 DEF ScanInv, ReadHalf, TickFollows
  <2>2. disc'.pc = "skip" => cursor' # -1 /\ disc'.from <= disc'.head /\ \E s \in skips' : s.range = <<cursor' + 1, disc'.from - 1>>
    BY DEF ScanInv, ReadHalf, TickFollows, SkipsKept
  <2> QED BY <2>1, <2>2 DEF ScanInv, ReadHalf, TickFollows
<1>4. (SeenIsTracked /\ EmittedIsStored /\ InHandIsTracked)'
  BY DEF ScanInv, ReadHalf, SeenIsTracked, EmittedIsStored, InHandIsTracked
<1> QED BY <1>1, <1>2, <1>3, <1>4 DEF ReadHalf

\* While the notices rest, what they rely on stays.
LEMMA NoticeHalfStays ==
  ASSUME ScanInv, skips \subseteq skips', UNCHANGED <<plans, alerts, ann>>,
         mem'.covered = mem.covered, mem'.sinceRead = mem.sinceRead,
         mem'.pending \subseteq Keys(skips'), disc'.skipped \subseteq Keys(skips')
  PROVE  NoticeHalf'
<1>1. (EachSkipOnce /\ AlertsArePlanned /\ PlannedIsNew)'
  BY DEF ScanInv, NoticeHalf, EachSkipOnce, AlertsArePlanned, PlannedIsNew
<1>2. WaitingIsStored'
  BY DEF WaitingIsStored, Keys
<1>3. PlansAreOfSkips'
  BY DEF ScanInv, NoticeHalf, PlansAreOfSkips
<1>4. AnnouncedIsKnown'
  BY DEF ScanInv, NoticeHalf, AnnouncedIsKnown, TooOld
<1> QED BY <1>1, <1>2, <1>3, <1>4 DEF NoticeHalf

\* What waits is stored under a journal that only grows.
LEMMA KeysGrow ==
  ASSUME NEW S, NEW T, S \subseteq T
  PROVE  Keys(S) \subseteq Keys(T)
BY DEF Keys

\* What a restart reads back.
LEMMA RestoredIs ==
  ASSUME ScanInv
  PROVE  /\ Restored \in Memories /\ Restored.restored /\ Restored.emitted \subseteq Restored.tracked
         /\ Restored.seen = mem.seen /\ Restored.pending = mem.pending /\ Restored.covered = mem.covered
         /\ Restored.sinceRead = mem.sinceRead /\ Restored.emitted \subseteq events \union unstored
         /\ \A b \in Restored.seen : Mint[b] # NoMint /\ Mint[b] \in Restored.tracked
<1>1. mem \in Memories /\ mem.emitted \subseteq mem.tracked /\ events \ Hot \in SUBSET Contracts
  BY ScanTypes DEF ScanInv, ScanTypeOK
<1>2. CASE mem.restored
  BY <1>1, <1>2 DEF Restored, ScanInv, ReadHalf, SeenIsTracked, EmittedIsStored
<1>3. CASE ~mem.restored
  <2> DEFINE e == events \ Hot
             m1 == [mem EXCEPT !.restored = TRUE]
             m2 == [m1 EXCEPT !.tracked = e]
             m3 == [m2 EXCEPT !.emitted = e]
  <2>1. Restored = m3
    BY <1>3, Zenon DEF Restored
  <2>2. m1 \in Memories /\ m1.restored /\ m1.seen = mem.seen /\ m1.pending = mem.pending /\ m1.covered = mem.covered /\ m1.sinceRead = mem.sinceRead
    BY <1>1 DEF Memories
  <2> HIDE DEF m1
  <2>3. e \in SUBSET Contracts
    BY <1>1
  <2> HIDE DEF e
  <2>4. m2 \in Memories /\ m2.restored /\ m2.seen = mem.seen /\ m2.pending = mem.pending /\ m2.covered = mem.covered /\ m2.sinceRead = mem.sinceRead
        /\ m2.tracked = e
    BY <2>2, <2>3 DEF Memories
  <2> HIDE DEF m2
  <2>5. m3 \in Memories /\ m3.restored /\ m3.seen = mem.seen /\ m3.pending = mem.pending /\ m3.covered = mem.covered /\ m3.sinceRead = mem.sinceRead
        /\ m3.tracked = e /\ m3.emitted = e
    BY <2>4, <2>3 DEF Memories
  <2> HIDE DEF m3
  <2>6. mem.seen = {}
    BY <1>3 DEF ScanInv, ReadHalf, SeenIsTracked
  <2>7. e \subseteq events
    BY DEF e
  <2> QED BY <2>1, <2>5, <2>6, <2>7
<1> QED BY <1>2, <1>3

LEMMA ScanStarts ==
  ASSUME ScanInit
  PROVE  ScanInv
<1>1. Blank \in Memories /\ NoTick \in Ticks /\ NoPass \in [pc : {"idle", "planned", "alerted"}, keys : SUBSET Ranges]
  BY ScanConstants DEF Blank, NoTick, NoPass, Memories, Ticks
<1>2. ScanTypeOK
  <2>1. mem.emitted \subseteq mem.tracked
    BY DEF ScanInit, Blank
  <2>2. mem \in Memories /\ disc \in Ticks /\ ann \in [pc : {"idle", "planned", "alerted"}, keys : SUBSET Ranges]
    BY <1>1 DEF ScanInit
  <2>3. 1 \in 1 .. MaxBlock /\ -1 \in -1 .. MaxBlock /\ 0 \in 0 .. Faults
    BY ScanConstants
  <2> QED BY <2>1, <2>2, <2>3 DEF ScanInit, ScanTypeOK, Memories, Ticks
<1>3. ReadHalf
  BY ScanConstants DEF ScanInit, Blank, NoTick, ReadHalf, CursorIsBacked, CursorOnChain, TickFollows, SeenIsTracked, EmittedIsStored, InHandIsTracked
<1>4. NoticeHalf
  BY ScanConstants DEF ScanInit, Blank, NoTick, NoPass, NoticeHalf, EachSkipOnce, WaitingIsStored, PlansAreOfSkips, AlertsArePlanned, PlannedIsNew, AnnouncedIsKnown, Keys
<1> QED BY <1>2, <1>3, <1>4 DEF ScanInv

\* Where a tick begins.
LEMMA FromIs ==
  ASSUME ScanInv
  PROVE  /\ From \in 1 .. MaxBlock + 1 /\ From <= head + 1
         /\ (cursor # -1 => From = cursor + 1) /\ (cursor = -1 => From <= head)
<1>1. head \in 1 .. MaxBlock /\ cursor \in -1 .. MaxBlock /\ cursor <= head
  BY ScanTypes DEF ScanInv, ReadHalf, CursorOnChain
<1> QED BY <1>1, ScanConstants DEF From

\* A tick in its record, one field at a time.
LEMMA TickIs ==
  ASSUME NEW c \in {"idle", "skip", "scan", "emit", "raise", "done"}, NEW f \in 0 .. MaxBlock + 1, NEW h \in 0 .. MaxBlock,
         NEW t \in 0 .. MaxBlock, NEW S \in SUBSET Ranges, NEW n \in 0 .. MaxScans
  PROVE  [pc |-> c, from |-> f, head |-> h, to |-> t, scans |-> n, skipped |-> S] \in Ticks
BY DEF Ticks

\* The scan is too far behind: it stores the range it leaves out, and jumps.
LEMMA JumpKeeps ==
  ASSUME ScanInv, Jump
  PROVE  ScanInv'
<1> DEFINE r == <<From, Resume - 1>>
<1>1. head \in 1 .. MaxBlock /\ cursor \in 0 .. MaxBlock /\ cursor # -1 /\ cursor <= head /\ disc.pc = "idle"
  BY ScanTypes, ScanConstants DEF Jump, Behind, ScanInv, ReadHalf, CursorOnChain
<1>2. Resume \in 1 .. MaxBlock /\ Resume > From /\ Resume <= head /\ From = cursor + 1
  BY <1>1, ScanConstants DEF Jump, Behind, From, Resume
<1>3. r \in Ranges /\ r[1] = From /\ r[2] = Resume - 1
  BY <1>1, <1>2, ScanConstants DEF Ranges
<1> HIDE DEF r
<1>4. disc' = [pc |-> "skip", from |-> Resume, head |-> head, to |-> 0, scans |-> 0, skipped |-> {r}]
  BY DEF Jump, NoTick, r
<1>5. disc' \in Ticks
  <2>1. 0 \in 0 .. MaxBlock /\ 0 \in 0 .. MaxScans /\ Resume \in 0 .. MaxBlock + 1 /\ head \in 0 .. MaxBlock /\ {r} \in SUBSET Ranges
    BY <1>1, <1>2, <1>3, ScanConstants
  <2> QED BY <1>4, <2>1, TickIs
<1>6. skips' = skips \union {[range |-> r, age |-> 0]} /\ mem' = Restored
      /\ UNCHANGED <<head, cursor, first, events, alerted, plans, alerts, notices, ann, mishaps, unstored>>
  BY DEF Jump, r, found
<1>7. ScanTypeOK'
  <2>1. skips' \subseteq [range : Ranges, age : 0 .. Horizon + 1]
    BY <1>3, <1>6, ScanTypes, ScanConstants DEF ScanInv
  <2>2. mem' \in Memories /\ mem'.emitted \subseteq mem'.tracked
    BY <1>6, RestoredIs
  <2> QED BY <1>5, <1>6, <2>1, <2>2 DEF ScanInv, ScanTypeOK, Memories, Ticks
<1>8. ReadHalf'
  <2>1. CursorIsBacked'
    BY <1>6 DEF ScanInv, ReadHalf, CursorIsBacked, Accounted
  <2>2. CursorOnChain'
    BY <1>6 DEF ScanInv, ReadHalf, CursorOnChain
  <2>3. TickFollows'
    <3> DEFINE s == [range |-> r, age |-> 0]
    <3>1. s \in skips' /\ s.range = r
      BY <1>6
    <3>2. r = <<cursor' + 1, disc'.from - 1>>
      BY <1>2, <1>4, <1>6 DEF r
    <3>3. \E x \in skips' : x.range = <<cursor' + 1, disc'.from - 1>>
      BY <3>1, <3>2, Zenon
    <3> HIDE DEF s
    <3> QED BY <1>1, <1>2, <1>4, <1>6, <3>3, RestoredIs DEF TickFollows
  <2>4. (SeenIsTracked /\ EmittedIsStored /\ InHandIsTracked)'
    BY <1>4, <1>6, RestoredIs DEF SeenIsTracked, EmittedIsStored, InHandIsTracked
  <2> QED BY <2>1, <2>2, <2>3, <2>4 DEF ReadHalf
<1>9. NoticeHalf'
  <2>1. mem'.pending \subseteq Keys(skips') /\ disc'.skipped \subseteq Keys(skips')
    <3> DEFINE s == [range |-> r, age |-> 0]
    <3>1. s \in skips' /\ s.range = r /\ skips \subseteq skips'
      BY <1>6
    <3>2. Keys(skips) \subseteq Keys(skips')
      BY <3>1, KeysGrow
    <3>3. r \in Keys(skips')
      BY <3>1, Zenon DEF Keys
    <3> QED BY <1>4, <1>6, <3>2, <3>3, RestoredIs DEF ScanInv, NoticeHalf, WaitingIsStored
  <2> QED BY <1>6, <2>1, RestoredIs, NoticeHalfStays
<1> QED BY <1>7, <1>8, <1>9 DEF ScanInv

LEMMA JumpCursorKeeps ==
  ASSUME ScanInv, JumpCursor
  PROVE  ScanInv'
<1>1. disc.pc = "skip" /\ head \in 1 .. MaxBlock /\ cursor \in 0 .. MaxBlock /\ disc \in Ticks /\ disc.head <= head
      /\ disc.from <= disc.head /\ disc.from \in 0 .. MaxBlock + 1 /\ disc.head \in 0 .. MaxBlock
  <2>1. disc.pc = "skip" /\ head \in 1 .. MaxBlock /\ cursor \in -1 .. MaxBlock /\ disc \in Ticks
    BY ScanTypes DEF JumpCursor, ScanInv
  <2>2. cursor # -1 /\ disc.head <= head /\ disc.from <= disc.head
    BY <2>1 DEF ScanInv, ReadHalf, TickFollows
  <2> QED BY <2>1, <2>2, ScanConstants DEF Ticks
<1>2. PICK s \in skips : s.range = <<cursor + 1, disc.from - 1>>
  BY <1>1 DEF ScanInv, ReadHalf, TickFollows
<1>3. cursor + 1 <= disc.from - 1 /\ disc.from - 1 \in 1 .. MaxBlock
  <2>1. s.range \in Ranges
    BY ScanTypes DEF ScanInv
  <2> QED BY <1>1, <1>2, <2>1 DEF Ranges
<1>4. cursor' = disc.from - 1
      /\ UNCHANGED <<head, first, events, alerted, skips, plans, alerts, notices, mem, ann, mishaps, unstored>>
  BY DEF JumpCursor, found, journal
<1>5. disc' \in Ticks /\ disc'.pc = "scan" /\ disc'.from = disc.from /\ disc'.head = disc.head /\ disc'.skipped = disc.skipped
  BY <1>1 DEF JumpCursor, Ticks
<1>6. ScanTypeOK'
  <2>1. cursor' \in -1 .. MaxBlock
    BY <1>3, <1>4
  <2> QED BY <1>4, <1>5, <2>1 DEF ScanInv, ScanTypeOK, Ticks
<1>7. CursorIsBacked'
  <2> SUFFICES ASSUME NEW b \in 1 .. cursor' PROVE (Accounted(b) \/ Mint[b] \in unstored)'
    BY DEF CursorIsBacked
  <2>1. CASE b <= cursor
    BY <1>1, <1>4, <2>1 DEF ScanInv, ReadHalf, CursorIsBacked, Accounted
  <2>2. CASE b > cursor
    <3>1. s.range[1] <= b /\ b <= s.range[2]
      BY <1>1, <1>2, <1>3, <1>4, <2>2
    <3> QED BY <1>4, <3>1 DEF Accounted
  <2> QED BY <1>1, <1>3, <1>4, <2>1, <2>2
<1>8. (CursorOnChain /\ TickFollows)'
  BY <1>1, <1>3, <1>4, <1>5 DEF ScanInv, ReadHalf, CursorOnChain, TickFollows
<1>9. (SeenIsTracked /\ EmittedIsStored /\ InHandIsTracked)'
  BY <1>4, <1>5 DEF ScanInv, ReadHalf, SeenIsTracked, EmittedIsStored, InHandIsTracked
<1>10. NoticeHalf'
  <2>1. mem'.pending \subseteq Keys(skips') /\ disc'.skipped \subseteq Keys(skips')
    BY <1>4, <1>5 DEF ScanInv, NoticeHalf, WaitingIsStored
  <2> QED BY <1>4, <2>1, NoticeHalfStays
<1> QED BY <1>6, <1>7, <1>8, <1>9, <1>10 DEF ScanInv, ReadHalf

LEMMA TickBeginKeeps ==
  ASSUME ScanInv, TickBegin
  PROVE  ScanInv'
<1>1. head \in 1 .. MaxBlock /\ cursor \in -1 .. MaxBlock /\ cursor <= head /\ disc.pc = "idle"
  BY ScanTypes DEF TickBegin, ScanInv, ReadHalf, CursorOnChain
<1> DEFINE c == IF From > head THEN "emit" ELSE "scan"
<1>2. disc' = [pc |-> c, from |-> From, head |-> head, to |-> head, scans |-> 0, skipped |-> {}]
  BY DEF TickBegin, NoTick
<1>3. c \in {"emit", "scan"} /\ (c = "emit" => From = head + 1)
  BY <1>1, FromIs
<1> HIDE DEF c
<1>4. disc' \in Ticks
  <2>1. 0 \in 0 .. MaxScans /\ From \in 0 .. MaxBlock + 1 /\ head \in 0 .. MaxBlock
    BY <1>1, FromIs, ScanConstants
  <2> QED BY <1>2, <1>3, <2>1, TickIs
<1>5. mem' = Restored /\ UNCHANGED <<head, cursor, first, events, alerted, skips, plans, alerts, notices, ann, mishaps, unstored>>
  BY DEF TickBegin, found, journal
<1>6. ScanTypeOK'
  <2>1. mem' \in Memories /\ mem'.emitted \subseteq mem'.tracked
    BY <1>5, RestoredIs
  <2> QED BY <1>4, <1>5, <2>1 DEF ScanInv, ScanTypeOK, Memories, Ticks
<1>7. ReadHalf'
  <2>1. (CursorIsBacked /\ CursorOnChain)'
    BY <1>5 DEF ScanInv, ReadHalf, CursorIsBacked, Accounted, CursorOnChain
  <2>2. TickFollows'
    BY <1>1, <1>2, <1>3, <1>5, FromIs, RestoredIs DEF TickFollows
  <2>3. (SeenIsTracked /\ EmittedIsStored)'
    BY <1>2, <1>3, <1>5, RestoredIs DEF SeenIsTracked, EmittedIsStored
  <2>4. InHandIsTracked'
    <3>1. disc'.pc = "emit" => disc'.from = head + 1 /\ disc'.to = head
      BY <1>2, <1>3
    <3> QED BY <1>1, <1>2, <1>3, <3>1 DEF InHandIsTracked
  <2> QED BY <2>1, <2>2, <2>3, <2>4 DEF ReadHalf
<1>8. NoticeHalf'
  <2>1. mem'.pending \subseteq Keys(skips') /\ disc'.skipped \subseteq Keys(skips')
    BY <1>2, <1>5, RestoredIs DEF ScanInv, NoticeHalf, WaitingIsStored
  <2> QED BY <1>5, <2>1, RestoredIs, NoticeHalfStays
<1> QED BY <1>6, <1>7, <1>8 DEF ScanInv

\* A slice begins where the tick stands and ends at its head at the latest.
LEMMA SliceIs ==
  ASSUME ScanInv, disc.from <= disc.head, NEW to \in Answers
  PROVE  to \in disc.from .. disc.head /\ to \in 0 .. MaxBlock
<1>1. disc.from \in 0 .. MaxBlock + 1 /\ disc.head \in 0 .. MaxBlock
  BY ScanTypes DEF ScanInv, Ticks
<1>2. PICK range \in 1 .. MaxRange : to = SliceEnd(range)
  BY DEF Answers
<1>3. CASE disc.head - disc.from + 1 > range
  BY <1>1, <1>2, <1>3, ScanConstants DEF SliceEnd
<1>4. CASE ~(disc.head - disc.from + 1 > range)
  BY <1>1, <1>2, <1>4, ScanConstants DEF SliceEnd
<1> QED BY <1>3, <1>4

\* What the process knows once it has seen more mints.
LEMMA SeesMore ==
  ASSUME mem \in Memories, NEW new \in SUBSET (1 .. MaxBlock), NEW more \in SUBSET Contracts,
         mem' = [mem EXCEPT !.seen = @ \union new, !.tracked = @ \union more]
  PROVE  /\ mem' \in Memories /\ mem'.seen = mem.seen \union new /\ mem'.tracked = mem.tracked \union more
         /\ mem'.restored = mem.restored /\ mem'.emitted = mem.emitted /\ mem'.pending = mem.pending
         /\ mem'.covered = mem.covered /\ mem'.sinceRead = mem.sinceRead
<1> DEFINE s == mem.seen \union new
           t == mem.tracked \union more
           m1 == [mem EXCEPT !.seen = s]
           m2 == [m1 EXCEPT !.tracked = t]
<1>1. mem' = m2
  <2>1. m2 = [mem EXCEPT !.seen = s, !.tracked = t]
    BY DEF Memories
  <2> HIDE DEF m2
  <2> QED BY <2>1
<1>2. s \in SUBSET (1 .. MaxBlock) /\ t \in SUBSET Contracts
  BY DEF Memories
<1> HIDE DEF s, t
<1>3. m1 \in Memories /\ m1.seen = s /\ m1.tracked = mem.tracked /\ m1.restored = mem.restored /\ m1.emitted = mem.emitted
      /\ m1.pending = mem.pending /\ m1.covered = mem.covered /\ m1.sinceRead = mem.sinceRead
  BY <1>2 DEF Memories
<1> HIDE DEF m1
<1>4. m2 \in Memories /\ m2.seen = s /\ m2.tracked = t /\ m2.restored = mem.restored /\ m2.emitted = mem.emitted
      /\ m2.pending = mem.pending /\ m2.covered = mem.covered /\ m2.sinceRead = mem.sinceRead
  BY <1>2, <1>3 DEF Memories
<1> HIDE DEF m2
<1> QED BY <1>1, <1>4 DEF s, t

LEMMA ScanKeeps ==
  ASSUME ScanInv, Scan
  PROVE  ScanInv'
<1>1. PICK to \in Answers :
        LET new == MintsIn(disc.from, to) \ mem.seen IN
        /\ disc' = [disc EXCEPT !.pc = "emit", !.to = to, !.scans = @ + 1]
        /\ mem' = [mem EXCEPT !.seen = @ \union new, !.tracked = @ \union {Mint[b] : b \in new}]
  BY DEF Scan
<1> DEFINE new == MintsIn(disc.from, to) \ mem.seen
           more == {Mint[b] : b \in new}
<1>2. disc.pc = "scan" /\ disc.from <= disc.head /\ disc.scans < MaxScans /\ disc.head <= head /\ disc.from >= 1 /\ mem.restored
      /\ (IF cursor = -1 THEN disc.from <= disc.head ELSE disc.from = cursor + 1)
  BY DEF Scan, ScanInv, ReadHalf, TickFollows
<1>3. disc \in Ticks /\ mem \in Memories /\ head \in 1 .. MaxBlock /\ mem.emitted \subseteq mem.tracked
  BY ScanTypes DEF ScanInv, ScanTypeOK
<1>4. to \in disc.from .. disc.head /\ to \in 0 .. MaxBlock
  BY <1>2, SliceIs
<1>5. new \subseteq 1 .. MaxBlock /\ more \subseteq Contracts /\ (\A b \in new : Mint[b] # NoMint)
      /\ (\A b \in disc.from .. to : Mint[b] # NoMint => b \in new \/ b \in mem.seen)
  <2>1. disc.from \in Nat /\ disc.from >= 1
    BY <1>2, <1>3 DEF Ticks
  <2>2. \A b \in disc.from .. to : b \in 1 .. MaxBlock
    BY <1>4, <2>1, ScanConstants
  <2> QED BY <2>2, ScanConstants DEF MintsIn
<1>6. disc' \in Ticks /\ disc'.pc = "emit" /\ disc'.from = disc.from /\ disc'.head = disc.head /\ disc'.to = to /\ disc'.skipped = disc.skipped
  <2> DEFINE n == disc.scans + 1
  <2>1. n \in 0 .. MaxScans
    BY <1>2, <1>3, ScanConstants DEF Ticks
  <2>2. disc' = [pc |-> "emit", from |-> disc.from, head |-> disc.head, to |-> to, scans |-> n, skipped |-> disc.skipped]
    BY <1>1, <1>3 DEF Ticks
  <2> HIDE DEF n
  <2> QED BY <1>3, <1>4, <2>1, <2>2 DEF Ticks
<1>7. mem' \in Memories /\ mem'.seen = mem.seen \union new /\ mem'.tracked = mem.tracked \union more
      /\ mem'.restored = mem.restored /\ mem'.emitted = mem.emitted /\ mem'.pending = mem.pending /\ mem'.covered = mem.covered
      /\ mem'.sinceRead = mem.sinceRead
  BY <1>1, <1>3, <1>5, SeesMore
<1>8. UNCHANGED <<head, cursor, first, events, alerted, skips, plans, alerts, notices, ann, mishaps, unstored>>
  BY DEF Scan, found, journal
<1>9. \A b \in new : Mint[b] \in more
  OBVIOUS
<1> HIDE DEF new, more
<1>10. ScanTypeOK'
  <2>1. mem'.emitted \subseteq mem'.tracked
    BY <1>3, <1>7
  <2> QED BY <1>6, <1>7, <1>8, <2>1 DEF ScanInv, ScanTypeOK, Memories, Ticks
<1>11. ReadHalf'
  <2>1. (CursorIsBacked /\ CursorOnChain)'
    BY <1>8 DEF ScanInv, ReadHalf, CursorIsBacked, Accounted, CursorOnChain
  <2>2. TickFollows'
    <3>1. disc'.from - 1 <= disc'.to /\ disc'.to <= disc'.head
      BY <1>3, <1>4, <1>6 DEF Ticks
    <3> QED BY <1>2, <1>6, <1>7, <1>8, <3>1 DEF TickFollows
  <2>3. SeenIsTracked'
    BY <1>2, <1>5, <1>7, <1>9 DEF ScanInv, ReadHalf, SeenIsTracked
  <2>4. EmittedIsStored'
    BY <1>6, <1>7, <1>8 DEF ScanInv, ReadHalf, EmittedIsStored
  <2>5. InHandIsTracked'
    BY <1>5, <1>6, <1>7, <1>9 DEF ScanInv, ReadHalf, SeenIsTracked, InHandIsTracked
  <2> QED BY <2>1, <2>2, <2>3, <2>4, <2>5 DEF ReadHalf
<1>12. NoticeHalf'
  <2>1. mem'.pending \subseteq Keys(skips') /\ disc'.skipped \subseteq Keys(skips')
    BY <1>6, <1>7, <1>8 DEF ScanInv, NoticeHalf, WaitingIsStored
  <2> QED BY <1>7, <1>8, <2>1, NoticeHalfStays
<1> QED BY <1>10, <1>11, <1>12 DEF ScanInv

LEMMA NoTickIs == NoTick \in Ticks /\ NoTick.pc = "idle" /\ NoTick.skipped = {}
BY ScanConstants DEF NoTick, Ticks

\* One more mishap is within the bound.
LEMMA MishapCounts ==
  ASSUME ScanInv, StoreFails
  PROVE  mishaps' \in 0 .. Faults
<1>1. mishaps \in 0 .. Faults
  BY DEF ScanInv, ScanTypeOK
<1> QED BY <1>1, ScanConstants DEF StoreFails

\* A transaction fails half way through a slice: what was seen is tracked.
LEMMA WatchedMintKeeps ==
  ASSUME ScanInv, WatchedMintFails
  PROVE  ScanInv'
<1>1. PICK to \in disc.from .. disc.head :
        LET new == MintsIn(disc.from, to) \ mem.seen IN
        mem' = [mem EXCEPT !.seen = @ \union new, !.tracked = @ \union {Mint[b] : b \in new}]
  BY DEF WatchedMintFails
<1> DEFINE new == MintsIn(disc.from, to) \ mem.seen
           more == {Mint[b] : b \in new}
<1>2. /\ disc.pc = "scan" /\ disc.from >= 1 /\ mem.restored /\ disc' = NoTick /\ StoreFails
      /\ UNCHANGED <<head, cursor, first, events, alerted, skips, plans, alerts, notices, ann, unstored>>
  BY DEF WatchedMintFails, ScanInv, ReadHalf, TickFollows, found, journal
<1>3. disc \in Ticks /\ mem \in Memories /\ mem.emitted \subseteq mem.tracked
  BY ScanTypes DEF ScanInv, ScanTypeOK
<1>4. new \subseteq 1 .. MaxBlock /\ more \subseteq Contracts /\ (\A b \in new : Mint[b] # NoMint)
  <2>1. disc.from \in Nat /\ disc.from >= 1 /\ disc.head \in 0 .. MaxBlock
    BY <1>2, <1>3 DEF Ticks
  <2>2. \A b \in disc.from .. to : b \in 1 .. MaxBlock
    BY <2>1, ScanConstants
  <2> QED BY <2>2, ScanConstants DEF MintsIn
<1>5. \A b \in new : Mint[b] \in more
  OBVIOUS
<1>6. mem' \in Memories /\ mem'.seen = mem.seen \union new /\ mem'.tracked = mem.tracked \union more
      /\ mem'.restored = mem.restored /\ mem'.emitted = mem.emitted /\ mem'.pending = mem.pending /\ mem'.covered = mem.covered
      /\ mem'.sinceRead = mem.sinceRead
  <2>1. mem' = [mem EXCEPT !.seen = @ \union new, !.tracked = @ \union more]
    BY <1>1
  <2> HIDE DEF new, more
  <2> QED BY <1>3, <1>4, <2>1, SeesMore
<1> HIDE DEF new, more
<1>7. ScanTypeOK'
  <2>1. mem'.emitted \subseteq mem'.tracked
    BY <1>3, <1>6
  <2> QED BY <1>2, <1>6, <2>1, NoTickIs, MishapCounts DEF ScanInv, ScanTypeOK, Memories, Ticks
<1>8. ReadHalf'
  <2>1. (CursorIsBacked /\ CursorOnChain /\ TickFollows /\ InHandIsTracked)'
    BY <1>2, NoTickIs DEF ScanInv, ReadHalf, CursorIsBacked, Accounted, CursorOnChain, TickFollows, InHandIsTracked
  <2>2. (SeenIsTracked /\ EmittedIsStored)'
    BY <1>2, <1>4, <1>5, <1>6, NoTickIs DEF ScanInv, ReadHalf, SeenIsTracked, EmittedIsStored
  <2> QED BY <2>1, <2>2 DEF ReadHalf
<1>9. NoticeHalf'
  <2>1. mem'.pending \subseteq Keys(skips') /\ disc'.skipped \subseteq Keys(skips')
    BY <1>2, <1>6, NoTickIs DEF ScanInv, NoticeHalf, WaitingIsStored
  <2> QED BY <1>2, <1>6, <2>1, NoticeHalfStays
<1> QED BY <1>7, <1>8, <1>9 DEF ScanInv

\* The tick ends where it stands.
LEMMA DoneKeeps ==
  ASSUME ScanInv, disc' = [disc EXCEPT !.pc = "done"], disc.pc = "scan",
         UNCHANGED <<head, cursor, first, found, journal, mem, ann, mishaps, unstored>>
  PROVE  ScanInv'
<1>1. disc' \in Ticks /\ disc'.pc = "done" /\ disc'.head = disc.head /\ disc'.skipped = disc.skipped
  <2>1. disc \in Ticks
    BY ScanTypes DEF ScanInv
  <2> QED BY <2>1 DEF Ticks
<1>2. UNCHANGED <<head, cursor, first, events, alerted, skips, plans, alerts, notices, mem, ann, mishaps, unstored>>
  BY DEF found, journal
<1>3. ScanTypeOK'
  BY <1>1, <1>2 DEF ScanInv, ScanTypeOK, Ticks
<1>4. ReadHalf'
  BY <1>1, <1>2 DEF ScanInv, ReadHalf, CursorIsBacked, Accounted, CursorOnChain, TickFollows, SeenIsTracked, EmittedIsStored, InHandIsTracked
<1>5. NoticeHalf'
  <2>1. mem'.pending \subseteq Keys(skips') /\ disc'.skipped \subseteq Keys(skips')
    BY <1>1, <1>2 DEF ScanInv, NoticeHalf, WaitingIsStored
  <2> QED BY <1>2, <2>1, NoticeHalfStays
<1> QED BY <1>3, <1>4, <1>5 DEF ScanInv

\* Everything tracked is written, or was in a transaction that failed.
LEMMA EmitKeeps ==
  ASSUME ScanInv, EmitOpportunities
  PROVE  ScanInv'
<1>1. PICK refresh \in SUBSET mem.emitted :
        LET due == (mem.tracked \ mem.emitted) \union refresh IN
        /\ mem' = [mem EXCEPT !.emitted = @ \union due]
        /\ \/ /\ events' = events \union due
              /\ disc' = [disc EXCEPT !.pc = "raise"]
              /\ UNCHANGED <<mishaps, unstored>>
           \/ /\ due # {} /\ StoreFails
              /\ unstored' = unstored \union due
              /\ disc' = NoTick
              /\ UNCHANGED events
  <2>1. \A x \in {{}} : x \in SUBSET mem.emitted
    OBVIOUS
  <2> QED BY <2>1 DEF EmitOpportunities
<1> DEFINE due == (mem.tracked \ mem.emitted) \union refresh
           e == mem.emitted \union due
<1>2. mem \in Memories /\ disc \in Ticks /\ mem.emitted \subseteq mem.tracked /\ disc.pc = "emit" /\ mem.restored
      /\ mem.tracked \subseteq Contracts
  BY ScanTypes DEF EmitOpportunities, ScanInv, ScanTypeOK, ReadHalf, TickFollows, Memories
<1>3. due \subseteq Contracts /\ e = mem.tracked
  BY <1>2
<1>4. mem' = [mem EXCEPT !.emitted = e]
  BY <1>1
<1>5. \/ events' = events \union due /\ disc' = [disc EXCEPT !.pc = "raise"] /\ UNCHANGED <<mishaps, unstored>>
      \/ StoreFails /\ unstored' = unstored \union due /\ disc' = NoTick /\ UNCHANGED events
  BY <1>1
<1>6. UNCHANGED <<head, cursor, first, alerted, skips, plans, alerts, notices, ann>>
  BY DEF EmitOpportunities, journal
<1>7. mem.emitted \subseteq events \union unstored /\ e = mem.emitted \union due
  BY DEF ScanInv, ReadHalf, EmittedIsStored
<1> HIDE DEF due, e
<1>8. mem' \in Memories /\ mem'.emitted = mem.tracked /\ mem'.tracked = mem.tracked /\ mem'.restored = mem.restored /\ mem'.seen = mem.seen
      /\ mem'.pending = mem.pending /\ mem'.covered = mem.covered /\ mem'.sinceRead = mem.sinceRead
  BY <1>2, <1>3, <1>4 DEF Memories
<1>9. mem'.emitted \subseteq events' \union unstored' /\ events \subseteq events' /\ unstored \subseteq unstored'
  BY <1>3, <1>5, <1>7, <1>8
<1>10. /\ disc' \in Ticks /\ disc'.skipped \subseteq Keys(skips')
       /\ (disc'.pc = "raise" /\ disc'.from = disc.from /\ disc'.head = disc.head /\ disc'.to = disc.to) \/ disc'.pc = "idle"
  <2>1. disc.skipped \subseteq Keys(skips')
    BY <1>6 DEF ScanInv, NoticeHalf, WaitingIsStored
  <2>2. CASE disc' = [disc EXCEPT !.pc = "raise"]
    BY <1>2, <2>1, <2>2 DEF Ticks
  <2>3. CASE disc' = NoTick
    BY <2>3, NoTickIs
  <2> QED BY <1>5, <2>2, <2>3
<1>11. ScanTypeOK'
  <2>1. events' \subseteq Contracts /\ alerted' \subseteq events' /\ unstored' \subseteq Contracts
    BY <1>3, <1>5, <1>6 DEF ScanInv, ScanTypeOK
  <2>2. mishaps' \in 0 .. Faults
    <3>1. mishaps \in 0 .. Faults
      BY DEF ScanInv, ScanTypeOK
    <3>2. mishaps' = mishaps \/ (mishaps < Faults /\ mishaps' = mishaps + 1)
      BY <1>5 DEF StoreFails
    <3> QED BY <3>1, <3>2, ScanConstants
  <2>3. mem'.emitted \subseteq mem'.tracked
    BY <1>8
  <2> QED BY <1>6, <1>8, <1>10, <2>1, <2>2, <2>3 DEF ScanInv, ScanTypeOK, Memories, Ticks
<1>12. ReadHalf'
  <2>1. (CursorIsBacked /\ CursorOnChain)'
    BY <1>6, <1>9 DEF ScanInv, ReadHalf, CursorIsBacked, Accounted, CursorOnChain
  <2>2. (TickFollows /\ InHandIsTracked)'
    BY <1>2, <1>6, <1>8, <1>10 DEF ScanInv, ReadHalf, TickFollows, InHandIsTracked
  <2>3. (SeenIsTracked /\ EmittedIsStored)'
    BY <1>8, <1>9 DEF ScanInv, ReadHalf, SeenIsTracked, EmittedIsStored
  <2> QED BY <2>1, <2>2, <2>3 DEF ReadHalf
<1>13. NoticeHalf'
  <2>1. mem'.pending \subseteq Keys(skips')
    BY <1>6, <1>8 DEF ScanInv, NoticeHalf, WaitingIsStored
  <2> QED BY <1>6, <1>8, <1>10, <2>1, NoticeHalfStays
<1> QED BY <1>11, <1>12, <1>13 DEF ScanInv

\* The cursor moves over the blocks in hand.
LEMMA AdvanceKeeps ==
  ASSUME ScanInv, RaiseAndAdvance, UNCHANGED mishaps, cursor' = disc.to,
         first' = IF first = -1 THEN disc.from ELSE first,
         disc' = [disc EXCEPT !.pc = "scan", !.from = disc.to + 1]
  PROVE  ScanInv'
<1>1. disc.pc = "raise" /\ disc \in Ticks /\ head \in 1 .. MaxBlock /\ cursor \in -1 .. MaxBlock /\ first \in -1 .. MaxBlock /\ mem \in Memories
  BY ScanTypes DEF RaiseAndAdvance, ScanInv
<1>2. /\ mem.restored /\ disc.head <= head /\ disc.from >= 1 /\ (IF cursor = -1 THEN disc.from <= disc.head ELSE disc.from = cursor + 1)
      /\ disc.from - 1 <= disc.to /\ disc.to <= disc.head /\ (cursor = -1 <=> first = -1)
      /\ disc.from \in 0 .. MaxBlock + 1 /\ disc.to \in 0 .. MaxBlock /\ disc.head \in 0 .. MaxBlock
  BY <1>1 DEF ScanInv, ReadHalf, CursorOnChain, TickFollows, Ticks
<1>3. cursor' = disc.to /\ first' = (IF first = -1 THEN disc.from ELSE first) /\ alerted' \subseteq events
      /\ disc' = [disc EXCEPT !.pc = "scan", !.from = disc.to + 1]
      /\ UNCHANGED <<head, events, skips, plans, alerts, notices, mem, ann, mishaps, unstored>>
  <2>1. alerted \subseteq events
    BY DEF ScanInv, ScanTypeOK
  <2> QED BY <2>1 DEF RaiseAndAdvance, journal
<1>4. disc' \in Ticks /\ disc'.pc = "scan" /\ disc'.from = disc.to + 1 /\ disc'.head = disc.head /\ disc'.skipped = disc.skipped
  <2> DEFINE f == disc.to + 1
             d1 == [disc EXCEPT !.pc = "scan"]
             d2 == [d1 EXCEPT !.from = f]
  <2>1. f \in 0 .. MaxBlock + 1
    <3>1. disc.to \in 0 .. MaxBlock /\ MaxBlock \in Nat
      BY <1>2, ScanConstants
    <3> QED BY <3>1, SMTT(30)
  <2>2. disc' = d2
    <3>1. d2 = [disc EXCEPT !.pc = "scan", !.from = f]
      BY <1>1 DEF Ticks
    <3> HIDE DEF d2
    <3> QED BY <1>3, <3>1
  <2> HIDE DEF f
  <2>3. d1 \in Ticks /\ d1.pc = "scan" /\ d1.head = disc.head /\ d1.skipped = disc.skipped
    BY <1>1 DEF Ticks
  <2> HIDE DEF d1
  <2>4. d2 \in Ticks /\ d2.pc = "scan" /\ d2.from = f /\ d2.head = disc.head /\ d2.skipped = disc.skipped
    BY <2>1, <2>3 DEF Ticks
  <2> QED BY <2>2, <2>4 DEF f
<1>5. first' \in 1 .. MaxBlock \/ first' = first
  <2>1. first = -1 => disc.from \in 1 .. MaxBlock + 1
    BY <1>2, ScanConstants
  <2>2. first # -1 => first' = first
    BY <1>3
  <2>3. first = -1 => disc.from <= MaxBlock
    BY <1>1, <1>2, ScanConstants
  <2> QED BY <1>3, <2>1, <2>2, <2>3, ScanConstants
<1>6. ScanTypeOK'
  <2>1. first' \in -1 .. MaxBlock /\ cursor' \in -1 .. MaxBlock
    <3>1. disc.to \in 0 .. MaxBlock /\ first \in -1 .. MaxBlock /\ MaxBlock \in Nat
      BY <1>1, <1>2, ScanConstants
    <3>2. cursor' \in -1 .. MaxBlock
      BY <1>3, <3>1
    <3>3. first' \in -1 .. MaxBlock
      BY <1>5, <3>1
    <3> QED BY <3>2, <3>3
  <2> QED BY <1>3, <1>4, <2>1 DEF ScanInv, ScanTypeOK, Ticks
<1>7. CursorIsBacked'
  <2> SUFFICES ASSUME NEW b \in 1 .. cursor' PROVE (Accounted(b) \/ Mint[b] \in unstored)'
    BY DEF CursorIsBacked
  <2>1. CASE b < disc.from /\ cursor # -1
    <3>1. b \in 1 .. cursor /\ first' = first
      BY <1>1, <1>2, <1>3, <2>1
    <3> QED BY <1>3, <3>1 DEF ScanInv, ReadHalf, CursorIsBacked, Accounted
  <2>2. CASE b < disc.from /\ cursor = -1
    BY <1>2, <1>3, <2>2 DEF Accounted
  <2>3. CASE b >= disc.from
    <3>1. b \in disc.from .. disc.to
      BY <1>2, <1>3, <2>3
    <3>2. Mint[b] # NoMint => Mint[b] \in events \union unstored
      BY <1>1, <3>1 DEF ScanInv, ReadHalf, InHandIsTracked, EmittedIsStored
    <3> QED BY <1>3, <3>2 DEF Accounted
  <2> QED BY <1>2, <1>3, <2>1, <2>2, <2>3
<1>8. (CursorOnChain /\ TickFollows)'
  BY <1>1, <1>2, <1>3, <1>4, <1>5 DEF CursorOnChain, TickFollows
<1>9. (SeenIsTracked /\ EmittedIsStored /\ InHandIsTracked)'
  BY <1>3, <1>4 DEF ScanInv, ReadHalf, SeenIsTracked, EmittedIsStored, InHandIsTracked
<1>10. NoticeHalf'
  <2>1. mem'.pending \subseteq Keys(skips') /\ disc'.skipped \subseteq Keys(skips')
    BY <1>3, <1>4 DEF ScanInv, NoticeHalf, WaitingIsStored
  <2> QED BY <1>3, <2>1, NoticeHalfStays
<1> QED BY <1>6, <1>7, <1>8, <1>9, <1>10 DEF ScanInv, ReadHalf

\* The calendar's transaction fails: the cursor stays, and the events are stored.
LEMMA CalendarFailsKeeps ==
  ASSUME ScanInv, RaiseAndAdvance, StoreFails, disc' = NoTick, UNCHANGED <<cursor, first>>
  PROVE  ScanInv'
<1>1. disc.pc = "raise" /\ UNCHANGED <<head, events, skips, plans, alerts, notices, mem, ann, unstored>> /\ alerted' \subseteq events
  <2>1. alerted \subseteq events
    BY DEF ScanInv, ScanTypeOK
  <2> QED BY <2>1 DEF RaiseAndAdvance, journal
<1>2. ScanTypeOK'
  BY <1>1, NoTickIs, MishapCounts DEF ScanInv, ScanTypeOK, Ticks
<1>3. ReadHalf'
  BY <1>1, NoTickIs DEF ScanInv, ReadHalf, CursorIsBacked, Accounted, CursorOnChain, TickFollows, SeenIsTracked, EmittedIsStored, InHandIsTracked
<1>4. NoticeHalf'
  <2>1. mem'.pending \subseteq Keys(skips') /\ disc'.skipped \subseteq Keys(skips')
    BY <1>1, NoTickIs DEF ScanInv, NoticeHalf, WaitingIsStored
  <2> QED BY <1>1, <2>1, NoticeHalfStays
<1> QED BY <1>2, <1>3, <1>4 DEF ScanInv

LEMMA RaiseKeeps ==
  ASSUME ScanInv, RaiseAndAdvance
  PROVE  ScanInv'
BY AdvanceKeeps, CalendarFailsKeeps DEF RaiseAndAdvance

LEMMA TickReportedKeeps ==
  ASSUME ScanInv, TickReported
  PROVE  ScanInv'
<1> DEFINE p == mem.pending \union (disc.skipped \ mem.covered)
<1>1. disc.pc = "done" /\ mem' = [mem EXCEPT !.pending = p] /\ disc' = NoTick
      /\ UNCHANGED <<head, cursor, first, events, alerted, skips, plans, alerts, notices, ann, mishaps, unstored>>
  BY DEF TickReported, found, journal
<1>2. mem \in Memories /\ p \in SUBSET Ranges /\ p \subseteq Keys(skips')
  <2>1. mem \in Memories /\ mem.pending \subseteq Ranges /\ disc.skipped \subseteq Ranges
    BY ScanTypes DEF ScanInv
  <2>2. mem.pending \subseteq Keys(skips) /\ disc.skipped \subseteq Keys(skips)
    BY DEF ScanInv, NoticeHalf, WaitingIsStored
  <2> QED BY <1>1, <2>1, <2>2
<1> HIDE DEF p
<1>3. mem' \in Memories /\ mem'.emitted = mem.emitted /\ mem'.tracked = mem.tracked /\ mem'.restored = mem.restored /\ mem'.seen = mem.seen
      /\ mem'.pending = p /\ mem'.covered = mem.covered /\ mem'.sinceRead = mem.sinceRead
  BY <1>1, <1>2 DEF Memories
<1>4. disc' \in Ticks /\ disc'.pc = "idle" /\ disc'.skipped = {}
  BY <1>1, NoTickIs
<1>5. ScanTypeOK'
  <2>1. mem'.emitted \subseteq mem'.tracked
    BY <1>3 DEF ScanInv, ScanTypeOK
  <2> QED BY <1>1, <1>3, <1>4, <2>1 DEF ScanInv, ScanTypeOK, Memories, Ticks
<1>6. ReadHalf'
  BY <1>1, <1>3, <1>4 DEF ScanInv, ReadHalf, CursorIsBacked, Accounted, CursorOnChain, TickFollows, SeenIsTracked, EmittedIsStored, InHandIsTracked
<1>7. NoticeHalf'
  <2>1. mem'.pending \subseteq Keys(skips') /\ disc'.skipped \subseteq Keys(skips')
    BY <1>2, <1>3, <1>4
  <2> QED BY <1>1, <1>3, <2>1, NoticeHalfStays
<1> QED BY <1>5, <1>6, <1>7 DEF ScanInv

\* What a reading of the journal gives: all that was announced is covered, or too old.
LEMMA LoadedIs ==
  ASSUME ScanInv
  PROVE  /\ Loaded \in Memories /\ Loaded.restored = mem.restored /\ Loaded.seen = mem.seen /\ Loaded.tracked = mem.tracked
         /\ Loaded.emitted = mem.emitted /\ Loaded.pending \subseteq Keys(skips)
         /\ \A a \in alerts : \A r \in a : r \in Loaded.covered \/ \E s \in skips : s.range = r /\ TooOld(s.age)
<1> DEFINE c == UNION {e.keys : e \in Covering}
           ages == {e.age : e \in Covering} \union {Interval}
           young == CHOOSE a \in ages : \A b \in ages : a <= b
           fresh == {s \in skips : ~TooOld(s.age)}
           p == (Keys(fresh) \union {k \in mem.pending : \E s \in fresh : s.range = k}) \ c
           m1 == [mem EXCEPT !.covered = c]
           m2 == [m1 EXCEPT !.pending = p]
           m3 == [m2 EXCEPT !.sinceNotice = young]
           m4 == [m3 EXCEPT !.sinceRead = 0]
<1>1. mem \in Memories /\ plans \subseteq [keys : SUBSET Ranges, age : 0 .. Horizon + 1] /\ notices \subseteq [keys : SUBSET Ranges, age : 0 .. Horizon + 1]
      /\ skips \subseteq [range : Ranges, age : 0 .. Horizon + 1]
  BY ScanTypes DEF ScanInv, ScanTypeOK
<1>2. Covering \subseteq [keys : SUBSET Ranges, age : 0 .. Horizon + 1]
  BY <1>1 DEF Covering
<1>3. c \in SUBSET Ranges
  BY <1>2
<1>4. young \in 0 .. Interval
  <2>1. ages \in SUBSET Nat /\ ages # {} /\ Interval \in ages
    BY <1>2, ScanConstants
  <2> HIDE DEF ages
  <2>2. \E a \in ages : \A b \in ages : a <= b
    BY <2>1, LeastOf
  <2>3. young \in ages /\ \A b \in ages : young <= b
    BY <2>2
  <2> HIDE DEF young
  <2> QED BY <2>1, <2>3, ScanConstants
<1>5. p \in SUBSET Ranges /\ p \subseteq Keys(skips)
  <2>1. fresh \subseteq skips /\ \A s \in skips : s.range \in Ranges
    BY <1>1
  <2>2. Keys(fresh) \subseteq Keys(skips) /\ Keys(skips) \subseteq Ranges
    BY <2>1, KeysGrow DEF Keys
  <2>3. {k \in mem.pending : \E s \in fresh : s.range = k} \subseteq Keys(fresh)
    BY DEF Keys
  <2> QED BY <2>2, <2>3
<1>6. \A a \in alerts : \A r \in a : r \in c \/ \E s \in skips : s.range = r /\ TooOld(s.age)
  <2> SUFFICES ASSUME NEW a \in alerts, NEW r \in a, ~ \E s \in skips : s.range = r /\ TooOld(s.age)
               PROVE  r \in c
    OBVIOUS
  <2>1. PICK q \in plans : q.keys = a
    BY DEF ScanInv, NoticeHalf, AlertsArePlanned
  <2>2. PICK s \in skips : s.range = r /\ s.age >= q.age
    BY <2>1 DEF ScanInv, NoticeHalf, PlansAreOfSkips
  <2>3. ~TooOld(q.age)
    BY <1>1, <2>1, <2>2, ScanConstants DEF TooOld
  <2>4. q \in Covering
    BY <2>1, <2>3 DEF Covering
  <2> QED BY <2>1, <2>4
<1>7. Loaded = m4
  <2>1. Loaded = [mem EXCEPT !.covered = c, !.pending = p, !.sinceNotice = young, !.sinceRead = 0]
    BY Zenon DEF Loaded
  <2> HIDE DEF c, p, young
  <2> QED BY <1>1, <2>1 DEF Memories
<1> HIDE DEF c, p, young
<1>8. m1 \in Memories /\ m1.restored = mem.restored /\ m1.seen = mem.seen /\ m1.tracked = mem.tracked /\ m1.emitted = mem.emitted /\ m1.covered = c
  BY <1>1, <1>3 DEF Memories
<1> HIDE DEF m1
<1>9. m2 \in Memories /\ m2.restored = mem.restored /\ m2.seen = mem.seen /\ m2.tracked = mem.tracked /\ m2.emitted = mem.emitted /\ m2.covered = c
      /\ m2.pending = p
  BY <1>5, <1>8 DEF Memories
<1> HIDE DEF m2
<1>10. m3 \in Memories /\ m3.restored = mem.restored /\ m3.seen = mem.seen /\ m3.tracked = mem.tracked /\ m3.emitted = mem.emitted /\ m3.covered = c
       /\ m3.pending = p
  BY <1>4, <1>9 DEF Memories
<1> HIDE DEF m3
<1> DEFINE z == 0
<1>11. z \in 0 .. Interval
  BY ScanConstants
<1>12. m4 = [m3 EXCEPT !.sinceRead = z]
  OBVIOUS
<1> HIDE DEF z
<1>13. m4 \in Memories /\ m4.restored = mem.restored /\ m4.seen = mem.seen /\ m4.tracked = mem.tracked /\ m4.emitted = mem.emitted /\ m4.covered = c
       /\ m4.pending = p
  <2> HIDE DEF m4
  <2> QED BY <1>10, <1>11, <1>12 DEF Memories
<1> HIDE DEF m4
<1> QED BY <1>5, <1>6, <1>7, <1>13

\* A notice begins with its plan: ranges that wait, and that no alert has named.
LEMMA AnnounceBeginKeeps ==
  ASSUME ScanInv, AnnounceBegin
  PROVE  ScanInv'
<1> DEFINE old == {s.range : s \in {x \in skips : TooOld(x.age)}}
           m == mem'
           keys == (m.pending \ m.covered) \ old
<1>1. /\ ann.pc = "idle"
      /\ mem' = IF mem.sinceRead >= Interval THEN Loaded ELSE mem
      /\ IF m.sinceNotice < Interval \/ keys = {}
         THEN UNCHANGED <<plans, ann, mishaps>>
         ELSE \/ /\ plans' = IF \E p \in plans : p.keys = keys THEN plans ELSE plans \union {[keys |-> keys, age |-> 0]}
                 /\ ann' = [pc |-> "planned", keys |-> keys]
                 /\ UNCHANGED mishaps
              \/ StoreFails /\ UNCHANGED <<plans, ann>>
      /\ UNCHANGED <<head, cursor, first, events, alerted, skips, alerts, notices, disc, unstored>>
  BY DEF AnnounceBegin, found
<1>2. mem \in Memories /\ mem.emitted \subseteq mem.tracked
  BY ScanTypes DEF ScanInv, ScanTypeOK
<1>3. /\ mem' \in Memories /\ mem'.restored = mem.restored /\ mem'.seen = mem.seen /\ mem'.tracked = mem.tracked
      /\ mem'.emitted = mem.emitted /\ mem'.pending \subseteq Keys(skips)
      /\ \A a \in alerts : \A r \in a : r \in mem'.covered \/ \E s \in skips : s.range = r /\ TooOld(s.age)
  <2>1. CASE mem.sinceRead >= Interval
    BY <1>1, <2>1, LoadedIs
  <2>2. CASE ~(mem.sinceRead >= Interval)
    <3>1. mem.sinceRead < Interval /\ mem' = mem
      BY <1>1, <1>2, <2>2, ScanConstants DEF Memories
    <3> QED BY <1>2, <3>1 DEF ScanInv, NoticeHalf, WaitingIsStored, AnnouncedIsKnown
  <2> QED BY <2>1, <2>2
<1>4. keys \subseteq Keys(skips) /\ keys \subseteq Ranges /\ \A a \in alerts : a \intersect keys = {}
  <2>1. \A s \in skips : TooOld(s.age) => s.range \in old
    OBVIOUS
  <2>2. \A a \in alerts : \A r \in a : r \notin keys
    BY <1>3, <2>1
  <2>3. Keys(skips) \subseteq Ranges
    BY ScanTypes DEF ScanInv, Keys
  <2> QED BY <1>3, <2>2, <2>3
<1> HIDE DEF old, keys, m
<1>5. \/ UNCHANGED <<plans, ann>>
      \/ /\ keys # {} /\ ann' = [pc |-> "planned", keys |-> keys]
         /\ plans' = IF \E p \in plans : p.keys = keys THEN plans ELSE plans \union {[keys |-> keys, age |-> 0]}
  BY <1>1
<1>6. mishaps' = mishaps \/ (mishaps < Faults /\ mishaps' = mishaps + 1)
  BY <1>1 DEF StoreFails
<1>7. UNCHANGED <<head, cursor, first, events, alerted, skips, alerts, notices, disc, unstored>>
  BY <1>1
<1> DEFINE new == [keys |-> keys, age |-> 0]
<1>8. new.keys = keys /\ new.age = 0 /\ new \in [keys : SUBSET Ranges, age : 0 .. Horizon + 1]
  BY <1>4, ScanConstants
<1>9. plans' \in {plans, plans \union {new}}
  BY <1>5
<1>10. ann' = ann \/ (/\ keys # {} /\ ann'.pc = "planned" /\ ann'.keys = keys
                      /\ ann' \in [pc : {"idle", "planned", "alerted"}, keys : SUBSET Ranges]
                      /\ \E p \in plans' : p.keys = keys)
  <2>1. CASE UNCHANGED <<plans, ann>>
    BY <2>1
  <2>2. CASE keys # {} /\ ann' = [pc |-> "planned", keys |-> keys] /\ \E p \in plans' : p.keys = keys
    BY <1>4, <2>2
  <2>3. CASE keys # {} /\ ann' = [pc |-> "planned", keys |-> keys] /\ plans' = IF \E p \in plans : p.keys = keys THEN plans ELSE plans \union {new}
    <3> HIDE DEF new
    <3>1. \E p \in plans' : p.keys = keys
      BY <1>8, <2>3
    <3> QED BY <2>2, <2>3, <3>1
  <2> QED BY <1>5, <2>1, <2>3
<1> HIDE DEF new
<1>11. ScanTypeOK'
  <2>1. mishaps' \in 0 .. Faults
    BY <1>6, ScanConstants DEF ScanInv, ScanTypeOK
  <2>2. plans' \subseteq [keys : SUBSET Ranges, age : 0 .. Horizon + 1]
    BY <1>8, <1>9, ScanTypes DEF ScanInv
  <2>3. ann' \in [pc : {"idle", "planned", "alerted"}, keys : SUBSET Ranges]
    BY <1>10, ScanTypes DEF ScanInv
  <2>4. mem' \in Memories /\ mem'.emitted \subseteq mem'.tracked
    BY <1>2, <1>3
  <2> QED BY <1>7, <2>1, <2>2, <2>3, <2>4 DEF ScanInv, ScanTypeOK, Memories
<1>12. ReadHalf'
  <2>1. SkipsKept
    BY <1>7, ScanTypes DEF SkipsKept, ScanInv
  <2>2. head <= head'
    BY <1>7, ScanTypes DEF ScanInv
  <2> QED BY <1>3, <1>7, <1>11, <2>1, <2>2, ReadHalfStays
<1>13. NoticeHalf'
  <2>1. (EachSkipOnce /\ WaitingIsStored)'
    BY <1>3, <1>7 DEF ScanInv, NoticeHalf, EachSkipOnce, WaitingIsStored
  <2>2. PlansAreOfSkips'
    <3>1. \A r \in keys : \E s \in skips : s.range = r /\ s.age >= new.age
      BY <1>4, <1>8, ScanTypes DEF Keys, ScanInv
    <3> QED BY <1>7, <1>8, <1>9, <3>1 DEF ScanInv, NoticeHalf, PlansAreOfSkips
  <2>3. AlertsArePlanned'
    BY <1>7, <1>9 DEF ScanInv, NoticeHalf, AlertsArePlanned
  <2>4. PlannedIsNew'
    BY <1>1, <1>4, <1>7, <1>10 DEF PlannedIsNew
  <2>5. AnnouncedIsKnown'
    BY <1>3, <1>7 DEF AnnouncedIsKnown, TooOld
  <2> QED BY <2>1, <2>2, <2>3, <2>4, <2>5 DEF NoticeHalf
<1> QED BY <1>11, <1>12, <1>13 DEF ScanInv

\* The alert is stored, or it is not and the pass gives up.
LEMMA AnnounceAlertKeeps ==
  ASSUME ScanInv, AnnounceAlert
  PROVE  ScanInv'
<1>1. ann.pc = "planned" /\ mem \in Memories /\ mem.emitted \subseteq mem.tracked
      /\ ann \in [pc : {"idle", "planned", "alerted"}, keys : SUBSET Ranges]
  BY ScanTypes DEF AnnounceAlert, ScanInv, ScanTypeOK
<1>2. /\ alerts' = alerts \union {ann.keys} \/ alerts' = alerts
      /\ mishaps' = mishaps \/ (mishaps < Faults /\ mishaps' = mishaps + 1)
      /\ IF ann.keys \in alerts'
         THEN /\ mem' = [mem EXCEPT !.covered = @ \union ann.keys, !.pending = @ \ ann.keys, !.sinceNotice = 0]
              /\ ann' = [ann EXCEPT !.pc = "alerted"]
         ELSE ann' = NoPass /\ mem' = mem
      /\ UNCHANGED <<head, cursor, first, events, alerted, skips, plans, notices, disc, unstored>>
  BY DEF AnnounceAlert, StoreFails, found
<1>3. ann.keys # {} /\ (\E p \in plans : p.keys = ann.keys) /\ \A a \in alerts : a \intersect ann.keys = {}
  BY <1>1 DEF ScanInv, NoticeHalf, PlannedIsNew
<1>4. /\ mem' \in Memories /\ mem'.restored = mem.restored /\ mem'.seen = mem.seen /\ mem'.tracked = mem.tracked
      /\ mem'.emitted = mem.emitted /\ mem'.pending \subseteq mem.pending /\ mem.covered \subseteq mem'.covered
      /\ mem'.sinceRead = mem.sinceRead
      /\ (ann.keys \in alerts' => ann.keys \subseteq mem'.covered)
  <2>1. CASE ann.keys \notin alerts'
    BY <1>1, <1>2, <2>1
  <2>2. CASE ann.keys \in alerts'
    <3> DEFINE c == mem.covered \union ann.keys
               p == mem.pending \ ann.keys
               z == 0
               m1 == [mem EXCEPT !.covered = c]
               m2 == [m1 EXCEPT !.pending = p]
               m3 == [m2 EXCEPT !.sinceNotice = z]
    <3>1. c \in SUBSET Ranges /\ p \in SUBSET Ranges /\ z \in 0 .. Interval
      BY <1>1, ScanTypes, ScanConstants DEF ScanInv
    <3>2. c = mem.covered \union ann.keys /\ p \subseteq mem.pending
      OBVIOUS
    <3>3. mem' = [mem EXCEPT !.covered = c, !.pending = p, !.sinceNotice = z]
      BY <1>2, <2>2
    <3> HIDE DEF c, p, z
    <3>4. mem' = m3
      BY <1>1, <3>3 DEF Memories
    <3>5. m1 \in Memories /\ m1.restored = mem.restored /\ m1.seen = mem.seen /\ m1.tracked = mem.tracked /\ m1.emitted = mem.emitted
          /\ m1.covered = c /\ m1.sinceRead = mem.sinceRead
      BY <1>1, <3>1 DEF Memories
    <3> HIDE DEF m1
    <3>6. m2 \in Memories /\ m2.restored = mem.restored /\ m2.seen = mem.seen /\ m2.tracked = mem.tracked /\ m2.emitted = mem.emitted
          /\ m2.covered = c /\ m2.pending = p /\ m2.sinceRead = mem.sinceRead
      BY <3>1, <3>5 DEF Memories
    <3> HIDE DEF m2
    <3>7. m3 \in Memories /\ m3.restored = mem.restored /\ m3.seen = mem.seen /\ m3.tracked = mem.tracked /\ m3.emitted = mem.emitted
          /\ m3.covered = c /\ m3.pending = p /\ m3.sinceRead = mem.sinceRead
      BY <3>1, <3>6 DEF Memories
    <3> HIDE DEF m3
    <3> QED BY <3>2, <3>4, <3>7
  <2> QED BY <2>1, <2>2
<1>5. ann' \in [pc : {"idle", "planned", "alerted"}, keys : SUBSET Ranges] /\ ann'.pc # "planned"
  BY <1>1, <1>2 DEF NoPass
<1>6. ScanTypeOK'
  <2>1. mishaps' \in 0 .. Faults
    <3>1. mishaps \in 0 .. Faults
      BY DEF ScanInv, ScanTypeOK
    <3>2. mishaps' = mishaps \/ (mishaps < Faults /\ mishaps' = mishaps + 1)
      BY <1>2
    <3> QED BY <3>1, <3>2, ScanConstants
  <2>2. alerts' \subseteq SUBSET Ranges
    BY <1>1, <1>2 DEF ScanInv, ScanTypeOK
  <2>3. mem'.emitted \subseteq mem'.tracked
    BY <1>1, <1>4
  <2> QED BY <1>2, <1>4, <1>5, <2>1, <2>2, <2>3 DEF ScanInv, ScanTypeOK, Memories
<1>7. ReadHalf'
  <2>1. SkipsKept /\ head <= head'
    BY <1>2, ScanTypes DEF SkipsKept, ScanInv
  <2> QED BY <1>2, <1>4, <1>6, <2>1, ReadHalfStays
<1>8. NoticeHalf'
  <2>1. EachSkipOnce'
    <3>1. \A a \in alerts' : a \in alerts \/ a = ann.keys
      BY <1>2
    <3> QED BY <1>3, <3>1 DEF ScanInv, NoticeHalf, EachSkipOnce
  <2>2. WaitingIsStored'
    BY <1>2, <1>4 DEF ScanInv, NoticeHalf, WaitingIsStored
  <2>3. (PlansAreOfSkips /\ AlertsArePlanned)'
    BY <1>2, <1>3 DEF ScanInv, NoticeHalf, PlansAreOfSkips, AlertsArePlanned
  <2>4. PlannedIsNew'
    BY <1>5 DEF PlannedIsNew
  <2>5. AnnouncedIsKnown'
    <3>1. \A a \in alerts' : a \in alerts \/ (a = ann.keys /\ a \subseteq mem'.covered)
      BY <1>2, <1>4
    <3> QED BY <1>2, <1>4, <3>1 DEF ScanInv, NoticeHalf, AnnouncedIsKnown, TooOld
  <2> QED BY <2>1, <2>2, <2>3, <2>4, <2>5 DEF NoticeHalf
<1> QED BY <1>6, <1>7, <1>8 DEF ScanInv

LEMMA AnnounceMarkKeeps ==
  ASSUME ScanInv, AnnounceMark
  PROVE  ScanInv'
<1> DEFINE new == [keys |-> ann.keys, age |-> 0]
<1>1. ann' = NoPass /\ UNCHANGED <<head, cursor, first, events, alerted, skips, plans, alerts, mem, disc, unstored>>
      /\ (mishaps' = mishaps \/ (mishaps < Faults /\ mishaps' = mishaps + 1))
      /\ notices' \in {notices, notices \union {new}}
  BY DEF AnnounceMark, StoreFails, found
<1>2. new \in [keys : SUBSET Ranges, age : 0 .. Horizon + 1] /\ mem \in Memories
  BY ScanTypes, ScanConstants DEF ScanInv
<1> HIDE DEF new
<1>3. ScanTypeOK'
  <2>1. mishaps' \in 0 .. Faults
    <3>1. mishaps \in 0 .. Faults
      BY DEF ScanInv, ScanTypeOK
    <3>2. mishaps' = mishaps \/ (mishaps < Faults /\ mishaps' = mishaps + 1)
      BY <1>1
    <3> QED BY <3>1, <3>2, ScanConstants
  <2>2. notices' \subseteq [keys : SUBSET Ranges, age : 0 .. Horizon + 1]
    BY <1>1, <1>2 DEF ScanInv, ScanTypeOK
  <2>3. ann' \in [pc : {"idle", "planned", "alerted"}, keys : SUBSET Ranges]
    BY <1>1 DEF NoPass
  <2> QED BY <1>1, <2>1, <2>2, <2>3 DEF ScanInv, ScanTypeOK
<1>4. ReadHalf'
  <2>1. SkipsKept /\ head <= head'
    BY <1>1, ScanTypes DEF SkipsKept, ScanInv
  <2> QED BY <1>1, <1>3, <2>1, ReadHalfStays
<1>5. NoticeHalf'
  <2>1. ann'.pc # "planned"
    BY <1>1 DEF NoPass
  <2>2. (EachSkipOnce /\ WaitingIsStored /\ PlansAreOfSkips /\ AlertsArePlanned)'
    BY <1>1 DEF ScanInv, NoticeHalf, EachSkipOnce, WaitingIsStored, PlansAreOfSkips, AlertsArePlanned
  <2>3. (PlannedIsNew /\ AnnouncedIsKnown)'
    BY <1>1, <2>1 DEF ScanInv, NoticeHalf, PlannedIsNew, AnnouncedIsKnown, TooOld
  <2> QED BY <2>2, <2>3 DEF NoticeHalf
<1> QED BY <1>3, <1>4, <1>5 DEF ScanInv

LEMMA GrowKeeps ==
  ASSUME ScanInv, Grow
  PROVE  ScanInv'
<1>1. head < MaxBlock /\ head' = head + 1
      /\ UNCHANGED <<cursor, first, events, alerted, skips, plans, alerts, notices, mem, disc, ann, mishaps, unstored>>
  BY DEF Grow, found, journal
<1>2. ScanTypeOK'
  <2>1. head' \in 1 .. MaxBlock
    BY <1>1, ScanTypes, ScanConstants DEF ScanInv
  <2> QED BY <1>1, <2>1 DEF ScanInv, ScanTypeOK
<1>3. ReadHalf'
  <2>1. SkipsKept /\ head <= head'
    BY <1>1, ScanTypes DEF SkipsKept, ScanInv
  <2> QED BY <1>1, <1>2, <2>1, ReadHalfStays
<1>4. NoticeHalf'
  <2>1. mem'.pending \subseteq Keys(skips') /\ disc'.skipped \subseteq Keys(skips')
    BY <1>1 DEF ScanInv, NoticeHalf, WaitingIsStored
  <2> QED BY <1>1, <2>1, NoticeHalfStays
<1> QED BY <1>2, <1>3, <1>4 DEF ScanInv

\* An entry of the journal one step later.
Aged(e) == [e EXCEPT !.age = IF @ > Horizon THEN @ ELSE @ + 1]
AgeIs(n) == IF n > Horizon THEN n ELSE n + 1

LEMMA AgeFacts ==
  ASSUME NEW n \in 0 .. Horizon + 1
  PROVE  /\ AgeIs(n) \in 0 .. Horizon + 1 /\ AgeIs(n) >= n
         /\ \A m \in 0 .. Horizon + 1 : n >= m => AgeIs(n) >= AgeIs(m)
BY ScanConstants DEF AgeIs

LEMMA AgedSkip ==
  ASSUME NEW e \in [range : Ranges, age : 0 .. Horizon + 1]
  PROVE  Aged(e) \in [range : Ranges, age : 0 .. Horizon + 1] /\ Aged(e).range = e.range /\ Aged(e).age = AgeIs(e.age)
<1> DEFINE n == AgeIs(e.age)
<1>1. n \in 0 .. Horizon + 1
  BY AgeFacts
<1>2. Aged(e) = [e EXCEPT !.age = n]
  BY DEF Aged, AgeIs
<1> HIDE DEF n
<1>3. Aged(e) \in [range : Ranges, age : 0 .. Horizon + 1] /\ Aged(e).range = e.range /\ Aged(e).age = n
  BY <1>1, <1>2
<1> QED BY <1>3 DEF n

LEMMA AgedNotice ==
  ASSUME NEW e \in [keys : SUBSET Ranges, age : 0 .. Horizon + 1]
  PROVE  Aged(e) \in [keys : SUBSET Ranges, age : 0 .. Horizon + 1] /\ Aged(e).keys = e.keys /\ Aged(e).age = AgeIs(e.age)
<1> DEFINE n == AgeIs(e.age)
<1>1. n \in 0 .. Horizon + 1
  BY AgeFacts
<1>2. Aged(e) = [e EXCEPT !.age = n]
  BY DEF Aged, AgeIs
<1> HIDE DEF n
<1>3. Aged(e) \in [keys : SUBSET Ranges, age : 0 .. Horizon + 1] /\ Aged(e).keys = e.keys /\ Aged(e).age = n
  BY <1>1, <1>2
<1> QED BY <1>3 DEF n

LEMMA OlderIs ==
  ASSUME NEW S
  PROVE  Older(S) = {Aged(e) : e \in S}
BY Zenon DEF Older, Aged

\* A quarter of an hour later: the journal's entries age together.
LEMMA TickKeeps ==
  ASSUME ScanInv, Tick
  PROVE  ScanInv'
<1>1. ann.pc = "idle" /\ skips' = {Aged(e) : e \in skips} /\ plans' = {Aged(e) : e \in plans} /\ notices' = {Aged(e) : e \in notices}
      /\ UNCHANGED <<head, cursor, first, events, alerted, alerts, disc, ann, mishaps, unstored>>
  BY OlderIs DEF Tick, found
<1>2. skips \subseteq [range : Ranges, age : 0 .. Horizon + 1] /\ plans \subseteq [keys : SUBSET Ranges, age : 0 .. Horizon + 1]
      /\ notices \subseteq [keys : SUBSET Ranges, age : 0 .. Horizon + 1] /\ mem \in Memories /\ mem.emitted \subseteq mem.tracked
  BY ScanTypes DEF ScanInv, ScanTypeOK
<1>3. /\ mem' \in Memories /\ mem'.restored = mem.restored /\ mem'.seen = mem.seen /\ mem'.tracked = mem.tracked
      /\ mem'.emitted = mem.emitted /\ mem'.pending = mem.pending /\ mem'.covered = mem.covered
      /\ (mem'.sinceRead < Interval => mem.sinceRead < Interval)
  <2> DEFINE n == IF mem.sinceNotice = Interval THEN mem.sinceNotice ELSE mem.sinceNotice + 1
             r == IF mem.sinceRead = Interval THEN mem.sinceRead ELSE mem.sinceRead + 1
             m1 == [mem EXCEPT !.sinceNotice = n]
             m2 == [m1 EXCEPT !.sinceRead = r]
  <2>1. mem.sinceNotice \in 0 .. Interval /\ mem.sinceRead \in 0 .. Interval
    BY <1>2 DEF Memories
  <2>2. n \in 0 .. Interval /\ r \in 0 .. Interval /\ (r < Interval => mem.sinceRead < Interval)
    BY <2>1, ScanConstants
  <2>3. mem' = [mem EXCEPT !.sinceNotice = n, !.sinceRead = r]
    BY DEF Tick
  <2> HIDE DEF n, r
  <2>4. mem' = m2
    BY <1>2, <2>3 DEF Memories
  <2>5. m1 \in Memories /\ m1.restored = mem.restored /\ m1.seen = mem.seen /\ m1.tracked = mem.tracked
        /\ m1.emitted = mem.emitted /\ m1.pending = mem.pending /\ m1.covered = mem.covered /\ m1.sinceRead = mem.sinceRead
    BY <1>2, <2>2 DEF Memories
  <2> HIDE DEF m1
  <2>6. m2 \in Memories /\ m2.restored = mem.restored /\ m2.seen = mem.seen /\ m2.tracked = mem.tracked
        /\ m2.emitted = mem.emitted /\ m2.pending = mem.pending /\ m2.covered = mem.covered /\ m2.sinceRead = r
    BY <2>2, <2>5 DEF Memories
  <2> HIDE DEF m2
  <2> QED BY <2>2, <2>4, <2>6
<1>4. \A s \in skips : Aged(s) \in skips' /\ Aged(s) \in [range : Ranges, age : 0 .. Horizon + 1] /\ Aged(s).range = s.range
                      /\ Aged(s).age = AgeIs(s.age) /\ Aged(s).age >= s.age /\ s.age \in 0 .. Horizon + 1
  BY <1>1, <1>2, AgedSkip, AgeFacts
<1>5. \A p \in plans : Aged(p) \in plans' /\ Aged(p) \in [keys : SUBSET Ranges, age : 0 .. Horizon + 1] /\ Aged(p).keys = p.keys
                      /\ Aged(p).age = AgeIs(p.age) /\ p.age \in 0 .. Horizon + 1
  BY <1>1, <1>2, AgedNotice
<1>6. SkipsKept
  BY <1>4 DEF SkipsKept
<1>7. ScanTypeOK'
  <2>1. skips' \subseteq [range : Ranges, age : 0 .. Horizon + 1]
    BY <1>1, <1>4
  <2>2. plans' \subseteq [keys : SUBSET Ranges, age : 0 .. Horizon + 1]
    BY <1>1, <1>5
  <2>3. notices' \subseteq [keys : SUBSET Ranges, age : 0 .. Horizon + 1]
    BY <1>1, <1>2, AgedNotice
  <2>4. mem'.emitted \subseteq mem'.tracked
    BY <1>2, <1>3
  <2> QED BY <1>1, <1>3, <2>1, <2>2, <2>3, <2>4 DEF ScanInv, ScanTypeOK, Memories
<1>8. ReadHalf'
  <2>1. head <= head'
    BY <1>1, ScanTypes DEF ScanInv
  <2> QED BY <1>1, <1>3, <1>6, <1>7, <2>1, ReadHalfStays
<1>9. NoticeHalf'
  <2>1. (EachSkipOnce /\ PlannedIsNew)'
    BY <1>1 DEF ScanInv, NoticeHalf, EachSkipOnce, PlannedIsNew
  <2>2. WaitingIsStored'
    <3>1. Keys(skips) \subseteq Keys(skips')
      BY <1>6 DEF Keys, SkipsKept
    <3> QED BY <1>1, <1>3, <3>1 DEF ScanInv, NoticeHalf, WaitingIsStored
  <2>3. PlansAreOfSkips'
    <3> SUFFICES ASSUME NEW q \in plans', NEW r \in q.keys PROVE \E s \in skips' : s.range = r /\ s.age >= q.age
      BY DEF PlansAreOfSkips
    <3>1. PICK p \in plans : q = Aged(p)
      BY <1>1
    <3>2. r \in p.keys
      BY <1>5, <3>1
    <3>3. PICK s \in skips : s.range = r /\ s.age >= p.age
      BY <3>2 DEF ScanInv, NoticeHalf, PlansAreOfSkips
    <3>4. AgeIs(s.age) >= AgeIs(p.age)
      BY <1>4, <1>5, <3>3, AgeFacts
    <3> QED BY <1>4, <1>5, <3>1, <3>3, <3>4
  <2>4. AlertsArePlanned'
    BY <1>1, <1>5 DEF ScanInv, NoticeHalf, AlertsArePlanned
  <2>5. AnnouncedIsKnown'
    <3>1. \A s \in skips : TooOld(s.age) => TooOld(Aged(s).age)
      BY <1>4, ScanConstants DEF TooOld
    <3>2. \A r : (\E s \in skips : s.range = r /\ TooOld(s.age)) => \E s \in skips' : s.range = r /\ TooOld(s.age)
      BY <1>4, <3>1
    <3> QED BY <1>1, <1>3, <3>2 DEF ScanInv, NoticeHalf, AnnouncedIsKnown, TooOld
  <2> QED BY <2>1, <2>2, <2>3, <2>4, <2>5 DEF NoticeHalf
<1> QED BY <1>7, <1>8, <1>9 DEF ScanInv

\* After a restart the process knows nothing, and what is stored says what it has to know.
LEMMA ScanCrashKeeps ==
  ASSUME ScanInv, ScanCrash
  PROVE  ScanInv'
<1>1. mishaps < Faults /\ mishaps' = mishaps + 1 /\ mem' = Blank /\ disc' = NoTick /\ ann' = NoPass
      /\ UNCHANGED <<head, cursor, first, events, alerted, skips, plans, alerts, notices, unstored>>
  BY DEF ScanCrash, found, journal
<1>2. Blank \in Memories /\ ~Blank.restored /\ Blank.seen = {} /\ Blank.emitted = {} /\ Blank.pending = {} /\ Blank.tracked = {}
      /\ Blank.sinceRead = Interval /\ ann'.pc = "idle" /\ ann' \in [pc : {"idle", "planned", "alerted"}, keys : SUBSET Ranges]
  BY <1>1, ScanConstants DEF Blank, NoPass, Memories
<1>3. ScanTypeOK'
  <2>1. mishaps' \in 0 .. Faults
    BY <1>1, ScanConstants DEF ScanInv, ScanTypeOK
  <2>2. mem' \in Memories /\ mem'.emitted \subseteq mem'.tracked /\ disc' \in Ticks
    BY <1>1, <1>2, NoTickIs
  <2> QED BY <1>1, <1>2, <2>1, <2>2 DEF ScanInv, ScanTypeOK, Memories, Ticks
<1>4. ReadHalf'
  BY <1>1, <1>2, NoTickIs DEF ScanInv, ReadHalf, CursorIsBacked, Accounted, CursorOnChain, TickFollows, SeenIsTracked, EmittedIsStored, InHandIsTracked
<1>5. NoticeHalf'
  <2>1. mem'.pending \subseteq Keys(skips') /\ disc'.skipped \subseteq Keys(skips') /\ ~(mem'.sinceRead < Interval)
    BY <1>1, <1>2, NoTickIs, ScanConstants
  <2>2. (EachSkipOnce /\ PlansAreOfSkips /\ AlertsArePlanned)'
    BY <1>1 DEF ScanInv, NoticeHalf, EachSkipOnce, PlansAreOfSkips, AlertsArePlanned
  <2> QED BY <1>2, <2>1, <2>2 DEF NoticeHalf, WaitingIsStored, PlannedIsNew, AnnouncedIsKnown
<1> QED BY <1>3, <1>4, <1>5 DEF ScanInv

LEMMA ScanSteps ==
  ASSUME ScanInv, [ScanNext]_scanVars
  PROVE  ScanInv'
<1>1. CASE UNCHANGED scanVars
  BY <1>1 DEF scanVars, found, journal, ScanInv, ScanTypeOK, ReadHalf, NoticeHalf, CursorIsBacked, Accounted, CursorOnChain, TickFollows,
     SeenIsTracked, EmittedIsStored, InHandIsTracked, EachSkipOnce, WaitingIsStored, PlansAreOfSkips, AlertsArePlanned, PlannedIsNew,
     AnnouncedIsKnown, TooOld
<1>2. CASE ScanNext
  <2>1. CASE ScanUnavailable
    BY <2>1, DoneKeeps DEF ScanUnavailable
  <2>2. CASE TickEnd
    BY <2>2, DoneKeeps DEF TickEnd
  <2> QED BY <1>2, <2>1, <2>2, JumpKeeps, JumpCursorKeeps, TickBeginKeeps, ScanKeeps, EmitKeeps, RaiseKeeps, WatchedMintKeeps, TickReportedKeeps,
             AnnounceBeginKeeps, AnnounceAlertKeeps, AnnounceMarkKeeps, GrowKeeps, TickKeeps, ScanCrashKeeps DEF ScanNext
<1> QED BY <1>1, <1>2

\* And the invariant says all that the scan promises.
LEMMA ScanInvSafe ==
  ScanInv => ScanSafety
BY DEF ScanInv, ScanSafety, ReadHalf, NoticeHalf

\* However far the scan falls behind, whatever fails to be stored and wherever the process stops: the
\* cursor passes no block without its event or a stored gap, and no gap is in two notices
\* (discovery.ts tick; intelligence-service.ts announcePendingSkips).
THEOREM ScanSafe ==
  ScanSpec => []ScanSafety
<1> QED BY ScanStarts, ScanSteps, ScanInvSafe, PTL DEF ScanSpec

-----------------------------------------------------------------------------
(* The quantity of a free mint                                             *)

\* What the search does with an interval, given the table of all answers; the
\* binary search stands for the table that agrees with it everywhere.
SearchedFrom(d, fee, f, low, high, best) ==
  LET middle == (low + high) \div 2 IN
  IF low > high THEN best
  ELSE IF GasLimit(d, middle) = Unread THEN Unread
  ELSE IF Fits(d, middle, fee) THEN f[<<middle + 1, high, middle>>]
  ELSE f[<<low, middle - 1, best>>]
SearchTable(d, fee, f) == f = [s \in Intervals(d) |-> SearchedFrom(d, fee, f, s[1], s[2], s[3])]
Search(d, fee) == CHOOSE f : SearchTable(d, fee, f)

LEMMA SearchedIs ==
  ASSUME NEW d, NEW fee
  PROVE  Searched(d, fee) = Search(d, fee)[<<1, d.per - 1, 0>>]
BY DEF Searched, Search, SearchTable, SearchedFrom

\* What needs to be known of a drop for its plan.
Plannable(d) == d \in Catalogue /\ d.per > 0 /\ Estimated(d)

\* The gas of every quantity is known, and what does not fit does not fit with more.
LEMMA GasFacts ==
  ASSUME NEW d, Plannable(d), NEW fee \in BaseFees
  PROVE  /\ d.per \in Nat /\ d.per > 0
         /\ \A q \in 1 .. d.per : GasLimit(d, q) \in Nat /\ GasLimit(d, q) # Unread
         /\ \A q, r \in 1 .. d.per : q <= r /\ Fits(d, r, fee) => Fits(d, q, fee)
<1>1. d.per \in Nat /\ d.per > 0 /\ (\A q \in 1 .. d.per : d.gas[q] \in Nat)
      /\ \A q, r \in 1 .. d.per : q <= r => d.gas[q] <= d.gas[r]
  <2>1. d.per \in Nat /\ d.gas \in [1 .. d.per -> Nat \union {Unread}]
    BY CatalogueAssumption DEF Plannable
  <2> QED BY <2>1 DEF Plannable, Estimated
<1>2. \A q \in 1 .. d.per : GasLimit(d, q) = (d.gas[q] * 12 + 9) \div 10
  BY DEF GasLimit, Plannable, Estimated
<1>3. \A n \in Nat : (n * 12 + 9) \div 10 \in Nat /\ (n * 12 + 9) \div 10 # Unread
  BY DEF Unread
<1>4. \A m, n \in Nat : m <= n => (m * 12 + 9) \div 10 <= (n * 12 + 9) \div 10
  OBVIOUS
<1>5. \A q \in 1 .. d.per : GasLimit(d, q) \in Nat /\ GasLimit(d, q) # Unread
  BY <1>1, <1>2, <1>3
<1>6. ASSUME NEW q \in 1 .. d.per, NEW r \in 1 .. d.per, q <= r, Fits(d, r, fee) PROVE Fits(d, q, fee)
  <2> DEFINE x == GasLimit(d, q)
             y == GasLimit(d, r)
             c == PlanningFee(fee)
  <2>1. x \in Nat /\ y \in Nat /\ x <= y
    BY <1>1, <1>2, <1>4, <1>5, <1>6
  <2>2. c \in Nat /\ FeeAllowance \in Nat /\ GasCeiling \in Nat
    BY ReadinessAssumption DEF PlanningFee
  <2>3. y * c <= FeeAllowance /\ y <= GasCeiling
    BY <1>6 DEF Fits
  <2> HIDE DEF x, y, c
  <2>4. x * c \in Nat /\ y * c \in Nat /\ x * c <= y * c
    <3>1. PICK z \in Nat : y = x + z
      <4>1. y - x \in Nat /\ y = x + (y - x)
        BY <2>1
      <4> QED BY <4>1
    <3>2. z * c \in Nat /\ x * c \in Nat
      BY <2>1, <2>2, <3>1
    <3>3. y * c = x * c + z * c
      BY <2>1, <2>2, <3>1
    <3> QED BY <3>2, <3>3
  <2>5. x * c <= FeeAllowance /\ x <= GasCeiling
    BY <2>1, <2>2, <2>3, <2>4
  <2> QED BY <2>5 DEF Fits, x, c
<1> QED BY <1>1, <1>5, <1>6

\* The answer for an interval: its largest quantity that fits, or else the best so far.
Fitting(d, fee, low, high) == {q \in low .. high : Fits(d, q, fee)}
IsAnswer(d, fee, low, high, best, r) ==
  \/ r = best /\ Fitting(d, fee, low, high) = {}
  \/ r \in Fitting(d, fee, low, high) /\ \A q \in Fitting(d, fee, low, high) : q <= r
Answer(d, fee, low, high, best) == CHOOSE r : IsAnswer(d, fee, low, high, best, r)

LEMMA AnswerIs ==
  ASSUME NEW d, Plannable(d), NEW fee \in BaseFees, NEW low \in 1 .. d.per + 1, NEW high \in 0 .. d.per, NEW best \in 0 .. d.per
  PROVE  IsAnswer(d, fee, low, high, best, Answer(d, fee, low, high, best))
<1>1. d.per \in Nat
  BY GasFacts
<1>2. Fitting(d, fee, low, high) \in SUBSET (0 .. d.per)
  BY <1>1 DEF Fitting
<1>3. \E r : IsAnswer(d, fee, low, high, best, r)
  <2> DEFINE F == Fitting(d, fee, low, high)
  <2>1. CASE F = {}
    BY <2>1 DEF IsAnswer
  <2>2. CASE F # {}
    <3> HIDE DEF F
    <3>1. F \in SUBSET (0 .. d.per)
      BY <1>2 DEF F
    <3>2. PICK r \in F : \A q \in F : q <= r
      BY <1>1, <2>2, <3>1, LargestOf
    <3> QED BY <3>2 DEF IsAnswer, F
  <2> QED BY <2>1, <2>2
<1> QED BY <1>3 DEF Answer

\* There is one answer.
LEMMA OneAnswer ==
  ASSUME NEW d, Plannable(d), NEW fee \in BaseFees, NEW low \in 1 .. d.per + 1, NEW high \in 0 .. d.per, NEW best \in 0 .. d.per,
         NEW r, NEW s, IsAnswer(d, fee, low, high, best, r), IsAnswer(d, fee, low, high, best, s)
  PROVE  r = s
<1>1. d.per \in Nat
  BY GasFacts
<1>2. \A q \in Fitting(d, fee, low, high) : q \in Int
  BY <1>1 DEF Fitting
<1> QED BY <1>2 DEF IsAnswer

\* An interval with something in it splits at its middle, whose gas is known.
LEMMA SearchSplits ==
  ASSUME NEW d, Plannable(d), NEW fee \in BaseFees, NEW low \in 1 .. d.per + 1, NEW high \in 0 .. d.per, low <= high
  PROVE  LET middle == (low + high) \div 2 IN
         /\ middle \in low .. high /\ middle + 1 \in 1 .. d.per + 1 /\ middle - 1 \in 0 .. d.per /\ middle \in 0 .. d.per
         /\ GasLimit(d, middle) # Unread
<1> DEFINE middle == (low + high) \div 2
<1>1. d.per \in Nat /\ d.per > 0
  BY GasFacts
<1>2. middle \in low .. high
  BY <1>1
<1> HIDE DEF middle
<1>3. middle \in 1 .. d.per /\ middle + 1 \in 1 .. d.per + 1 /\ middle - 1 \in 0 .. d.per /\ middle \in 0 .. d.per
  BY <1>1, <1>2
<1>4. GasLimit(d, middle) # Unread
  BY <1>3, GasFacts
<1> QED BY <1>2, <1>3, <1>4 DEF middle

\* One step of the search keeps the answer.
LEMMA SearchStep ==
  ASSUME NEW d, Plannable(d), NEW fee \in BaseFees, NEW low \in 1 .. d.per + 1, NEW high \in 0 .. d.per, NEW best \in 0 .. d.per, NEW r
  PROVE  LET middle == (low + high) \div 2 IN
         /\ low > high => (IsAnswer(d, fee, low, high, best, r) <=> r = best)
         /\ low <= high =>
              /\ Fits(d, middle, fee) => (IsAnswer(d, fee, middle + 1, high, middle, r) => IsAnswer(d, fee, low, high, best, r))
              /\ ~Fits(d, middle, fee) => (IsAnswer(d, fee, low, middle - 1, best, r) => IsAnswer(d, fee, low, high, best, r))
<1> DEFINE middle == (low + high) \div 2
<1>1. d.per \in Nat /\ d.per > 0
  BY GasFacts
<1>2. CASE low > high
  <2>1. Fitting(d, fee, low, high) = {}
    BY <1>1, <1>2 DEF Fitting
  <2> QED BY <1>1, <1>2, <2>1 DEF IsAnswer
<1>3. CASE low <= high
  <2>1. middle \in low .. high
    BY <1>3, SearchSplits
  <2> HIDE DEF middle
  <2>2. middle \in 1 .. d.per
    BY <1>1, <2>1
  <2>4. ASSUME Fits(d, middle, fee), IsAnswer(d, fee, middle + 1, high, middle, r) PROVE IsAnswer(d, fee, low, high, best, r)
    <3>1. middle \in Fitting(d, fee, low, high)
      BY <2>1, <2>4 DEF Fitting
    <3>2. \A q \in Fitting(d, fee, low, high) : q \in Int /\ (q <= middle \/ q \in Fitting(d, fee, middle + 1, high))
      BY <1>1, <2>1 DEF Fitting
    <3>3. Fitting(d, fee, middle + 1, high) \subseteq Fitting(d, fee, low, high)
      BY <1>1, <2>1 DEF Fitting
    <3>4. \A q \in Fitting(d, fee, middle + 1, high) : q > middle
      BY <1>1, <2>1 DEF Fitting
    <3>5. CASE r = middle /\ Fitting(d, fee, middle + 1, high) = {}
      BY <3>1, <3>2, <3>5 DEF IsAnswer
    <3>6. CASE r \in Fitting(d, fee, middle + 1, high) /\ \A q \in Fitting(d, fee, middle + 1, high) : q <= r
      <4>1. r \in Fitting(d, fee, low, high) /\ r > middle /\ r \in Int
        BY <3>2, <3>3, <3>4, <3>6
      <4>2. \A q \in Fitting(d, fee, low, high) : q <= r
        BY <2>2, <3>2, <3>6, <4>1
      <4> QED BY <4>1, <4>2 DEF IsAnswer
    <3> QED BY <2>4, <3>5, <3>6 DEF IsAnswer
  <2>5. ASSUME ~Fits(d, middle, fee), IsAnswer(d, fee, low, middle - 1, best, r) PROVE IsAnswer(d, fee, low, high, best, r)
    <3>1. \A q \in middle .. high : ~Fits(d, q, fee)
      BY <1>1, <2>1, <2>2, <2>5, GasFacts
    <3>2. Fitting(d, fee, low, high) = Fitting(d, fee, low, middle - 1)
      BY <1>1, <2>1, <3>1 DEF Fitting
    <3> QED BY <2>5, <3>2 DEF IsAnswer
  <2> QED BY <1>1, <1>3, <2>4, <2>5 DEF middle
<1> QED BY <1>1, <1>2, <1>3

\* The answers make a table, so the search is one.
LEMMA SearchExists ==
  ASSUME NEW d, Plannable(d), NEW fee \in BaseFees
  PROVE  SearchTable(d, fee, Search(d, fee))
<1> DEFINE A == [s \in Intervals(d) |-> Answer(d, fee, s[1], s[2], s[3])]
<1>0. d.per \in Nat
  BY GasFacts
<1>1. \A low \in 1 .. d.per + 1, high \in 0 .. d.per, best \in 0 .. d.per :
        A[<<low, high, best>>] = Answer(d, fee, low, high, best)
  BY DEF Intervals
<1> HIDE DEF A
<1>2. ASSUME NEW low \in 1 .. d.per + 1, NEW high \in 0 .. d.per, NEW best \in 0 .. d.per
      PROVE  Answer(d, fee, low, high, best) = SearchedFrom(d, fee, A, low, high, best)
  <2> DEFINE middle == (low + high) \div 2
             r == Answer(d, fee, low, high, best)
             s == SearchedFrom(d, fee, A, low, high, best)
  <2>1. IsAnswer(d, fee, low, high, best, s)
    <3>1. CASE low > high
      <4>1. s = best
        BY <3>1 DEF SearchedFrom
      <4> HIDE DEF s
      <4> QED BY <3>1, <4>1, SearchStep
    <3>2. CASE ~(low > high)
      <4>1. low <= high
        BY <1>0, <3>2
      <4>2. /\ middle \in low .. high /\ middle + 1 \in 1 .. d.per + 1 /\ middle - 1 \in 0 .. d.per /\ middle \in 0 .. d.per
            /\ GasLimit(d, middle) # Unread
        BY <4>1, SearchSplits
      <4>3. CASE Fits(d, middle, fee)
        <5>1. s = A[<<middle + 1, high, middle>>]
          BY <3>2, <4>2, <4>3 DEF SearchedFrom
        <5> HIDE DEF s
        <5>2. IsAnswer(d, fee, middle + 1, high, middle, s)
          <6> HIDE DEF middle
          <6>1. s = Answer(d, fee, middle + 1, high, middle)
            BY <1>1, <4>2, <5>1
          <6> QED BY <4>2, <6>1, AnswerIs
        <5> QED BY <4>1, <4>3, <5>2, SearchStep
      <4>4. CASE ~Fits(d, middle, fee)
        <5>1. s = A[<<low, middle - 1, best>>]
          BY <3>2, <4>2, <4>4 DEF SearchedFrom
        <5> HIDE DEF s
        <5>2. IsAnswer(d, fee, low, middle - 1, best, s)
          <6> HIDE DEF middle
          <6>1. s = Answer(d, fee, low, middle - 1, best)
            BY <1>1, <4>2, <5>1
          <6> QED BY <4>2, <6>1, AnswerIs
        <5> QED BY <4>1, <4>4, <5>2, SearchStep
      <4> QED BY <4>3, <4>4
    <3> QED BY <3>1, <3>2
  <2>2. IsAnswer(d, fee, low, high, best, r)
    BY AnswerIs
  <2> HIDE DEF r, s
  <2>3. r = s
    BY <2>1, <2>2, OneAnswer
  <2> QED BY <2>3 DEF r, s
<1>3. \A s \in Intervals(d) : s[1] \in 1 .. d.per + 1 /\ s[2] \in 0 .. d.per /\ s[3] \in 0 .. d.per
  BY DEF Intervals
<1>4. A = [s \in Intervals(d) |-> SearchedFrom(d, fee, A, s[1], s[2], s[3])]
  <2>1. \A s \in Intervals(d) : Answer(d, fee, s[1], s[2], s[3]) = SearchedFrom(d, fee, A, s[1], s[2], s[3])
    BY <1>2, <1>3
  <2>2. A = [s \in Intervals(d) |-> Answer(d, fee, s[1], s[2], s[3])]
    BY DEF A
  <2> QED BY <2>1, <2>2
<1> QED BY <1>4 DEF Search, SearchTable

\* How many quantities are left to look at.
Left(low, high) == IF low > high THEN 0 ELSE high - low + 1

\* The search finds the answer, from any interval: take the smallest from which it does not.
LEMMA SearchAnswers ==
  ASSUME NEW d, Plannable(d), NEW fee \in BaseFees
  PROVE  \A low \in 1 .. d.per + 1, high \in 0 .. d.per, best \in 0 .. d.per :
            IsAnswer(d, fee, low, high, best, Search(d, fee)[<<low, high, best>>])
<1> DEFINE f == Search(d, fee)
           Wrong(n) == \E low \in 1 .. d.per + 1, high \in 0 .. d.per, best \in 0 .. d.per :
                          Left(low, high) = n /\ ~IsAnswer(d, fee, low, high, best, f[<<low, high, best>>])
           T == {n \in Nat : Wrong(n)}
<1>0. d.per \in Nat
  BY GasFacts
<1>1. \A low \in 1 .. d.per + 1, high \in 0 .. d.per, best \in 0 .. d.per :
        f[<<low, high, best>>] = SearchedFrom(d, fee, f, low, high, best)
  <2>1. f = [s \in Intervals(d) |-> SearchedFrom(d, fee, f, s[1], s[2], s[3])]
    BY SearchExists DEF SearchTable
  <2> HIDE DEF f
  <2> SUFFICES ASSUME NEW low \in 1 .. d.per + 1, NEW high \in 0 .. d.per, NEW best \in 0 .. d.per
               PROVE  f[<<low, high, best>>] = SearchedFrom(d, fee, f, low, high, best)
    OBVIOUS
  <2> DEFINE s == <<low, high, best>>
  <2>2. s \in Intervals(d) /\ s[1] = low /\ s[2] = high /\ s[3] = best
    BY DEF Intervals
  <2> HIDE DEF s
  <2>3. f[s] = SearchedFrom(d, fee, f, s[1], s[2], s[3])
    BY <2>1, <2>2
  <2> QED BY <2>2, <2>3 DEF s
<1> HIDE DEF f
<1>2. T = {}
  <2> SUFFICES ASSUME T # {} PROVE FALSE
    OBVIOUS
  <2>1. PICK n \in T : \A m \in T : n <= m
    <3>1. T \in SUBSET Nat
      OBVIOUS
    <3> HIDE DEF T
    <3> QED BY <3>1, LeastOf
  <2>2. n \in Nat /\ Wrong(n)
    OBVIOUS
  <2>3. \A m \in Nat : m < n => ~Wrong(m)
    <3>1. \A m \in Nat : Wrong(m) => m \in T
      OBVIOUS
    <3> HIDE DEF T, Wrong
    <3> QED BY <2>1, <2>2, <3>1
  <2>4. PICK low \in 1 .. d.per + 1, high \in 0 .. d.per, best \in 0 .. d.per :
          Left(low, high) = n /\ ~IsAnswer(d, fee, low, high, best, f[<<low, high, best>>])
    BY <2>2
  <2>5. \A l \in 1 .. d.per + 1, h \in 0 .. d.per, b \in 0 .. d.per : Left(l, h) < n => IsAnswer(d, fee, l, h, b, f[<<l, h, b>>])
    <3> SUFFICES ASSUME NEW l \in 1 .. d.per + 1, NEW h \in 0 .. d.per, NEW b \in 0 .. d.per, Left(l, h) < n
                 PROVE  IsAnswer(d, fee, l, h, b, f[<<l, h, b>>])
      OBVIOUS
    <3>1. Left(l, h) \in Nat
      <4>1. l \in Int /\ h \in Int
        BY <1>0
      <4> QED BY <4>1 DEF Left
    <3>2. ~Wrong(Left(l, h))
      <4> HIDE DEF Wrong, T
      <4> QED BY <2>3, <3>1
    <3> QED BY <3>2
  <2> HIDE DEF T, Wrong
  <2> DEFINE middle == (low + high) \div 2
             s == f[<<low, high, best>>]
  <2>6. CASE low > high
    <3>1. s = best
      BY <1>1, <2>6 DEF SearchedFrom
    <3> HIDE DEF s
    <3>2. IsAnswer(d, fee, low, high, best, s)
      BY <2>6, <3>1, SearchStep
    <3> QED BY <2>4, <3>2 DEF s
  <2>7. CASE ~(low > high)
    <3>1. low <= high /\ low \in Int /\ high \in Int
      BY <1>0, <2>7
    <3>2. /\ middle \in low .. high /\ middle + 1 \in 1 .. d.per + 1 /\ middle - 1 \in 0 .. d.per /\ middle \in 0 .. d.per
          /\ GasLimit(d, middle) # Unread
      BY <3>1, SearchSplits
    <3>3. s = IF Fits(d, middle, fee) THEN f[<<middle + 1, high, middle>>] ELSE f[<<low, middle - 1, best>>]
      BY <1>1, <2>7, <3>2 DEF SearchedFrom
    <3>4. Left(middle + 1, high) < n /\ Left(low, middle - 1) < n
      <4> HIDE DEF middle
      <4>1. middle \in Int /\ low <= middle /\ middle <= high
        BY <1>0, <3>1, <3>2
      <4>2. n = high - low + 1
        BY <2>4, <3>1 DEF Left
      <4>3. Left(middle + 1, high) < n
        BY <3>1, <4>1, <4>2 DEF Left
      <4>4. Left(low, middle - 1) < n
        BY <3>1, <4>1, <4>2 DEF Left
      <4> QED BY <4>3, <4>4
    <3> HIDE DEF s
    <3>5. CASE Fits(d, middle, fee)
      <4>1. IsAnswer(d, fee, middle + 1, high, middle, s)
        <5> HIDE DEF middle
        <5>1. IsAnswer(d, fee, middle + 1, high, middle, f[<<middle + 1, high, middle>>])
          BY <2>5, <3>2, <3>4
        <5> QED BY <3>3, <3>5, <5>1
      <4>2. IsAnswer(d, fee, low, high, best, s)
        BY <3>1, <3>5, <4>1, SearchStep
      <4> QED BY <2>4, <4>2 DEF s
    <3>6. CASE ~Fits(d, middle, fee)
      <4>1. IsAnswer(d, fee, low, middle - 1, best, s)
        <5> HIDE DEF middle
        <5>1. IsAnswer(d, fee, low, middle - 1, best, f[<<low, middle - 1, best>>])
          BY <2>5, <3>2, <3>4
        <5> QED BY <3>3, <3>6, <5>1
      <4>2. IsAnswer(d, fee, low, high, best, s)
        BY <3>1, <3>6, <4>1, SearchStep
      <4> QED BY <2>4, <4>2 DEF s
    <3> QED BY <3>5, <3>6
  <2> QED BY <2>6, <2>7
<1> SUFFICES ASSUME NEW low \in 1 .. d.per + 1, NEW high \in 0 .. d.per, NEW best \in 0 .. d.per
             PROVE  IsAnswer(d, fee, low, high, best, f[<<low, high, best>>])
  BY DEF f
<1>3. Left(low, high) \in Nat
  <2>1. low \in Int /\ high \in Int
    BY <1>0
  <2> QED BY <2>1 DEF Left
<1>4. ~Wrong(Left(low, high))
  <2> HIDE DEF Wrong
  <2> QED BY <1>2, <1>3
<1> QED BY <1>4

\* For every drop of which all estimates are known, the plan is the largest quantity that fits.
LEMMA LargestPlanned ==
  PlanIsLargest
<1> SUFFICES ASSUME NEW d \in Catalogue, NEW fee \in BaseFees, Purses # {}, d.per > 0, Estimated(d)
             PROVE  FreePlan(d, fee).quantity = Max({0} \union {q \in 1 .. d.per : Fits(d, q, fee)})
  BY DEF PlanIsLargest
<1> DEFINE S == {0} \union {q \in 1 .. d.per : Fits(d, q, fee)}
<1>1. Plannable(d) /\ d.per \in Nat /\ d.per - 1 \in 0 .. d.per /\ 1 \in 1 .. d.per + 1 /\ 0 \in 0 .. d.per
  BY CatalogueAssumption DEF Plannable
<1>2. S \subseteq Nat
  BY <1>1
<1>3. ASSUME NEW x \in S, \A y \in S : x >= y PROVE Max(S) = x
  <2> HIDE DEF S
  <2>1. Max(S) \in S /\ \A y \in S : Max(S) >= y
    BY <1>3 DEF Max
  <2>2. Max(S) >= x /\ x >= Max(S) /\ x \in Nat /\ Max(S) \in Nat
    BY <1>2, <1>3, <2>1
  <2> QED BY <2>2
<1>4. GasLimit(d, d.per) # Unread /\ Purses # {} /\ fee # Unread
  <2>1. d.per \in 1 .. d.per
    BY <1>1
  <2>2. GasLimit(d, d.per) # Unread
    BY <1>1, <2>1, GasFacts
  <2>3. fee # Unread
    BY ReadinessAssumption DEF Unread
  <2> QED BY <2>2, <2>3
<1>5. CASE Fits(d, d.per, fee)
  <2>1. FreePlan(d, fee) = [quantity |-> d.per, reduced |-> FALSE]
    BY <1>5 DEF FreePlan
  <2>2. d.per \in S /\ \A y \in S : d.per >= y
    BY <1>1, <1>5
  <2> QED BY <1>3, <2>1, <2>2
<1>6. CASE ~Fits(d, d.per, fee)
  <2> DEFINE r == Searched(d, fee)
  <2>1. IsAnswer(d, fee, 1, d.per - 1, 0, r)
    BY <1>1, SearchAnswers, SearchedIs
  <2>2. \A q \in Fitting(d, fee, 1, d.per - 1) : q \in 1 .. d.per - 1 /\ q \in S
    BY <1>1 DEF Fitting
  <2>3. \A q \in S : q = 0 \/ q \in Fitting(d, fee, 1, d.per - 1)
    BY <1>1, <1>6 DEF Fitting
  <2> HIDE DEF r
  <2>4. r \in S /\ r # Unread /\ \A y \in S : r >= y
    <3>1. CASE r = 0 /\ Fitting(d, fee, 1, d.per - 1) = {}
      BY <2>3, <3>1 DEF Unread
    <3>2. CASE r \in Fitting(d, fee, 1, d.per - 1) /\ \A q \in Fitting(d, fee, 1, d.per - 1) : q <= r
      <4>1. r \in 1 .. d.per - 1 /\ r \in S
        BY <2>2, <3>2
      <4>2. \A y \in S : r >= y
        <5> HIDE DEF S
        <5> QED BY <1>2, <2>3, <3>2, <4>1, <1>1
      <4> QED BY <1>1, <4>1, <4>2 DEF Unread
    <3> QED BY <2>1, <3>1, <3>2 DEF IsAnswer
  <2>5. FreePlan(d, fee) = [quantity |-> r, reduced |-> TRUE]
    BY <1>4, <1>6, <2>4 DEF FreePlan, r
  <2> QED BY <1>3, <2>4, <2>5
<1> QED BY <1>5, <1>6

-----------------------------------------------------------------------------
(* The score                                                               *)

\* What the known factors could add up to, as a sum of the lemmas about sums.
LEMMA AvailableIs ==
  ASSUME NEW p \in Evidence
  PROVE  Available(p) = SumOf([f \in Known(p) |-> f.max], Known(p))
<1> DEFINE K == Known(p)
           mx == [f \in K |-> f.max]
           G(g) == g = [s \in SUBSET K |-> IF s = {} THEN 0 ELSE Pick1(s).max + g[s \ {Pick1(s)}]]
<1>1. Available(p) = (CHOOSE g : G(g))[K]
  BY DEF Available, MapThenSumSet, MapThenFoldSet, Pick1
<1>2. \A s \in SUBSET K : s # {} => mx[Pick1(s)] = Pick1(s).max
  <2>1. \A s \in SUBSET K : s # {} => Pick1(s) \in K
    BY PickIn
  <2> QED BY <2>1
<1> HIDE DEF mx, K
<1>3. ASSUME NEW g PROVE G(g) <=> Table(mx, K, g)
  <2>1. [s \in SUBSET K |-> IF s = {} THEN 0 ELSE Pick1(s).max + g[s \ {Pick1(s)}]]
        = [s \in SUBSET K |-> IF s = {} THEN 0 ELSE mx[Pick1(s)] + g[s \ {Pick1(s)}]]
    BY <1>2
  <2> QED BY <2>1 DEF Table
<1> HIDE DEF G
<1>4. (CHOOSE g : G(g)) = (CHOOSE g : Table(mx, K, g))
  BY <1>3, Zenon
<1>5. (CHOOSE g : Table(mx, K, g)) = Partial(mx, K)
  BY DEF Partial
<1> QED BY <1>1, <1>4, <1>5, SumIs DEF mx, K

\* One element adds its value to a sum, or nothing when it is not there.
LEMMA SumDrops ==
  ASSUME NEW f, NEW S, IsFiniteSet(S), \A x \in S : f[x] \in Nat, NEW a, NEW n \in Nat, a \in S => f[a] <= n
  PROVE  /\ IsFiniteSet(S \ {a}) /\ \A x \in S \ {a} : f[x] \in Nat
         /\ SumOf(f, S) <= n + SumOf(f, S \ {a})
<1>1. IsFiniteSet(S \ {a}) /\ \A x \in S \ {a} : f[x] \in Nat
  BY FS_RemoveElement, FS_Subset
<1>2. SumOf(f, S) \in Nat /\ SumOf(f, S \ {a}) \in Nat
  BY <1>1, SumType
<1>3. CASE a \in S
  <2>1. SumOf(f, S) = f[a] + SumOf(f, S \ {a})
    BY <1>3, SumTakes
  <2> QED BY <1>1, <1>2, <1>3, <2>1
<1>4. CASE a \notin S
  <2>1. S \ {a} = S
    BY <1>4
  <2> QED BY <1>1, <1>2, <2>1
<1> QED BY <1>3, <1>4

\* Sixty points of the model are known only with watched wallets, price and code.
LEMMA MostIsKnown ==
  ASSUME NEW p \in Evidence, Available(p) >= 60
  PROVE  p.watching /\ p.price # Unread /\ p.code # "unknown"
<1> DEFINE K == Known(p)
           mx == [f \in K |-> f.max]
           watched == [code |-> "convergence", known |-> p.watching, max |-> 20,
                       points |-> CASE p.watched >= 3 -> 20 [] p.watched = 2 -> 14 [] p.watched = 1 -> 8 [] OTHER -> 0]
           priced == [code |-> "price", known |-> p.price # Unread, points |-> PricePoints(p.price), max |-> 12]
           like == [code |-> "known_pattern", known |-> TRUE, points |-> IF p.pattern THEN 6 ELSE 0, max |-> 6]
           coded == [code |-> "contract_code", known |-> p.code # "unknown", points |-> IF p.code = "yes" THEN 3 ELSE 0, max |-> 3]
           wanted == [code |-> "demand", known |-> TRUE, max |-> 10,
                      points |-> CASE p.mints >= 50 -> 10 [] p.mints >= 10 -> 6 [] p.mints >= 1 -> 3 [] OTHER -> 0]
           fresh == [code |-> "freshness", known |-> TRUE, points |-> Freshness(p.age), max |-> 10]
<1>1. K \subseteq {watched, priced, like, coded, wanted, fresh} /\ \A f \in K : f.known
  BY DEF Known, Factors
<1>2. /\ (watched.known => p.watching) /\ (priced.known => p.price # Unread) /\ (coded.known => p.code # "unknown")
      /\ watched.max = 20 /\ priced.max = 12 /\ like.max = 6 /\ coded.max = 3 /\ wanted.max = 10 /\ fresh.max = 10
  OBVIOUS
<1>3. Available(p) = SumOf(mx, K)
  BY AvailableIs
<1> HIDE DEF K, watched, priced, like, coded, wanted, fresh
<1>4. \A f \in K : mx[f] = f.max
  OBVIOUS
<1> HIDE DEF mx
<1>5. IsFiniteSet(K)
  <2>1. IsFiniteSet({watched, priced, like, coded, wanted, fresh})
    <3>1. IsFiniteSet({watched}) /\ IsFiniteSet({priced}) /\ IsFiniteSet({like}) /\ IsFiniteSet({coded})
          /\ IsFiniteSet({wanted}) /\ IsFiniteSet({fresh})
      BY FS_Singleton
    <3>2. IsFiniteSet({watched} \union {priced}) /\ IsFiniteSet({like} \union {coded}) /\ IsFiniteSet({wanted} \union {fresh})
      BY <3>1, FS_Union
    <3>3. IsFiniteSet((({watched} \union {priced}) \union ({like} \union {coded})) \union ({wanted} \union {fresh}))
      <4>1. IsFiniteSet(({watched} \union {priced}) \union ({like} \union {coded}))
        BY <3>2, FS_Union
      <4> QED BY <3>2, <4>1, FS_Union
    <3>4. {watched, priced, like, coded, wanted, fresh}
            = (({watched} \union {priced}) \union ({like} \union {coded})) \union ({wanted} \union {fresh})
      OBVIOUS
    <3> QED BY <3>3, <3>4
  <2> QED BY <1>1, <2>1, FS_Subset
<1>6. \A f \in K : mx[f] \in Nat
  BY <1>1, <1>2, <1>4
<1> DEFINE nw == IF p.watching THEN 20 ELSE 0
           np == IF p.price # Unread THEN 12 ELSE 0
           nc == IF p.code # "unknown" THEN 3 ELSE 0
           k1 == K \ {watched}
           k2 == k1 \ {priced}
           k3 == k2 \ {coded}
           k4 == k3 \ {like}
           k5 == k4 \ {wanted}
           k6 == k5 \ {fresh}
<1>7. /\ nw \in Nat /\ np \in Nat /\ nc \in Nat
      /\ watched \in K => mx[watched] <= nw
      /\ priced \in K => mx[priced] <= np
      /\ coded \in K => mx[coded] <= nc
      /\ like \in K => mx[like] <= 6
      /\ wanted \in K => mx[wanted] <= 10
      /\ fresh \in K => mx[fresh] <= 10
  <2>1. nw \in Nat /\ np \in Nat /\ nc \in Nat
    OBVIOUS
  <2>2. watched \in K => mx[watched] <= nw
    BY <1>1, <1>2, <1>4
  <2>3. priced \in K => mx[priced] <= np
    <3>1. priced \in K => priced.known
      BY <1>1
    <3> QED BY <1>2, <1>4, <3>1
  <2>4. coded \in K => mx[coded] <= nc
    <3>1. coded \in K => coded.known
      BY <1>1
    <3> QED BY <1>2, <1>4, <3>1
  <2>5. /\ like \in K => mx[like] <= 6
        /\ wanted \in K => mx[wanted] <= 10
        /\ fresh \in K => mx[fresh] <= 10
    BY <1>2, <1>4
  <2> QED BY <2>1, <2>2, <2>3, <2>4, <2>5
<1>8. k6 = {}
  BY <1>1
<1>9. k1 \subseteq K /\ k2 \subseteq K /\ k3 \subseteq K /\ k4 \subseteq K /\ k5 \subseteq K
  OBVIOUS
<1>10. nw + np + nc <= 35 /\ (nw + np + nc >= 34 => p.watching /\ p.price # Unread /\ p.code # "unknown")
  OBVIOUS
<1> HIDE DEF nw, np, nc
<1>11. IsFiniteSet(k1) /\ (\A x \in k1 : mx[x] \in Nat) /\ SumOf(mx, K) <= nw + SumOf(mx, k1)
  BY <1>5, <1>6, <1>7, SumDrops
<1> HIDE DEF k1
<1>12. IsFiniteSet(k2) /\ (\A x \in k2 : mx[x] \in Nat) /\ SumOf(mx, k1) <= np + SumOf(mx, k2)
  BY <1>7, <1>9, <1>11, SumDrops
<1> HIDE DEF k2
<1>13. IsFiniteSet(k3) /\ (\A x \in k3 : mx[x] \in Nat) /\ SumOf(mx, k2) <= nc + SumOf(mx, k3)
  BY <1>7, <1>9, <1>12, SumDrops
<1> HIDE DEF k3
<1>14. IsFiniteSet(k4) /\ (\A x \in k4 : mx[x] \in Nat) /\ SumOf(mx, k3) <= 6 + SumOf(mx, k4)
  BY <1>7, <1>9, <1>13, SumDrops
<1> HIDE DEF k4
<1>15. IsFiniteSet(k5) /\ (\A x \in k5 : mx[x] \in Nat) /\ SumOf(mx, k4) <= 10 + SumOf(mx, k5)
  BY <1>7, <1>9, <1>14, SumDrops
<1> HIDE DEF k5
<1>16. SumOf(mx, k5) <= 10 + SumOf(mx, k6)
  BY <1>7, <1>9, <1>15, SumDrops
<1>17. SumOf(mx, k6) = 0
  BY <1>5, <1>6, <1>8, SumType
<1>18. /\ SumOf(mx, K) \in Nat /\ SumOf(mx, k1) \in Nat /\ SumOf(mx, k2) \in Nat /\ SumOf(mx, k3) \in Nat
       /\ SumOf(mx, k4) \in Nat /\ SumOf(mx, k5) \in Nat
  BY <1>5, <1>6, <1>11, <1>12, <1>13, <1>14, <1>15, SumType
<1>19. nw + np + nc >= 34
  BY <1>3, <1>7, <1>11, <1>12, <1>13, <1>14, <1>15, <1>16, <1>17, <1>18
<1> QED BY <1>10, <1>19

\* So a proposal rests on all three.
LEMMA BackedProposals ==
  ProposalsAreBacked
<1> SUFFICES ASSUME NEW p \in Evidence, Band(p) = "proposal"
             PROVE  p.watching /\ p.price # Unread /\ p.price <= PriceLimit /\ p.code = "yes"
  BY DEF ProposalsAreBacked
<1>1. p.price \in Nat \union {Unread} /\ p.code \in {"yes", "no", "unknown"} /\ PriceLimit \in Nat
  BY CatalogueAssumption, ReadinessAssumption
<1>2. ~BlockedOut(p) /\ Available(p) >= 60
  BY DEF Band
<1>3. p.watching /\ p.price # Unread /\ p.code # "unknown"
  BY <1>2, MostIsKnown
<1>4. p.price <= PriceLimit /\ p.code # "no"
  BY <1>1, <1>2, <1>3 DEF BlockedOut
<1> QED BY <1>1, <1>3, <1>4

-----------------------------------------------------------------------------
(* The sweep                                                               *)

\* What a plan or a row can say.
Blocks == {"", "NO_MINT_ALLOWANCE", "FEES_TOO_HIGH", "PRICE_ABOVE_LIMIT", "SCORE_UNKNOWN", "SCORE_TOO_LOW"}
Plans(p) == p.required \in Nat /\ p.block \in Blocks
States == {"unknown", "blocked", "skipped", "unfunded", "funded", "ready"}
Reasons == Blocks \union {"BALANCE_UNAVAILABLE", "NEEDS_TOP_UP", "CHECK_RUNS_WHEN_OPEN", "SIMULATION_PASSED",
                          "SIMULATION_FAILED", "SIMULATION_UNAVAILABLE", "PAID_WALLET_LIMIT"}
RowKinds == [state : States, reason : Reasons, balance : Nat \union {Unread}]
Rows(rows) == rows \in [Purses -> RowKinds]

\* Rows that no limit has touched yet: who is short of money holds less than the plan asks for.
Untouched(plan, rows) ==
  \A w \in Purses : /\ rows[w].reason # "PAID_WALLET_LIMIT"
                    /\ rows[w].state = "unfunded" => rows[w].balance < plan.required

\* What BestWalletsKept says, of any plan and rows.
Best(plan, rows) ==
  plan.kind = "paid" =>
    LET kept == {w \in Purses : InReach(rows[w])}
        away == {w \in Purses : rows[w].reason = "PAID_WALLET_LIMIT"} IN
    /\ Cardinality(kept) <= WalletLimit
    /\ \A w \in away, v \in kept : rows[w].balance >= plan.required => rows[v].balance >= rows[w].balance
    /\ away # {} => Cardinality(kept) = WalletLimit

\* The shapes of the records.
SweepShapes ==
  /\ sweep = [pc |-> sweep.pc, opens |-> sweep.opens, plan |-> sweep.plan, next |-> sweep.next, rows |-> sweep.rows]
  /\ Plans(sweep.plan) /\ Rows(sweep.rows)
  /\ lastEmit = [at |-> lastEmit.at, signature |-> lastEmit.signature]
  /\ saved = [at |-> saved.at, plan |-> saved.plan, rows |-> saved.rows]

\* From the first wallet's check to the transaction: fresh rows, then judged ones, then stored ones.
SweepInv ==
  /\ ReadinessTypeOK /\ SweepShapes
  /\ sweep.pc = "check" => Untouched(sweep.plan, sweep.rows)
  /\ sweep.pc = "store" => Best(sweep.plan, sweep.rows)
  /\ Best(saved.plan, saved.rows)

-----------------------------------------------------------------------------
(* The wallets that keep their place                                       *)

\* The wallets in reach that come before this one.
Ahead(rows, w) == {v \in Purses : InReach(rows[v]) /\ Before(rows, v, w)}

\* Of two wallets one comes first, and what comes first is ordered.
LEMMA WalletOrder ==
  ASSUME NEW rows, Rows(rows)
  PROVE  /\ \A v \in Purses : ~Before(rows, v, v)
         /\ \A v, w \in Purses : v # w => Before(rows, v, w) \/ Before(rows, w, v)
         /\ \A u, v, w \in Purses : Before(rows, u, v) /\ Before(rows, v, w) => Before(rows, u, w)
<1> DEFINE b == [w \in Purses |-> rows[w].balance]
           c == {w \in Purses : CanPay(rows[w])}
<1>1. \A w \in Purses : b[w] \in Int /\ w \in Int
  BY ReadinessAssumption DEF Rows, RowKinds, Unread
<1>2. ASSUME NEW v \in Purses, NEW w \in Purses
      PROVE  Before(rows, v, w) <=>
        \/ v \in c /\ w \notin c
        \/ (v \in c <=> w \in c) /\ (b[v] > b[w] \/ (b[v] = b[w] /\ v < w))
  <2>1. (CanPay(rows[v]) = CanPay(rows[w])) <=> (CanPay(rows[v]) <=> CanPay(rows[w]))
    BY DEF CanPay
  <2>2. (v \in c <=> CanPay(rows[v])) /\ (w \in c <=> CanPay(rows[w]))
    OBVIOUS
  <2>3. b[v] = rows[v].balance /\ b[w] = rows[w].balance
    OBVIOUS
  <2> HIDE DEF b, c
  <2>4. Before(rows, v, w) <=>
          \/ CanPay(rows[v]) /\ ~CanPay(rows[w])
          \/ (CanPay(rows[v]) <=> CanPay(rows[w])) /\ (b[v] > b[w] \/ (b[v] = b[w] /\ v < w))
    BY <2>1, <2>3, Zenon DEF Before
  <2> QED BY <2>2, <2>4
<1> HIDE DEF b, c
<1>3. \A v \in Purses : ~Before(rows, v, v)
  BY <1>1, <1>2
<1>4. \A v, w \in Purses : v # w => Before(rows, v, w) \/ Before(rows, w, v)
  <2> SUFFICES ASSUME NEW v \in Purses, NEW w \in Purses, v # w PROVE Before(rows, v, w) \/ Before(rows, w, v)
    OBVIOUS
  <2> QED BY <1>1, <1>2
<1>5. \A u, v, w \in Purses : Before(rows, u, v) /\ Before(rows, v, w) => Before(rows, u, w)
  <2> SUFFICES ASSUME NEW u \in Purses, NEW v \in Purses, NEW w \in Purses, Before(rows, u, v), Before(rows, v, w)
               PROVE  Before(rows, u, w)
    OBVIOUS
  <2> QED BY <1>1, <1>2
<1> QED BY <1>3, <1>4, <1>5

\* Who comes later has more wallets ahead, in a finite set of them.
LEMMA AheadGrows ==
  ASSUME NEW rows, Rows(rows)
  PROVE  /\ \A w \in Purses : IsFiniteSet(Ahead(rows, w)) /\ Cardinality(Ahead(rows, w)) \in 0 .. Cardinality(Purses)
         /\ Cardinality(Purses) \in Nat
         /\ \A v, w \in Purses : InReach(rows[v]) /\ Before(rows, v, w) =>
              Cardinality(Ahead(rows, v)) < Cardinality(Ahead(rows, w))
<1>0. IsFiniteSet(Purses) /\ Cardinality(Purses) \in Nat
  BY CatalogueAssumption, FS_CardinalityType
<1>1. ASSUME NEW w \in Purses PROVE IsFiniteSet(Ahead(rows, w)) /\ Cardinality(Ahead(rows, w)) \in 0 .. Cardinality(Purses)
  <2>1. Ahead(rows, w) \subseteq Purses
    BY DEF Ahead
  <2>2. IsFiniteSet(Ahead(rows, w)) /\ Cardinality(Ahead(rows, w)) <= Cardinality(Purses)
    BY <1>0, <2>1, FS_Subset
  <2>3. Cardinality(Ahead(rows, w)) \in Nat
    BY <2>2, FS_CardinalityType
  <2> QED BY <1>0, <2>2, <2>3
<1>2. ASSUME NEW v \in Purses, NEW w \in Purses, InReach(rows[v]), Before(rows, v, w)
      PROVE  Cardinality(Ahead(rows, v)) < Cardinality(Ahead(rows, w))
  <2> DEFINE P == Ahead(rows, v)
             Q == Ahead(rows, w)
  <2>1. v \notin P /\ P \union {v} \subseteq Q
    BY <1>2, WalletOrder DEF Ahead
  <2>2. IsFiniteSet(P) /\ IsFiniteSet(Q) /\ Cardinality(P) \in Nat /\ Cardinality(Q) \in Nat
    BY <1>0, <1>1
  <2> HIDE DEF P, Q
  <2>3. Cardinality(P \union {v}) = Cardinality(P) + 1
    BY <2>1, <2>2, FS_AddElement
  <2>4. Cardinality(P \union {v}) <= Cardinality(Q)
    BY <2>1, <2>2, FS_Subset
  <2>5. Cardinality(P) < Cardinality(Q)
    BY <2>2, <2>3, <2>4
  <2> QED BY <2>5 DEF P, Q
<1> QED BY <1>0, <1>1, <1>2

\* Of the wallets in reach, those with fewer than the limit ahead: no more than
\* the limit, and as many as the limit when somebody in reach is not among them.
LEMMA PlacesTaken ==
  ASSUME NEW rows, Rows(rows), NEW kept,
         kept = {w \in Purses : InReach(rows[w]) /\ Cardinality(Ahead(rows, w)) < WalletLimit}
  PROVE  /\ Cardinality(kept) <= WalletLimit
         /\ (\E w \in Purses : InReach(rows[w]) /\ Cardinality(Ahead(rows, w)) >= WalletLimit) =>
              Cardinality(kept) = WalletLimit
<1> DEFINE n == [w \in Purses |-> Cardinality(Ahead(rows, w))]
<1>0. WalletLimit \in Nat
  BY ReadinessAssumption
<1>1. /\ \A w \in Purses : n[w] \in 0 .. Cardinality(Purses) /\ IsFiniteSet(Ahead(rows, w))
      /\ Cardinality(Purses) \in Nat
      /\ \A v, w \in Purses : InReach(rows[v]) /\ Before(rows, v, w) => n[v] < n[w]
  BY AheadGrows
<1>2. kept = {w \in Purses : InReach(rows[w]) /\ n[w] < WalletLimit}
  OBVIOUS
<1>3. \A w \in Purses : n[w] = Cardinality(Ahead(rows, w))
  OBVIOUS
<1>4. IsFiniteSet(kept) /\ Cardinality(kept) \in Nat
  <2>1. kept \subseteq Purses
    BY <1>2
  <2> QED BY <2>1, CatalogueAssumption, FS_Subset, FS_CardinalityType
<1> HIDE DEF n
<1>5. Cardinality(kept) <= WalletLimit
  <2>1. CASE kept = {}
    BY <1>0, <2>1, FS_EmptySet
  <2>2. CASE kept # {}
    <3> DEFINE S == {n[w] : w \in kept}
    <3>1. S \in SUBSET (0 .. Cardinality(Purses)) /\ S # {}
      BY <1>1, <1>2, <2>2
    <3>2. PICK x \in S : \A y \in S : y <= x
      <4> HIDE DEF S
      <4> QED BY <1>1, <3>1, LargestOf
    <3>3. PICK last \in kept : x = n[last]
      OBVIOUS
    <3>4. \A v \in kept : n[v] <= n[last]
      BY <3>2, <3>3
    <3>5. last \in Purses /\ InReach(rows[last]) /\ n[last] < WalletLimit
      BY <1>2
    <3>6. kept \ {last} \subseteq Ahead(rows, last)
      <4> SUFFICES ASSUME NEW v \in kept, v # last PROVE v \in Ahead(rows, last)
        OBVIOUS
      <4>1. v \in Purses /\ InReach(rows[v])
        BY <1>2
      <4>2. ~Before(rows, last, v)
        <5>1. Before(rows, last, v) => n[last] < n[v]
          BY <1>1, <3>5, <4>1
        <5>2. n[last] \in Int /\ n[v] \in Int /\ n[v] <= n[last]
          BY <1>1, <3>4, <3>5, <4>1
        <5> QED BY <5>1, <5>2
      <4> QED BY <3>5, <4>1, <4>2, WalletOrder DEF Ahead
    <3>7. Cardinality(kept \ {last}) = Cardinality(kept) - 1 /\ IsFiniteSet(kept \ {last})
      BY <1>4, FS_RemoveElement
    <3>8. Cardinality(kept \ {last}) <= n[last]
      BY <1>1, <1>3, <3>5, <3>6, FS_Subset
    <3>9. n[last] \in Int
      BY <1>1, <3>5
    <3> QED BY <1>0, <1>4, <3>5, <3>7, <3>8, <3>9
  <2> QED BY <2>1, <2>2
<1>6. ASSUME NEW w \in Purses, InReach(rows[w]), n[w] >= WalletLimit PROVE Cardinality(kept) = WalletLimit
  <2> DEFINE S == {n[v] : v \in {u \in Purses : InReach(rows[u]) /\ n[u] >= WalletLimit}}
  <2>1. S \in SUBSET Nat /\ S # {}
    BY <1>1, <1>6
  <2>2. PICK x \in S : \A y \in S : x <= y
    <3> HIDE DEF S
    <3> QED BY <2>1, LeastOf
  <2>3. PICK next \in Purses : InReach(rows[next]) /\ n[next] >= WalletLimit /\ x = n[next]
    OBVIOUS
  <2>4. \A v \in Purses : InReach(rows[v]) /\ n[v] >= WalletLimit => n[next] <= n[v]
    BY <2>2, <2>3
  <2> HIDE DEF S
  <2>5. Ahead(rows, next) \subseteq kept
    <3> SUFFICES ASSUME NEW v \in Ahead(rows, next) PROVE v \in kept
      OBVIOUS
    <3>1. v \in Purses /\ InReach(rows[v]) /\ Before(rows, v, next)
      BY DEF Ahead
    <3>2. n[v] < n[next] /\ n[v] \in Int /\ n[next] \in Int
      BY <1>1, <3>1
    <3>3. n[v] < WalletLimit
      BY <1>0, <2>4, <3>1, <3>2
    <3> QED BY <1>2, <3>1, <3>3
  <2>6. n[next] <= Cardinality(kept)
    BY <1>3, <1>4, <2>5, FS_Subset
  <2>7. n[next] \in Int
    BY <1>1
  <2> QED BY <1>0, <1>4, <1>5, <2>3, <2>6, <2>7
<1> QED BY <1>3, <1>5, <1>6

\* Judged, untouched rows of a paid drop keep the best wallets.
LEMMA JudgedBest ==
  ASSUME NEW plan, NEW rows, Plans(plan), Rows(rows), Untouched(plan, rows)
  PROVE  Rows(Judged(plan, rows)) /\ Best(plan, Judged(plan, rows))
<1>1. CASE plan.kind # "paid"
  BY <1>1 DEF Judged, Best
<1>2. CASE plan.kind = "paid"
  <2> DEFINE new == LimitPaidWallets(rows)
             over == {w \in Purses : InReach(rows[w]) /\ Cardinality(Ahead(rows, w)) >= WalletLimit}
             kept == {w \in Purses : InReach(new[w])}
             away == {w \in Purses : new[w].reason = "PAID_WALLET_LIMIT"}
  <2>1. Judged(plan, rows) = new
    BY <1>2 DEF Judged
  <2>2. \A w \in Purses : new[w] = IF w \in over THEN Row("skipped", "PAID_WALLET_LIMIT", rows[w].balance) ELSE rows[w]
    BY DEF LimitPaidWallets, Ahead
  <2>3. new = [w \in Purses |-> new[w]]
    BY DEF LimitPaidWallets
  <2> HIDE DEF new, over
  <2> DEFINE turned(w) == [state |-> "skipped", reason |-> "PAID_WALLET_LIMIT", balance |-> rows[w].balance]
  <2>4. \A w \in Purses : (w \in over => new[w] = turned(w)) /\ (w \notin over => new[w] = rows[w])
    BY <2>2 DEF Row
  <2>5. /\ \A w \in Purses : turned(w).state = "skipped" /\ turned(w).reason = "PAID_WALLET_LIMIT"
                              /\ turned(w).balance = rows[w].balance
        /\ \A w \in Purses : turned(w) \in RowKinds
    <3>1. \A w \in Purses : rows[w].balance \in Nat \union {Unread}
      BY DEF Rows, RowKinds
    <3>2. "skipped" \in States /\ "PAID_WALLET_LIMIT" \in Reasons
      BY DEF States, Reasons
    <3> QED BY <3>1, <3>2 DEF RowKinds
  <2> HIDE DEF turned
  <2>15. Rows(new)
    BY <2>3, <2>4, <2>5 DEF Rows
  <2>16. \A w \in Purses : new[w].balance = rows[w].balance
    BY <2>4, <2>5
  <2>6. \A w \in Purses : InReach(new[w]) <=> InReach(rows[w]) /\ w \notin over
    BY <2>4, <2>5 DEF InReach, over
  <2>7. \A w \in Purses : new[w].reason = "PAID_WALLET_LIMIT" <=> w \in over
    BY <2>4, <2>5 DEF Untouched
  <2>8. \A w \in Purses : Cardinality(Ahead(rows, w)) \in Int /\ rows[w].balance \in Int
    BY AheadGrows DEF Rows, RowKinds, Unread
  <2>9. WalletLimit \in Nat /\ plan.required \in Nat
    BY ReadinessAssumption DEF Plans
  <2>10. kept = {w \in Purses : InReach(rows[w]) /\ Cardinality(Ahead(rows, w)) < WalletLimit}
    BY <2>6, <2>8, <2>9 DEF over
  <2>11. away = over
    BY <2>7 DEF over
  <2> HIDE DEF kept, away
  <2>12. Cardinality(kept) <= WalletLimit
    BY <2>10, PlacesTaken
  <2>13. away # {} => Cardinality(kept) = WalletLimit
    BY <2>10, <2>11, PlacesTaken DEF over
  <2>14. ASSUME NEW w \in away, NEW v \in kept, new[w].balance >= plan.required
         PROVE  new[v].balance >= new[w].balance
    <3>1. /\ w \in Purses /\ InReach(rows[w]) /\ Cardinality(Ahead(rows, w)) >= WalletLimit
          /\ v \in Purses /\ InReach(rows[v]) /\ Cardinality(Ahead(rows, v)) < WalletLimit
      BY <2>10, <2>11 DEF over
    <3>2. ~Before(rows, w, v) /\ v # w
      <4>1. Before(rows, w, v) => Cardinality(Ahead(rows, w)) < Cardinality(Ahead(rows, v))
        BY <3>1, AheadGrows
      <4> QED BY <2>8, <2>9, <3>1, <4>1
    <3>3. Before(rows, v, w)
      BY <3>1, <3>2, WalletOrder
    <3>4. CanPay(rows[w])
      <4>1. rows[w].balance >= plan.required
        BY <2>16, <2>14, <3>1
      <4>2. rows[w].state # "unfunded"
        BY <2>8, <2>9, <3>1, <4>1 DEF Untouched
      <4> QED BY <3>1, <4>2 DEF InReach, CanPay
    <3>5. rows[v].balance >= rows[w].balance
      BY <2>8, <3>1, <3>3, <3>4 DEF Before
    <3> QED BY <2>16, <3>1, <3>5
  <2> QED BY <2>1, <2>15, <2>12, <2>13, <2>14 DEF Best, kept, away
<1> QED BY <1>1, <1>2

-----------------------------------------------------------------------------
(* A sweep, step by step                                                   *)

\* Whatever the fee reads, a plan asks for an amount and is open or says why not.
LEMMA PlanTyped ==
  ASSUME drop \in Drops, NEW fee
  PROVE  Plans(PlanOf(fee))
<1> DEFINE free == FreePlan(drop, fee)
           byScore == PaidQuantity(LatestScore)
           pieces == IF drop.per > 0 /\ drop.per < byScore THEN drop.per ELSE byScore
<1>1. drop.price \in Nat /\ drop.per \in Nat /\ FeeAllowance \in Nat
  BY ReadinessAssumption, CatalogueAssumption
<1>2. pieces \in Nat
  <2>1. byScore \in Nat
    BY DEF PaidQuantity
  <2> HIDE DEF byScore
  <2> QED BY <1>1, <2>1
<1>3. drop.price * pieces + FeeAllowance \in Nat
  <2> HIDE DEF pieces
  <2> QED BY <1>1, <1>2
<1> DEFINE plan(kind, q, required, block, reduced) ==
             [kind |-> kind, quantity |-> q, required |-> required, block |-> block, reduced |-> reduced]
<1>4. PlanOf(fee) =
        IF drop.price = 0
        THEN IF drop.per = 0 THEN plan("free", 0, FeeAllowance, "NO_MINT_ALLOWANCE", FALSE)
             ELSE plan("free", free.quantity, FeeAllowance, IF free.quantity = 0 THEN "FEES_TOO_HIGH" ELSE "", free.reduced)
        ELSE IF drop.price > PriceLimit THEN plan("paid", 0, 0, "PRICE_ABOVE_LIMIT", FALSE)
        ELSE IF pieces = 0 THEN plan("paid", 0, 0, IF LatestScore = Unread THEN "SCORE_UNKNOWN" ELSE "SCORE_TOO_LOW", FALSE)
        ELSE plan("paid", pieces, drop.price * pieces + FeeAllowance, "", FALSE)
  BY DEF PlanOf
<1>5. ASSUME NEW kind, NEW q, NEW required \in Nat, NEW block \in Blocks, NEW reduced
      PROVE  Plans(plan(kind, q, required, block, reduced))
  BY DEF Plans
<1>6. /\ "" \in Blocks /\ "NO_MINT_ALLOWANCE" \in Blocks /\ "FEES_TOO_HIGH" \in Blocks
      /\ "PRICE_ABOVE_LIMIT" \in Blocks /\ "SCORE_UNKNOWN" \in Blocks /\ "SCORE_TOO_LOW" \in Blocks
  BY DEF Blocks
<1> HIDE DEF plan, pieces, free
<1>7. /\ (IF free.quantity = 0 THEN "FEES_TOO_HIGH" ELSE "") \in Blocks
      /\ (IF LatestScore = Unread THEN "SCORE_UNKNOWN" ELSE "SCORE_TOO_LOW") \in Blocks
  BY <1>6
<1>8. CASE drop.price = 0 /\ drop.per = 0
  BY <1>1, <1>4, <1>5, <1>6, <1>8
<1>9. CASE drop.price = 0 /\ drop.per # 0
  <2>1. PlanOf(fee) = plan("free", free.quantity, FeeAllowance, IF free.quantity = 0 THEN "FEES_TOO_HIGH" ELSE "", free.reduced)
    BY <1>4, <1>9
  <2> QED BY <1>1, <1>5, <1>7, <2>1
<1>10. CASE drop.price # 0 /\ drop.price > PriceLimit
  BY <1>4, <1>5, <1>6, <1>10
<1>11. CASE drop.price # 0 /\ ~(drop.price > PriceLimit) /\ pieces = 0
  <2>1. PlanOf(fee) = plan("paid", 0, 0, IF LatestScore = Unread THEN "SCORE_UNKNOWN" ELSE "SCORE_TOO_LOW", FALSE)
    BY <1>4, <1>11
  <2> QED BY <1>5, <1>7, <2>1
<1>12. CASE drop.price # 0 /\ ~(drop.price > PriceLimit) /\ pieces # 0
  <2>1. PlanOf(fee) = plan("paid", pieces, drop.price * pieces + FeeAllowance, "", FALSE)
    BY <1>4, <1>12
  <2> QED BY <1>3, <1>5, <1>6, <2>1
<1> QED BY <1>8, <1>9, <1>10, <1>11, <1>12

\* What one check says of a wallet: a row that no limit has touched.
LEMMA CheckTyped ==
  ASSUME NEW plan, Plans(plan), NEW opens, NEW balance \in Nat \union {Unread}, NEW simulated
  PROVE  LET row == Check(plan, opens, balance, simulated) IN
         /\ row \in RowKinds /\ row.reason # "PAID_WALLET_LIMIT"
         /\ row.state = "unfunded" => row.balance < plan.required
<1> DEFINE row == Check(plan, opens, balance, simulated)
           state0 == IF plan.block \in {"NO_MINT_ALLOWANCE", "PRICE_ABOVE_LIMIT"} THEN "blocked" ELSE "skipped"
<1>0. /\ plan.required \in Nat /\ plan.block \in Reasons /\ plan.block # "PAID_WALLET_LIMIT"
      /\ state0 \in {"blocked", "skipped"}
  BY DEF Plans, Blocks, Reasons
<1>1. \A s \in States, r \in Reasons, n \in Nat \union {Unread} :
        Row(s, r, n) \in RowKinds /\ Row(s, r, n).state = s /\ Row(s, r, n).reason = r /\ Row(s, r, n).balance = n
  BY DEF Row, RowKinds
<1>2. CASE plan.block # ""
  <2>1. row = Row(state0, plan.block, Unread)
    BY <1>2 DEF Check
  <2>2. state0 \in States /\ state0 # "unfunded"
    BY <1>0 DEF States
  <2> HIDE DEF state0
  <2>3. /\ Row(state0, plan.block, Unread) \in RowKinds
        /\ Row(state0, plan.block, Unread).reason = plan.block /\ Row(state0, plan.block, Unread).state = state0
    BY <1>0, <1>1, <2>2 DEF Unread
  <2> QED BY <1>0, <2>1, <2>2, <2>3
<1>3. CASE plan.block = "" /\ balance = Unread
  <2>1. row = Row("unknown", "BALANCE_UNAVAILABLE", Unread)
    BY <1>3 DEF Check
  <2>2. "unknown" \in States /\ "BALANCE_UNAVAILABLE" \in Reasons
    BY DEF States, Reasons
  <2>3. /\ Row("unknown", "BALANCE_UNAVAILABLE", Unread) \in RowKinds
        /\ Row("unknown", "BALANCE_UNAVAILABLE", Unread).reason = "BALANCE_UNAVAILABLE"
        /\ Row("unknown", "BALANCE_UNAVAILABLE", Unread).state = "unknown"
    BY <1>1, <2>2 DEF Unread
  <2> QED BY <2>1, <2>3
<1>4. CASE plan.block = "" /\ balance # Unread /\ balance < plan.required
  <2>1. row = Row("unfunded", "NEEDS_TOP_UP", balance)
    BY <1>4 DEF Check
  <2>2. "unfunded" \in States /\ "NEEDS_TOP_UP" \in Reasons
    BY DEF States, Reasons
  <2>3. /\ Row("unfunded", "NEEDS_TOP_UP", balance) \in RowKinds
        /\ Row("unfunded", "NEEDS_TOP_UP", balance).reason = "NEEDS_TOP_UP"
        /\ Row("unfunded", "NEEDS_TOP_UP", balance).balance = balance
    BY <1>1, <2>2
  <2> QED BY <1>4, <2>1, <2>3
<1>5. CASE plan.block = "" /\ balance # Unread /\ ~(balance < plan.required)
  <2>1. \E s \in {"funded", "ready", "blocked"},
           r \in {"CHECK_RUNS_WHEN_OPEN", "SIMULATION_PASSED", "SIMULATION_FAILED", "SIMULATION_UNAVAILABLE"} :
          row = Row(s, r, balance)
    BY <1>5 DEF Check
  <2> HIDE DEF row
  <2>2. PICK s \in {"funded", "ready", "blocked"},
             r \in {"CHECK_RUNS_WHEN_OPEN", "SIMULATION_PASSED", "SIMULATION_FAILED", "SIMULATION_UNAVAILABLE"} :
          row = Row(s, r, balance)
    BY <2>1
  <2>3. s \in States /\ r \in Reasons /\ s # "unfunded" /\ r # "PAID_WALLET_LIMIT"
    BY DEF States, Reasons
  <2> QED BY <1>1, <2>2, <2>3 DEF row
<1> QED BY <1>2, <1>3, <1>4, <1>5

\* Rows before the first wallet was looked at.
LEMMA NoRowsFresh ==
  ASSUME NEW plan
  PROVE  Rows(NoRows) /\ Untouched(plan, NoRows) /\ Plans(NoPlan)
<1>1. \A w \in Purses : NoRows[w] = Row("unknown", "", Unread)
  BY DEF NoRows
<1>2. NoRows = [w \in Purses |-> NoRows[w]]
  BY DEF NoRows
<1>3. Row("unknown", "", Unread) \in RowKinds /\ Row("unknown", "", Unread).reason = "" /\ Row("unknown", "", Unread).state = "unknown"
  BY DEF Row, RowKinds, States, Reasons, Blocks
<1>4. Plans(NoPlan)
  BY DEF Plans, NoPlan, Blocks
<1> HIDE DEF NoRows
<1> QED BY <1>1, <1>2, <1>3, <1>4 DEF Rows, Untouched

\* An empty sweep promises nothing.
LEMMA NoSweepIs ==
  /\ NoSweep.pc = "idle" /\ NoSweep.next = {} /\ Plans(NoSweep.plan) /\ Rows(NoSweep.rows)
  /\ NoSweep = [pc |-> NoSweep.pc, opens |-> NoSweep.opens, plan |-> NoSweep.plan, next |-> NoSweep.next, rows |-> NoSweep.rows]
  /\ Never.at = -1 /\ Never = [at |-> Never.at, signature |-> Never.signature]
<1>1. Rows(NoRows) /\ Plans(NoPlan)
  BY NoRowsFresh
<1> QED BY <1>1 DEF NoSweep, Never

\* What a sweep starts from.
LEMMA SweepStarts ==
  ReadinessInit => SweepInv
<1> SUFFICES ASSUME ReadinessInit PROVE SweepInv
  OBVIOUS
<1>1. /\ drop \in Drops /\ prospect \in Prospects /\ passes \in Passing
      /\ purse \in [Purses -> Amounts] /\ baseFee \in BaseFees
      /\ phase = "far" /\ sweep = NoSweep /\ lastEmit = Never
      /\ saved = [at |-> -1, plan |-> NoPlan, rows |-> NoRows]
      /\ moves = 0 /\ slips = 0
  BY DEF ReadinessInit
<1>2. MaxMoves \in Nat /\ MaxSlips \in Nat /\ ColdRefresh \in Nat
  BY ReadinessAssumption
<1>3. phase \in {Phases[i] : i \in 1 .. 5}
  <2>1. Phases[1] = "far" /\ 1 \in 1 .. 5
    BY DEF Phases
  <2> QED BY <1>1, <2>1
<1>4. saved.at = -1 /\ saved.plan = NoPlan /\ saved = [at |-> saved.at, plan |-> saved.plan, rows |-> saved.rows]
  BY <1>1
<1>5. -1 \in -1 .. ColdRefresh /\ moves \in 0 .. MaxMoves /\ slips \in 0 .. MaxSlips
  BY <1>1, <1>2
<1>6. sweep.pc = "idle" /\ sweep.next = {} /\ lastEmit.at = -1
  BY <1>1, NoSweepIs
<1>7. ReadinessTypeOK
  BY <1>1, <1>3, <1>4, <1>5, <1>6 DEF ReadinessTypeOK
<1>8. SweepShapes
  BY <1>1, <1>4, NoSweepIs DEF SweepShapes
<1>9. Best(saved.plan, saved.rows)
  <2>1. NoPlan.kind = "none"
    BY DEF NoPlan
  <2>2. saved.plan.kind # "paid"
    BY <1>4, <2>1
  <2> QED BY <2>2 DEF Best
<1> QED BY <1>6, <1>7, <1>8, <1>9 DEF SweepInv

\* A mishap is counted, or there was none.
LEMMA SlipCounts ==
  ASSUME ReadinessTypeOK, Slip \/ slips' = slips
  PROVE  slips' \in 0 .. MaxSlips
<1>1. slips \in 0 .. MaxSlips /\ MaxSlips \in Nat
  BY ReadinessAssumption DEF ReadinessTypeOK
<1> QED BY <1>1 DEF Slip

\* The parts of the type invariant that a sweep's own steps leave alone.
MarketOK ==
  /\ drop \in Drops /\ prospect \in Prospects /\ passes \in Passing
  /\ purse \in [Purses -> Amounts] /\ baseFee \in BaseFees
  /\ phase \in {Phases[i] : i \in 1 .. 5}
  /\ moves \in 0 .. MaxMoves

LEMMA MarketStays ==
  ASSUME ReadinessTypeOK, UNCHANGED market
  PROVE  MarketOK'
BY DEF ReadinessTypeOK, MarketOK, market

\* The timer makes a plan and starts with fresh rows.
LEMMA BeginKeeps ==
  ASSUME SweepInv, SweepBegin
  PROVE  SweepInv'
<1> DEFINE older(n) == IF n \in 0 .. ColdRefresh - 1 THEN n + 1 ELSE n
<1>1. /\ lastEmit' = [lastEmit EXCEPT !.at = older(@)]
      /\ saved' = [saved EXCEPT !.at = older(@)]
      /\ UNCHANGED market
  BY DEF SweepBegin
<1>2. PICK fee \in {baseFee, Unread} :
        /\ IF fee = Unread THEN Slip ELSE UNCHANGED slips
        /\ sweep' = [pc |-> "check", opens |-> phase, plan |-> PlanOf(fee), next |-> Purses, rows |-> NoRows]
  BY DEF SweepBegin
<1>3. ReadinessTypeOK /\ SweepShapes /\ Best(saved.plan, saved.rows)
  BY DEF SweepInv
<1>4. MarketOK' /\ slips' \in 0 .. MaxSlips
  BY <1>1, <1>2, <1>3, MarketStays, SlipCounts
<1>5. \A n \in -1 .. ColdRefresh : older(n) \in -1 .. ColdRefresh
  BY ReadinessAssumption
<1> HIDE DEF older
<1>6. /\ lastEmit'.at = older(lastEmit.at) /\ lastEmit'.signature = lastEmit.signature
      /\ lastEmit' = [at |-> lastEmit'.at, signature |-> lastEmit'.signature]
  <2>1. lastEmit = [at |-> lastEmit.at, signature |-> lastEmit.signature]
    BY <1>3 DEF SweepShapes
  <2> QED BY <1>1, <2>1
<1>7. /\ saved'.at = older(saved.at) /\ saved'.plan = saved.plan /\ saved'.rows = saved.rows
      /\ saved' = [at |-> saved'.at, plan |-> saved'.plan, rows |-> saved'.rows]
  <2>1. saved = [at |-> saved.at, plan |-> saved.plan, rows |-> saved.rows]
    BY <1>3 DEF SweepShapes
  <2> QED BY <1>1, <2>1
<1>8. lastEmit'.at \in -1 .. ColdRefresh /\ saved'.at \in -1 .. ColdRefresh
  BY <1>3, <1>5, <1>6, <1>7 DEF ReadinessTypeOK
<1>9. /\ sweep'.pc = "check" /\ sweep'.next = Purses /\ sweep'.plan = PlanOf(fee) /\ sweep'.rows = NoRows
      /\ sweep' = [pc |-> sweep'.pc, opens |-> sweep'.opens, plan |-> sweep'.plan, next |-> sweep'.next, rows |-> sweep'.rows]
  BY <1>2
<1>10. Plans(PlanOf(fee))
  BY <1>3, PlanTyped DEF ReadinessTypeOK
<1>11. Rows(NoRows) /\ Untouched(PlanOf(fee), NoRows)
  BY NoRowsFresh
<1>12. ReadinessTypeOK'
  BY <1>4, <1>8, <1>9 DEF ReadinessTypeOK, MarketOK
<1>13. Plans(sweep'.plan) /\ Rows(sweep'.rows) /\ Untouched(sweep'.plan, sweep'.rows)
  BY <1>9, <1>10, <1>11
<1>14. SweepShapes'
  BY <1>6, <1>7, <1>9, <1>13 DEF SweepShapes
<1>15. Best(saved'.plan, saved'.rows)
  BY <1>3, <1>7
<1> QED BY <1>9, <1>12, <1>13, <1>14, <1>15 DEF SweepInv

\* The next wallet's row replaces the one that says nothing.
LEMMA CheckKeeps ==
  ASSUME SweepInv, CheckWallet
  PROVE  SweepInv'
<1> DEFINE w == Min(sweep.next)
<1>1. /\ sweep.pc = "check" /\ sweep.next # {}
      /\ UNCHANGED <<market, lastEmit, saved>>
  BY DEF CheckWallet
<1>2. PICK balance \in {purse[w], Unread}, simulated \in {Simulated(w), "unknown"} :
        /\ IF balance = Unread \/ simulated = "unknown" THEN Slip ELSE UNCHANGED slips
        /\ sweep' = [sweep EXCEPT !.next = @ \ {w},
                                  !.rows[w] = Check(sweep.plan, sweep.opens, balance, simulated)]
  BY DEF CheckWallet
<1>3. /\ ReadinessTypeOK /\ SweepShapes /\ Best(saved.plan, saved.rows)
      /\ Untouched(sweep.plan, sweep.rows) /\ Plans(sweep.plan) /\ Rows(sweep.rows) /\ sweep.next \subseteq Purses
  BY <1>1 DEF SweepInv, SweepShapes, ReadinessTypeOK
<1>4. w \in Purses
  <2>1. sweep.next \in SUBSET Nat
    BY <1>3, ReadinessAssumption
  <2>2. \E x \in sweep.next : \A y \in sweep.next : x <= y
    BY <1>1, <2>1, LeastOf
  <2>3. Min(sweep.next) \in sweep.next
    BY <2>2 DEF Min
  <2> QED BY <1>3, <2>3
<1>5. balance \in Nat \union {Unread}
  <2>1. purse[w] \in Nat
    BY <1>3, <1>4, ReadinessAssumption DEF ReadinessTypeOK
  <2> HIDE DEF w
  <2> QED BY <2>1
<1>6. MarketOK' /\ slips' \in 0 .. MaxSlips
  BY <1>1, <1>2, <1>3, MarketStays, SlipCounts
<1> DEFINE row == Check(sweep.plan, sweep.opens, balance, simulated)
<1>7. /\ row \in RowKinds /\ row.reason # "PAID_WALLET_LIMIT"
      /\ row.state = "unfunded" => row.balance < sweep.plan.required
  BY <1>3, <1>5, CheckTyped
<1>8. sweep' = [sweep EXCEPT !.next = @ \ {w}, !.rows[w] = row]
  BY <1>2
<1> HIDE DEF w, row
<1>9. /\ sweep'.pc = sweep.pc /\ sweep'.plan = sweep.plan /\ sweep'.next = sweep.next \ {w}
      /\ sweep'.rows = [sweep.rows EXCEPT ![w] = row]
      /\ sweep' = [pc |-> sweep'.pc, opens |-> sweep'.opens, plan |-> sweep'.plan, next |-> sweep'.next, rows |-> sweep'.rows]
  <2>1. sweep = [pc |-> sweep.pc, opens |-> sweep.opens, plan |-> sweep.plan, next |-> sweep.next, rows |-> sweep.rows]
    BY <1>3 DEF SweepShapes
  <2> QED BY <1>8, <2>1
<1>10. /\ sweep'.rows \in [Purses -> RowKinds] /\ sweep'.rows[w] = row
       /\ \A v \in Purses : v # w => sweep'.rows[v] = sweep.rows[v]
  BY <1>3, <1>4, <1>7, <1>9 DEF Rows
<1>11. Rows(sweep'.rows) /\ Untouched(sweep'.plan, sweep'.rows)
  <2>1. \A v \in Purses : /\ sweep'.rows[v].reason # "PAID_WALLET_LIMIT"
                          /\ sweep'.rows[v].state = "unfunded" => sweep'.rows[v].balance < sweep'.plan.required
    BY <1>3, <1>7, <1>9, <1>10 DEF Untouched
  <2> QED BY <1>10, <2>1 DEF Rows, Untouched
<1>12. lastEmit' = lastEmit /\ saved' = saved
  BY <1>1
<1>13. ReadinessTypeOK'
  BY <1>1, <1>3, <1>6, <1>9, <1>12 DEF ReadinessTypeOK, MarketOK
<1>14. SweepShapes'
  BY <1>3, <1>9, <1>11, <1>12 DEF SweepShapes
<1> QED BY <1>1, <1>3, <1>9, <1>11, <1>12, <1>13, <1>14 DEF SweepInv

\* A mark is as old as what it was restored from.
LEMMA MarkTyped ==
  ASSUME ReadinessTypeOK, SweepShapes
  PROVE  LastMark.at \in -1 .. ColdRefresh /\ LastMark = [at |-> LastMark.at, signature |-> LastMark.signature]
<1>1. CASE lastEmit # Never \/ saved.at < 0
  <2>1. LastMark = lastEmit
    BY <1>1 DEF LastMark
  <2> QED BY <2>1 DEF ReadinessTypeOK, SweepShapes
<1>2. CASE ~(lastEmit # Never \/ saved.at < 0)
  <2>1. LastMark = [at |-> saved.at, signature |-> Signature(saved.rows)]
    BY <1>2 DEF LastMark
  <2> QED BY <2>1 DEF ReadinessTypeOK
<1> QED BY <1>1, <1>2

\* Judging the rows keeps the best wallets of a paid drop.
LEMMA JudgeKeeps ==
  ASSUME SweepInv, Judge
  PROVE  SweepInv'
<1> DEFINE rows == Judged(sweep.plan, sweep.rows)
<1>1. /\ sweep.pc = "check"
      /\ IF Due(rows)
         THEN /\ lastEmit' = [at |-> 0, signature |-> Signature(rows)]
              /\ sweep' = [sweep EXCEPT !.pc = "store", !.rows = rows]
         ELSE lastEmit' = LastMark /\ sweep' = NoSweep
      /\ UNCHANGED <<market, saved, slips>>
  BY DEF Judge
<1>2. /\ ReadinessTypeOK /\ SweepShapes /\ Best(saved.plan, saved.rows)
      /\ Untouched(sweep.plan, sweep.rows) /\ Plans(sweep.plan) /\ Rows(sweep.rows)
  BY <1>1 DEF SweepInv, SweepShapes
<1>3. Rows(rows) /\ Best(sweep.plan, rows)
  BY <1>2, JudgedBest
<1> HIDE DEF rows
<1>4. MarketOK' /\ slips' \in 0 .. MaxSlips /\ saved' = saved
  BY <1>1, <1>2, MarketStays, SlipCounts
<1>5. CASE Due(rows)
  <2>1. /\ lastEmit'.at = 0 /\ lastEmit' = [at |-> lastEmit'.at, signature |-> lastEmit'.signature]
    BY <1>1, <1>5
  <2>2. /\ sweep'.pc = "store" /\ sweep'.plan = sweep.plan /\ sweep'.next = sweep.next /\ sweep'.rows = rows
        /\ sweep' = [pc |-> sweep'.pc, opens |-> sweep'.opens, plan |-> sweep'.plan, next |-> sweep'.next, rows |-> sweep'.rows]
    <3>1. sweep = [pc |-> sweep.pc, opens |-> sweep.opens, plan |-> sweep.plan, next |-> sweep.next, rows |-> sweep.rows]
      BY <1>2 DEF SweepShapes
    <3>2. sweep' = [sweep EXCEPT !.pc = "store", !.rows = rows]
      BY <1>1, <1>5
    <3> QED BY <3>1, <3>2
  <2>3. lastEmit'.at \in -1 .. ColdRefresh
    BY <2>1, ReadinessAssumption
  <2>4. ReadinessTypeOK'
    BY <1>2, <1>4, <2>2, <2>3 DEF ReadinessTypeOK, MarketOK
  <2>5. SweepShapes'
    BY <1>2, <1>3, <1>4, <2>1, <2>2 DEF SweepShapes
  <2> QED BY <1>2, <1>3, <1>4, <2>2, <2>4, <2>5 DEF SweepInv
<1>6. CASE ~Due(rows)
  <2>1. lastEmit' = LastMark /\ sweep' = NoSweep
    BY <1>1, <1>6
  <2>2. lastEmit'.at \in -1 .. ColdRefresh /\ lastEmit' = [at |-> lastEmit'.at, signature |-> lastEmit'.signature]
    BY <1>2, <2>1, MarkTyped
  <2>3. ReadinessTypeOK'
    BY <1>2, <1>4, <2>1, <2>2, NoSweepIs DEF ReadinessTypeOK, MarketOK
  <2>4. SweepShapes'
    BY <1>2, <1>4, <2>1, <2>2, NoSweepIs DEF SweepShapes
  <2> QED BY <1>2, <1>4, <2>1, <2>3, <2>4, NoSweepIs DEF SweepInv
<1> QED BY <1>5, <1>6

\* What is stored is what was judged.
LEMMA StoreKeeps ==
  ASSUME SweepInv, SweepStore
  PROVE  SweepInv'
<1>1. /\ sweep.pc = "store" /\ sweep' = NoSweep /\ UNCHANGED <<market, lastEmit>>
      /\ \/ saved' = [at |-> 0, plan |-> sweep.plan, rows |-> sweep.rows] /\ UNCHANGED slips
         \/ Slip /\ UNCHANGED saved
  BY DEF SweepStore
<1>2. /\ ReadinessTypeOK /\ SweepShapes /\ Best(saved.plan, saved.rows) /\ Best(sweep.plan, sweep.rows)
  BY <1>1 DEF SweepInv
<1>3. MarketOK' /\ slips' \in 0 .. MaxSlips /\ lastEmit' = lastEmit
  BY <1>1, <1>2, MarketStays, SlipCounts
<1>4. /\ saved'.at \in -1 .. ColdRefresh /\ Best(saved'.plan, saved'.rows)
      /\ saved' = [at |-> saved'.at, plan |-> saved'.plan, rows |-> saved'.rows]
  <2>1. CASE saved' = [at |-> 0, plan |-> sweep.plan, rows |-> sweep.rows]
    <3>1. saved'.at = 0 /\ saved'.plan = sweep.plan /\ saved'.rows = sweep.rows
          /\ saved' = [at |-> saved'.at, plan |-> saved'.plan, rows |-> saved'.rows]
      BY <2>1
    <3>2. 0 \in -1 .. ColdRefresh
      BY ReadinessAssumption
    <3> QED BY <1>2, <3>1, <3>2
  <2>2. CASE saved' = saved
    BY <1>2, <2>2 DEF ReadinessTypeOK, SweepShapes
  <2> QED BY <1>1, <2>1, <2>2
<1>5. ReadinessTypeOK'
  BY <1>1, <1>2, <1>3, <1>4, NoSweepIs DEF ReadinessTypeOK, MarketOK
<1>6. SweepShapes'
  BY <1>1, <1>2, <1>3, <1>4, NoSweepIs DEF SweepShapes
<1> QED BY <1>1, <1>4, <1>5, <1>6, NoSweepIs DEF SweepInv

\* A restart drops the sweep and the mark; what is stored stays.
LEMMA CrashKeeps ==
  ASSUME SweepInv, SweepCrash
  PROVE  SweepInv'
<1>1. Slip /\ sweep' = NoSweep /\ lastEmit' = Never /\ UNCHANGED <<market, saved>>
  BY DEF SweepCrash
<1>2. ReadinessTypeOK /\ SweepShapes /\ Best(saved.plan, saved.rows)
  BY DEF SweepInv
<1>3. MarketOK' /\ slips' \in 0 .. MaxSlips /\ saved' = saved
  BY <1>1, <1>2, MarketStays, SlipCounts
<1>4. -1 \in -1 .. ColdRefresh
  BY ReadinessAssumption
<1>5. ReadinessTypeOK'
  BY <1>1, <1>2, <1>3, <1>4, NoSweepIs DEF ReadinessTypeOK, MarketOK
<1>6. SweepShapes'
  BY <1>1, <1>2, <1>3, NoSweepIs DEF SweepShapes
<1> QED BY <1>1, <1>2, <1>3, <1>5, <1>6, NoSweepIs DEF SweepInv

\* A mark that is forgotten.
LEMMA ForgetKeeps ==
  ASSUME SweepInv, SweepForgets
  PROVE  SweepInv'
<1>1. lastEmit' = Never /\ UNCHANGED <<market, sweep, saved, slips>>
  BY DEF SweepForgets
<1>2. ReadinessTypeOK /\ SweepShapes
  BY DEF SweepInv
<1>3. MarketOK' /\ slips' \in 0 .. MaxSlips /\ saved' = saved /\ sweep' = sweep
  BY <1>1, <1>2, MarketStays, SlipCounts
<1>4. -1 \in -1 .. ColdRefresh
  BY ReadinessAssumption
<1>5. ReadinessTypeOK'
  BY <1>1, <1>2, <1>3, <1>4, NoSweepIs DEF ReadinessTypeOK, MarketOK
<1>6. SweepShapes'
  BY <1>1, <1>2, <1>3, NoSweepIs DEF SweepShapes
<1> QED BY <1>3, <1>5, <1>6 DEF SweepInv

\* What the world does leaves the sweep's own state alone.
LEMMA WorldKeeps ==
  ASSUME SweepInv, MarketOK', UNCHANGED <<sweep, lastEmit, saved, slips>>
  PROVE  SweepInv'
<1>1. sweep' = sweep /\ lastEmit' = lastEmit /\ saved' = saved /\ slips' = slips
  OBVIOUS
<1>2. ReadinessTypeOK /\ SweepShapes
  BY DEF SweepInv
<1>3. ReadinessTypeOK'
  BY <1>1, <1>2 DEF ReadinessTypeOK, MarketOK
<1>4. SweepShapes'
  BY <1>1, <1>2 DEF SweepShapes
<1> QED BY <1>1, <1>3, <1>4 DEF SweepInv

LEMMA MarketKeeps ==
  ASSUME SweepInv, PhaseTurns \/ MarketMoves
  PROVE  SweepInv'
<1>1. MarketOK
  BY DEF SweepInv, ReadinessTypeOK, MarketOK
<1>2. CASE PhaseTurns
  <2>1. UNCHANGED <<drop, prospect, purse, passes, baseFee, moves, sweep, lastEmit, saved, slips>>
    BY <1>2 DEF PhaseTurns
  <2>2. phase' \in {Phases[i] : i \in 1 .. 5}
    <3>1. PICK i \in 1 .. 4 : phase' = Phases[i + 1]
      BY <1>2 DEF PhaseTurns
    <3>2. i + 1 \in 1 .. 5
      OBVIOUS
    <3> QED BY <3>1, <3>2
  <2>3. MarketOK'
    BY <1>1, <2>1, <2>2 DEF MarketOK
  <2> QED BY <2>1, <2>3, WorldKeeps
<1>3. CASE MarketMoves
  <2>1. UNCHANGED <<phase, sweep, lastEmit, saved, slips>> /\ moves < MaxMoves /\ moves' = moves + 1
    BY <1>3 DEF MarketMoves
  <2>2. moves' \in 0 .. MaxMoves
    BY <1>1, <2>1, ReadinessAssumption DEF MarketOK
  <2>3. purse' \in [Purses -> Amounts] /\ baseFee' \in BaseFees /\ prospect' \in Prospects /\ drop' \in Drops /\ passes' \in Passing
    BY <1>1, <1>3 DEF MarketMoves, MarketOK
  <2>4. MarketOK'
    BY <1>1, <2>1, <2>2, <2>3 DEF MarketOK
  <2> QED BY <2>1, <2>4, WorldKeeps
<1> QED BY <1>2, <1>3

\* Every step of the sweep keeps the invariant.
LEMMA SweepSteps ==
  SweepInv /\ [ReadinessNext]_readinessVars => SweepInv'
<1> SUFFICES ASSUME SweepInv, [ReadinessNext]_readinessVars PROVE SweepInv'
  OBVIOUS
<1>1. CASE SweepBegin
  BY <1>1, BeginKeeps
<1>2. CASE SweepForgets
  BY <1>2, ForgetKeeps
<1>3. CASE CheckWallet
  BY <1>3, CheckKeeps
<1>4. CASE Judge
  BY <1>4, JudgeKeeps
<1>5. CASE SweepStore
  BY <1>5, StoreKeeps
<1>6. CASE SweepCrash
  BY <1>6, CrashKeeps
<1>7. CASE PhaseTurns \/ MarketMoves
  BY <1>7, MarketKeeps
<1>8. CASE UNCHANGED readinessVars
  <2>1. UNCHANGED <<market, sweep, lastEmit, saved, slips>>
    BY <1>8 DEF readinessVars
  <2>2. MarketOK'
    BY <2>1, MarketStays DEF SweepInv
  <2> QED BY <2>1, <2>2, WorldKeeps
<1> QED BY <1>1, <1>2, <1>3, <1>4, <1>5, <1>6, <1>7, <1>8 DEF ReadinessNext, Sweeping

\* What the sweep's invariant says of what is stored, with the laws of its plans and scores.
LEMMA SweepInvSafe ==
  SweepInv => ReadinessSafety
BY LargestPlanned, BackedProposals DEF SweepInv, Best, BestWalletsKept, ReadinessSafety

-----------------------------------------------------------------------------
(* The health monitor: what the check in progress knows of the episodes    *)

Episodes == [id : Hours \union {NoHour}, severity : Severities, sentAt : Hours \union {NoHour}, reminders : Nat]
Messages == [key : Troubles, id : Hours, stage : {"open", "critical", "reminder", "recovered"}, n : Nat, at : Hours]

\* Whatever was told was told by the last check or before it.
EpisodesFit ==
  /\ checkup.at <= clock
  /\ \A k \in Troubles : Open(k) => episodes[k].id <= episodes[k].sentAt /\ episodes[k].sentAt <= checkup.at

\* What the check in progress still has to tell, it has told nothing of.
CheckFits ==
  /\ checkup.pc # "tell" => checkup.todo = {}
  /\ \A k \in checkup.todo : Owed(episodes[k], checkup.active[k], checkup.at) # "none"
  /\ \A m \in messages : checkup.pc = "host" \/ m.key \in checkup.todo => m.at < checkup.at

\* The messages of the open episode, and those of the episodes before it.
MessagesFit ==
  \A m \in messages :
    /\ m.id <= m.at /\ m.at <= checkup.at
    /\ Open(m.key) => /\ m.id <= episodes[m.key].id
                      /\ m.id < episodes[m.key].id => m.at < episodes[m.key].id
                      /\ m.id = episodes[m.key].id => m.stage # "recovered" /\ m.at <= episodes[m.key].sentAt

\* The scan stood still at that time, or it has worked since.
StoodStill(t) == tracker.ok >= t \/ LastGood + StallTime <= t
StallFits ==
  LET k == "scan_stalled" IN
  /\ Open(k) => StoodStill(episodes[k].id)
  /\ k \in checkup.todo /\ checkup.active[k] # "none" => StoodStill(checkup.at)
  /\ k \in checkup.todo /\ Open(k) /\ checkup.active[k] = "none" => tracker.ok >= episodes[k].id

HealthInv ==
  /\ HealthTypeOK /\ EpisodesFit /\ CheckFits /\ MessagesFit /\ StallFits
  /\ OpenIsTold /\ ToldIsClosed /\ EpisodesInTurn /\ RemindersApart

LEMMA HealthStarts == HealthInit => HealthInv
<1> SUFFICES ASSUME HealthInit PROVE HealthInv
  OBVIOUS
<1>1. /\ messages = {} /\ cut = {} /\ checkup.todo = {} /\ checkup.pc = "idle" /\ checkup.at = clock /\ clock = 1
      /\ episodes = [k \in Troubles |-> NoEpisode]
  BY DEF HealthInit
<1>2. \A k \in Troubles : ~Open(k)
  BY <1>1 DEF Open, NoEpisode
<1>3. HealthTypeOK
  <2>1. 1 \in Hours /\ 0 \in 0 .. MaxUpsets
    BY HealthAssumption DEF Hours
  <2>2. NoEpisode \in Episodes /\ Started \in [start : Hours, ok : Hours \union {NoHour}, attempts : SUBSET [at : Hours, ok : BOOLEAN]]
    BY <1>1, <2>1 DEF NoEpisode, Episodes, Severities, Started
  <2>3. Well \in [Troubles -> Severities]
    BY DEF Well, Severities
  <2> QED BY <1>1, <2>1, <2>2, <2>3 DEF HealthInit, HealthTypeOK, Episodes
<1>4. "scan_stalled" \in Troubles
  BY DEF Troubles, Rank
<1> QED BY <1>1, <1>2, <1>3, <1>4 DEF HealthInv, EpisodesFit, CheckFits, MessagesFit, StallFits, OpenIsTold, ToldIsClosed,
           EpisodesInTurn, RemindersApart

LEMMA HealthInvSafe == HealthInv => HealthSafety
BY DEF HealthInv, HealthSafety, StallFits, RecoveryIsEarned

\* The fields of a state whose types hold.
LEMMA HealthFields ==
  ASSUME HealthTypeOK
  PROVE  /\ clock \in Nat \ {0} /\ checkup.at \in Nat \ {0} /\ tracker.ok \in Nat /\ tracker.start \in Nat
         /\ clock \in Hours /\ checkup.at \in Hours /\ Hours \subseteq Nat \ {0}
         /\ StallTime \in Nat \ {0} /\ ReminderTime \in Nat \ {0} /\ "scan_stalled" \in Troubles
         /\ checkup.todo \subseteq Troubles /\ checkup.active \in [Troubles -> Severities]
         /\ checkup = [pc |-> checkup.pc, at |-> checkup.at, active |-> checkup.active, todo |-> checkup.todo]
         /\ checkup.pc \in {"idle", "host", "tell"}
         /\ episodes \in [Troubles -> Episodes] /\ messages \subseteq Messages
         /\ \A k \in Troubles : episodes[k].id \in Nat /\ episodes[k].sentAt \in Nat
         /\ \A m \in messages : m.id \in Nat \ {0} /\ m.at \in Nat \ {0} /\ m.key \in Troubles
BY HealthAssumption DEF HealthTypeOK, Hours, NoHour, Episodes, Messages, Troubles, Rank

\* The four things a check can owe, each with its message and the episode it leaves.
LEMMA WhatIsTold ==
  ASSUME HealthInv, NEW k \in checkup.todo
  PROVE  LET e == episodes[k]
             f == After(episodes[k], checkup.active[k], checkup.at)
             m == MessageOf(k) IN
         /\ m \in Messages /\ f \in Episodes /\ m.key = k /\ m.at = checkup.at
         /\ \/ /\ ~Open(k) /\ checkup.active[k] # "none" /\ m.stage \in {"open", "critical"} /\ m.id = checkup.at
               /\ f.id = checkup.at /\ f.sentAt = checkup.at /\ (m.stage = "critical" <=> f.severity = "critical")
            \/ Open(k) /\ m.id = e.id /\ m.stage = "recovered" /\ f.id = NoHour
            \/ /\ Open(k) /\ m.id = e.id /\ m.stage = "critical"
               /\ f.id = e.id /\ f.sentAt = checkup.at /\ f.severity = "critical"
            \/ /\ Open(k) /\ m.id = e.id /\ m.stage = "reminder" /\ e.sentAt + ReminderTime <= checkup.at
               /\ f.id = e.id /\ f.sentAt = checkup.at /\ f.severity = e.severity
<1> DEFINE e == episodes[k]
           act == checkup.active[k]
           now == checkup.at
           f == After(e, act, now)
           m == MessageOf(k)
<1>1. /\ k \in Troubles /\ e \in Episodes /\ act \in Severities /\ now \in Hours /\ Owed(e, act, now) # "none"
      /\ e = [id |-> e.id, severity |-> e.severity, sentAt |-> e.sentAt, reminders |-> e.reminders]
      /\ e.reminders \in Nat /\ e.reminders + 1 \in Nat /\ 0 \in Nat
      /\ e.id \in Hours \union {NoHour} /\ e.severity \in Severities /\ e.sentAt \in Hours \union {NoHour}
  BY HealthFields DEF HealthInv, CheckFits, Episodes
<1>2. /\ m.key = k /\ m.at = now /\ m.stage = Owed(e, act, now) /\ m.id = IF e.id = NoHour THEN now ELSE e.id
      /\ m.n = IF m.stage = "reminder" THEN e.reminders + 1 ELSE 0
      /\ m = [key |-> m.key, id |-> m.id, stage |-> m.stage, n |-> m.n, at |-> m.at]
  BY DEF MessageOf
<1>3. CASE e.id = NoHour
  <2>1. act # "none" /\ m.stage = IF act = "critical" THEN "critical" ELSE "open"
    BY <1>1, <1>2, <1>3 DEF Owed
  <2>2. f = [id |-> now, severity |-> act, sentAt |-> now, reminders |-> 0]
    BY <1>3 DEF After
  <2>3. f \in Episodes /\ f.id = now /\ f.sentAt = now /\ f.severity = act
    BY <1>1, <2>2 DEF Episodes
  <2>4. m \in Messages
    BY <1>1, <1>2, <1>3, <2>1 DEF Messages
  <2> QED BY <1>2, <1>3, <2>1, <2>3, <2>4 DEF Open
<1>4. CASE e.id # NoHour /\ act = "none"
  <2>1. Owed(e, act, now) = "recovered"
    BY <1>4 DEF Owed
  <2>2. f = NoEpisode
    BY <1>4, <2>1 DEF After
  <2>3. f \in Episodes /\ f.id = NoHour
    BY <2>2 DEF Episodes, NoEpisode, Severities
  <2>4. m \in Messages
    BY <1>1, <1>2, <1>4, <2>1 DEF Messages
  <2> QED BY <1>2, <1>4, <2>1, <2>3, <2>4 DEF Open
<1>5. CASE e.id # NoHour /\ act = "critical" /\ e.severity = "attention"
  <2>1. Owed(e, act, now) = "critical"
    BY <1>5 DEF Owed
  <2>2. f = [e EXCEPT !.severity = "critical", !.sentAt = now]
    BY <1>5, <2>1 DEF After
  <2>3. f \in Episodes /\ f.id = e.id /\ f.sentAt = now /\ f.severity = "critical"
    BY <1>1, <2>2 DEF Episodes, Severities
  <2>4. m \in Messages
    BY <1>1, <1>2, <1>5, <2>1 DEF Messages
  <2> QED BY <1>2, <1>5, <2>1, <2>3, <2>4 DEF Open
<1>6. CASE e.id # NoHour /\ act # "none" /\ ~(act = "critical" /\ e.severity = "attention")
  <2>1. Owed(e, act, now) = "reminder" /\ now >= e.sentAt + ReminderTime
    BY <1>1, <1>6 DEF Owed
  <2>2. f = [e EXCEPT !.reminders = @ + 1, !.sentAt = now]
    BY <1>6, <2>1 DEF After
  <2>3. f \in Episodes /\ f.id = e.id /\ f.sentAt = now /\ f.severity = e.severity
    BY <1>1, <2>2 DEF Episodes
  <2>4. m \in Messages
    BY <1>1, <1>2, <1>6, <2>1 DEF Messages
  <2>5. e.sentAt + ReminderTime <= now
    BY <1>1, <2>1, HealthFields DEF HealthInv, NoHour
  <2> QED BY <1>2, <1>6, <2>1, <2>3, <2>4, <2>5 DEF Open
<1> QED BY <1>3, <1>4, <1>5, <1>6

LEMMA HealthTyped ==
  ASSUME HealthInv, HealthNext PROVE HealthTypeOK'
<1> DEFINE Trackers == [start : Hours, ok : Hours \union {NoHour}, attempts : SUBSET [at : Hours, ok : BOOLEAN]]
           Hosts == [low : BOOLEAN, backup : {"none", "ok", "failed"}, saved : Hours \union {NoHour},
                     failed : SUBSET Hours, pending : SUBSET Hours, garbled : BOOLEAN]
           Checkups == [pc : {"idle", "host", "tell"}, at : Hours, active : [Troubles -> Severities], todo : SUBSET Troubles]
<1>1. /\ clock \in Hours /\ tracker \in Trackers /\ host \in Hosts /\ checkup \in Checkups
      /\ episodes \in [Troubles -> Episodes] /\ messages \subseteq Messages /\ cut \subseteq Troubles \X Hours
      /\ upsets \in 0 .. MaxUpsets
  BY DEF HealthInv, HealthTypeOK, Episodes, Messages
<1>2. clock' \in Hours /\ upsets' \in 0 .. MaxUpsets
  <2>1. Upset => upsets' \in 0 .. MaxUpsets
    BY <1>1, HealthAssumption DEF Upset
  <2>2. clock < LastHour => clock + 1 \in Hours
    BY <1>1, HealthAssumption DEF Hours
  <2> QED BY <1>1, <2>1, <2>2 DEF HealthNext, ScanEnds, HostChanges, Change, CheckBegin, CheckSample, Tell, HealthCrash, HourPasses
<1>3. tracker' \in Trackers
  <2>1. CASE ScanEnds
    <3>1. PICK ok \in BOOLEAN : tracker' = [tracker EXCEPT
            !.attempts = Newest(Recent(@ \union {[at |-> clock, ok |-> ok]}, clock)), !.ok = IF ok THEN clock ELSE @]
      BY <2>1 DEF ScanEnds
    <3>2. Newest(Recent(tracker.attempts \union {[at |-> clock, ok |-> ok]}, clock)) \subseteq [at : Hours, ok : BOOLEAN]
      BY <1>1 DEF Newest, Recent
    <3> HIDE DEF Hours
    <3> QED BY <1>1, <3>1, <3>2
  <2>2. CASE HealthCrash
    BY <1>1, <2>2 DEF HealthCrash, Started
  <2> QED BY <1>1, <2>1, <2>2 DEF HealthNext, HostChanges, Change, CheckBegin, CheckSample, Tell, HourPasses
<1>4. host' \in Hosts
  <2>1. CASE HostChanges
    <3>1. ASSUME NEW h, Change(h) PROVE host' = h
      BY <3>1 DEF Change
    <3>2. /\ [host EXCEPT !.low = ~@] \in Hosts /\ [host EXCEPT !.garbled = ~@] \in Hosts
          /\ \A status \in {"ok", "failed"} : [host EXCEPT !.backup = status, !.saved = clock] \in Hosts
      BY <1>1
    <3>3. /\ [host EXCEPT !.failed = @ \union {clock}] \in Hosts /\ [host EXCEPT !.pending = @ \union {clock}] \in Hosts
          /\ \A t \in host.failed : [host EXCEPT !.failed = @ \ {t}] \in Hosts
          /\ \A t \in host.pending : [host EXCEPT !.pending = @ \ {t}] \in Hosts
      BY <1>1
    <3> HIDE DEF Hosts
    <3> QED BY <2>1, <3>1, <3>2, <3>3 DEF HostChanges
  <2> QED BY <1>1, <2>1 DEF HealthNext, ScanEnds, CheckBegin, CheckSample, Tell, HealthCrash, HourPasses
<1>5. checkup' \in Checkups
  <2>1. CASE CheckBegin
    BY <1>1, <2>1 DEF CheckBegin
  <2>2. CASE CheckSample
    <3>1. PICK read \in SUBSET {"disk", "backup"} :
            LET active == [k \in Troubles |-> Active(k, checkup.at, read)]
                todo == {k \in Troubles : Owed(episodes[k], active[k], checkup.at) # "none"} IN
            checkup' = [checkup EXCEPT !.pc = IF todo = {} THEN "idle" ELSE "tell", !.active = active, !.todo = todo]
      BY <2>2 DEF CheckSample
    <3> DEFINE active == [k \in Troubles |-> Active(k, checkup.at, read)]
               todo == {k \in Troubles : Owed(episodes[k], active[k], checkup.at) # "none"}
    <3>2. active \in [Troubles -> Severities]
      <4>1. \A k \in Troubles : k \in {"scan_stalled", "endpoint_errors", "disk_pressure", "backup_stale", "delivery_trouble", "pending_exposure"}
        BY DEF Troubles, Rank
      <4>2. \A k \in Troubles : Active(k, checkup.at, read) \in Severities
        BY <4>1 DEF Active, Severities
      <4> QED BY <4>2
    <3>3. todo \subseteq Troubles
      OBVIOUS
    <3>4. checkup' = [checkup EXCEPT !.pc = IF todo = {} THEN "idle" ELSE "tell", !.active = active, !.todo = todo]
      BY <3>1
    <3> HIDE DEF active, todo
    <3> QED BY <1>1, <3>2, <3>3, <3>4
  <2>3. CASE Tell
    <3>1. PICK k \in checkup.todo : checkup' = [checkup EXCEPT !.todo = @ \ {k}, !.pc = IF checkup.todo = {k} THEN "idle" ELSE "tell"]
      BY <2>3 DEF Tell
    <3> HIDE DEF Hours, Severities
    <3> QED BY <1>1, <3>1
  <2>4. CASE HealthCrash
    BY <1>1, <2>4 DEF HealthCrash, Well, Severities
  <2> QED BY <1>1, <2>1, <2>2, <2>3, <2>4 DEF HealthNext, ScanEnds, HostChanges, Change, HourPasses
<1>6. episodes' \in [Troubles -> Episodes] /\ messages' \subseteq Messages /\ cut' \subseteq Troubles \X Hours
  <2>1. CASE Tell
    <3>1. PICK k \in checkup.todo :
            /\ episodes' = [episodes EXCEPT ![k] = After(episodes[k], checkup.active[k], checkup.at)]
            /\ messages' \in {messages, messages \union {MessageOf(k)}}
            /\ cut' \in {cut, cut \union {<<k, MessageOf(k).id>>}}
      BY <2>1 DEF Tell
    <3>2. After(episodes[k], checkup.active[k], checkup.at) \in Episodes /\ MessageOf(k) \in Messages /\ k \in Troubles
      BY <1>1, WhatIsTold
    <3>3. MessageOf(k).id \in Hours
      BY <3>2 DEF Messages
    <3> HIDE DEF Hours
    <3> QED BY <1>1, <3>1, <3>2, <3>3
  <2>2. CASE HealthCrash
    <3>1. NoEpisode \in Episodes
      BY DEF NoEpisode, Episodes, Severities
    <3>2. \A k \in Troubles : Open(k) => episodes[k].id \in Hours
      BY <1>1 DEF Open, Episodes
    <3> QED BY <1>1, <2>2, <3>1, <3>2 DEF HealthCrash
  <2> QED BY <1>1, <2>1, <2>2 DEF HealthNext, ScanEnds, HostChanges, Change, CheckBegin, CheckSample, HourPasses
<1> QED BY <1>2, <1>3, <1>4, <1>5, <1>6 DEF HealthTypeOK, Episodes, Messages

\* What a message does to the episodes and to what was told before.
LEMMA TellKeepsHealth ==
  ASSUME HealthInv, Tell, HealthTypeOK' PROVE HealthInv'
<1>1. PICK k \in checkup.todo :
        /\ checkup.pc = "tell"
        /\ episodes' = [episodes EXCEPT ![k] = After(episodes[k], checkup.active[k], checkup.at)]
        /\ \/ /\ messages' = IF \E n \in messages : Same(MessageOf(k), n) THEN messages ELSE messages \union {MessageOf(k)}
              /\ cut' = cut
           \/ /\ cut' = cut \union {<<k, MessageOf(k).id>>}
              /\ messages' = messages
        /\ checkup' = [checkup EXCEPT !.todo = @ \ {k}, !.pc = IF checkup.todo = {k} THEN "idle" ELSE "tell"]
        /\ UNCHANGED <<clock, tracker, host>>
  BY DEF Tell
<1> DEFINE e == episodes[k]
           f == After(episodes[k], checkup.active[k], checkup.at)
           x == MessageOf(k)
<1>2. /\ HealthTypeOK /\ EpisodesFit /\ CheckFits /\ MessagesFit /\ StallFits
      /\ OpenIsTold /\ ToldIsClosed /\ EpisodesInTurn /\ RemindersApart
  BY DEF HealthInv
<1>3. /\ k \in Troubles /\ checkup'.at = checkup.at /\ checkup'.active = checkup.active /\ checkup'.todo = checkup.todo \ {k}
      /\ checkup'.pc = IF checkup.todo = {k} THEN "idle" ELSE "tell"
      /\ episodes'[k] = f /\ \A j \in Troubles : j # k => episodes'[j] = episodes[j]
  BY <1>1, <1>2, HealthFields
<1>4. /\ x \in Messages /\ f \in Episodes /\ x.key = k /\ x.at = checkup.at
      /\ \/ /\ ~Open(k) /\ checkup.active[k] # "none" /\ x.stage \in {"open", "critical"} /\ x.id = checkup.at
            /\ f.id = checkup.at /\ f.sentAt = checkup.at /\ (x.stage = "critical" <=> f.severity = "critical")
         \/ Open(k) /\ x.id = e.id /\ x.stage = "recovered" /\ f.id = NoHour
         \/ /\ Open(k) /\ x.id = e.id /\ x.stage = "critical"
            /\ f.id = e.id /\ f.sentAt = checkup.at /\ f.severity = "critical"
         \/ /\ Open(k) /\ x.id = e.id /\ x.stage = "reminder" /\ e.sentAt + ReminderTime <= checkup.at
            /\ f.id = e.id /\ f.sentAt = checkup.at /\ f.severity = e.severity
  BY WhatIsTold
<1>5. /\ e.id \in Nat /\ e.sentAt \in Nat /\ checkup.at \in Nat \ {0} /\ clock \in Nat /\ ReminderTime \in Nat
      /\ x.id \in Nat \ {0} /\ f.id \in Nat /\ f.sentAt \in Nat
      /\ \A m \in messages : m.id \in Nat \ {0} /\ m.at \in Nat \ {0} /\ m.key \in Troubles
  <2>1. x.id \in Hours /\ f.id \in Hours \union {NoHour} /\ f.sentAt \in Hours \union {NoHour}
    BY <1>4 DEF Messages, Episodes
  <2> QED BY <1>2, <1>3, <2>1, HealthFields DEF NoHour
<1>6. /\ messages \subseteq messages' /\ messages' \subseteq messages \union {x} /\ cut \subseteq cut'
      /\ <<k, x.id>> \in cut' \/ \E n \in messages' : Same(x, n)
  BY <1>1 DEF Same
<1> HIDE DEF e, f, x
<1>7. /\ Open(k) <=> e.id # NoHour
      /\ Open(k)' <=> f.id # NoHour
      /\ \A j \in Troubles : j # k => (Open(j)' <=> Open(j))
  BY <1>3 DEF Open, e
<1>8. \A m \in messages : m.key = k => m.at < checkup.at
  BY <1>2 DEF CheckFits
<1>9. EpisodesFit'
  <2>1. Open(k) => e.id <= e.sentAt /\ e.sentAt <= checkup.at
    BY <1>2, <1>3 DEF EpisodesFit, e
  <2>2. Open(k)' => f.id <= f.sentAt /\ f.sentAt <= checkup.at
    BY <1>4, <1>5, <1>7, <2>1
  <2> QED BY <1>1, <1>2, <1>3, <1>7, <2>2 DEF EpisodesFit
<1>10. CheckFits'
  <2>1. \A j \in checkup'.todo : j \in checkup.todo /\ episodes'[j] = episodes[j]
    BY <1>2, <1>3, HealthFields
  <2>2. \A m \in messages' : m.key \in checkup'.todo => m \in messages /\ m.at < checkup.at
    BY <1>2, <1>3, <1>4, <1>6 DEF CheckFits
  <2>3. \A j \in checkup'.todo : Owed(episodes'[j], checkup'.active[j], checkup'.at) # "none"
    BY <1>2, <1>3, <2>1 DEF CheckFits
  <2> QED BY <1>3, <2>2, <2>3 DEF CheckFits
<1>11. MessagesFit'
  <2> SUFFICES ASSUME NEW m \in messages' PROVE
        /\ m.id <= m.at /\ m.at <= checkup.at
        /\ Open(m.key)' => /\ m.id <= episodes'[m.key].id
                           /\ m.id < episodes'[m.key].id => m.at < episodes'[m.key].id
                           /\ m.id = episodes'[m.key].id => m.stage # "recovered" /\ m.at <= episodes'[m.key].sentAt
    BY <1>3 DEF MessagesFit
  <2>1. Open(k) => e.id <= e.sentAt /\ e.sentAt <= checkup.at
    BY <1>2, <1>3 DEF EpisodesFit, e
  <2>2. CASE m \in messages /\ m.key # k
    BY <1>2, <1>3, <1>5, <1>7, <2>2 DEF MessagesFit
  <2>3. CASE m \in messages /\ m.key = k
    <3>1. /\ m.id <= m.at /\ m.at < checkup.at /\ m.id \in Nat /\ m.at \in Nat
          /\ Open(k) => /\ m.id <= e.id /\ (m.id < e.id => m.at < e.id)
                        /\ m.id = e.id => m.stage # "recovered" /\ m.at <= e.sentAt
      BY <1>2, <1>5, <1>8, <2>3 DEF MessagesFit, e
    <3> QED BY <1>3, <1>4, <1>5, <1>7, <2>3, <3>1
  <2>4. CASE m = x
    <3>1. m.key = k /\ m.at = checkup.at /\ m.id <= checkup.at
      BY <1>4, <1>5, <2>1, <2>4
    <3> QED BY <1>3, <1>4, <1>5, <1>7, <2>4, <3>1 DEF NoHour
  <2> QED BY <1>6, <2>2, <2>3, <2>4
<1>12. StallFits'
  <2>1. \A t : StoodStill(t)' <=> StoodStill(t)
    BY <1>1 DEF StoodStill, LastGood
  <2>2. "scan_stalled" \in Troubles
    BY <1>2, HealthFields
  <2>3. CASE k = "scan_stalled"
    <3>1. Open(k)' => StoodStill(f.id)
      BY <1>2, <1>3, <1>4, <1>7, <2>3 DEF StallFits, e
    <3> QED BY <1>3, <2>1, <2>3, <3>1 DEF StallFits
  <2>4. CASE k # "scan_stalled"
    BY <1>1, <1>2, <1>3, <1>7, <2>1, <2>2, <2>4 DEF StallFits
  <2> QED BY <2>3, <2>4
<1>13. OpenIsTold'
  <2> SUFFICES ASSUME NEW j \in Troubles, Open(j)', <<j, episodes'[j].id>> \notin cut' PROVE
        \E m \in messages' : /\ m.key = j /\ m.id = episodes'[j].id /\ Opens(m)
                             /\ m.stage = "critical" <=> episodes'[j].severity = "critical"
    BY DEF OpenIsTold
  <2>1. CASE j # k \/ (Open(k) /\ f.id = e.id /\ f.severity = e.severity)
    <3>1. Open(j) /\ episodes'[j].id = episodes[j].id /\ episodes'[j].severity = episodes[j].severity
      BY <1>3, <1>7, <2>1 DEF e
    <3>2. <<j, episodes[j].id>> \notin cut
      BY <1>6, <3>1
    <3>3. PICK m \in messages : /\ m.key = j /\ m.id = episodes[j].id /\ Opens(m)
                                /\ m.stage = "critical" <=> episodes[j].severity = "critical"
      BY <1>2, <3>1, <3>2 DEF OpenIsTold
    <3> QED BY <1>6, <3>1, <3>3
  <2>2. CASE j = k /\ x.stage \in {"open", "critical"} /\ (x.stage = "critical" <=> f.severity = "critical") /\ x.id = f.id
    <3>1. PICK n \in messages' : Same(x, n)
      BY <1>3, <1>6, <2>2
    <3>2. n.key = k /\ n.id = f.id /\ n.stage = x.stage
      BY <1>4, <2>2, <3>1 DEF Same
    <3> QED BY <1>3, <2>2, <3>2 DEF Opens
  <2> QED BY <1>4, <1>7, <2>1, <2>2
<1>14. ToldIsClosed'
  <2> SUFFICES ASSUME NEW m \in messages' PROVE
        \/ episodes'[m.key].id = m.id
        \/ <<m.key, m.id>> \in cut'
        \/ \E n \in messages' : OfOne(m, n) /\ n.stage = "recovered"
    BY DEF ToldIsClosed
  <2>1. CASE x.stage = "recovered" /\ m.key = k /\ m.id = x.id
    <3>1. CASE <<k, x.id>> \in cut'
      BY <2>1, <3>1
    <3>2. CASE \E n \in messages' : Same(x, n)
      BY <1>4, <2>1, <3>2 DEF Same, OfOne
    <3> QED BY <1>6, <3>1, <3>2
  <2>2. CASE m \in messages /\ ~(x.stage = "recovered" /\ m.key = k /\ m.id = x.id)
    <3>1. \/ episodes[m.key].id = m.id
          \/ <<m.key, m.id>> \in cut'
          \/ \E n \in messages' : OfOne(m, n) /\ n.stage = "recovered"
      BY <1>2, <1>6, <2>2 DEF ToldIsClosed
    <3>2. episodes[m.key].id = m.id => episodes'[m.key].id = m.id
      BY <1>3, <1>4, <1>5, <1>7, <2>2 DEF e, NoHour
    <3> QED BY <3>1, <3>2
  <2>3. CASE m = x /\ x.stage # "recovered"
    BY <1>3, <1>4, <2>3
  <2> QED BY <1>4, <1>6, <2>1, <2>2, <2>3
<1>15. EpisodesInTurn'
  <2>1. \A m \in messages : m.key = k =>
          /\ m.at < x.at
          /\ m.id < x.id => m.at < x.id
          /\ ~(x.id < m.id)
          /\ m.id = x.id => m.stage # "recovered"
    <3> SUFFICES ASSUME NEW m \in messages, m.key = k PROVE
          /\ m.at < x.at
          /\ m.id < x.id => m.at < x.id
          /\ ~(x.id < m.id)
          /\ m.id = x.id => m.stage # "recovered"
      OBVIOUS
    <3>1. /\ m.id <= m.at /\ m.at < checkup.at /\ m.id \in Nat /\ m.at \in Nat
          /\ Open(k) => /\ m.id <= e.id /\ (m.id < e.id => m.at < e.id)
                        /\ m.id = e.id => m.stage # "recovered"
      BY <1>2, <1>5, <1>8 DEF MessagesFit, e
    <3> QED BY <1>4, <1>5, <3>1
  <2> SUFFICES ASSUME NEW m \in messages', NEW n \in messages', m.key = n.key PROVE
        /\ m.id < n.id => m.at < n.id
        /\ m.id = n.id /\ m.stage = "recovered" => n.at <= m.at
    BY DEF EpisodesInTurn
  <2>2. CASE m \in messages /\ n \in messages
    BY <1>2, <2>2 DEF EpisodesInTurn
  <2>3. CASE m \in messages /\ n = x
    BY <1>4, <2>1, <2>3
  <2>4. CASE m = x /\ n \in messages
    BY <1>4, <1>5, <2>1, <2>4
  <2>5. CASE m = x /\ n = x
    BY <1>4, <1>5, <2>5
  <2> QED BY <1>6, <2>2, <2>3, <2>4, <2>5
<1>16. RemindersApart'
  <2> SUFFICES ASSUME NEW m \in messages', NEW n \in messages', OfOne(m, n), n.stage = "reminder", m.stage # "recovered",
                      m # n, m.at <= n.at
               PROVE  m.at + ReminderTime <= n.at
    BY DEF RemindersApart
  <2>1. CASE m \in messages /\ n \in messages
    BY <1>2, <2>1 DEF RemindersApart
  <2>2. CASE m \in messages /\ n = x
    <3>1. Open(k) /\ x.id = e.id /\ e.sentAt + ReminderTime <= checkup.at /\ m.key = k /\ m.id = e.id
      BY <1>4, <2>2 DEF OfOne
    <3>2. m.at <= e.sentAt
      BY <1>2, <2>2, <3>1 DEF MessagesFit, e
    <3> QED BY <1>4, <1>5, <2>2, <3>1, <3>2
  <2>3. CASE m = x /\ n \in messages
    <3>1. n.at < x.at
      BY <1>4, <1>8, <2>3 DEF OfOne
    <3> QED BY <1>4, <1>5, <2>3, <3>1
  <2> QED BY <1>6, <2>1, <2>2, <2>3
<1> QED BY <1>9, <1>10, <1>11, <1>12, <1>13, <1>14, <1>15, <1>16 DEF HealthInv

LEMMA CheckKeepsHealth ==
  ASSUME HealthInv, CheckBegin \/ CheckSample, HealthTypeOK' PROVE HealthInv'
<1>1. /\ HealthTypeOK /\ EpisodesFit /\ CheckFits /\ MessagesFit /\ StallFits
      /\ OpenIsTold /\ ToldIsClosed /\ EpisodesInTurn /\ RemindersApart
  BY DEF HealthInv
<1>2. UNCHANGED <<clock, tracker, host, episodes, messages, cut>>
  BY DEF CheckBegin, CheckSample
<1>3. /\ \A k \in Troubles : Open(k)' <=> Open(k)
      /\ \A t : StoodStill(t)' <=> StoodStill(t)
  BY <1>2 DEF Open, StoodStill, LastGood
<1>4. OpenIsTold' /\ ToldIsClosed' /\ EpisodesInTurn' /\ RemindersApart'
  BY <1>1, <1>2 DEF OpenIsTold, ToldIsClosed, EpisodesInTurn, RemindersApart, Open
<1>5. checkup.at <= checkup'.at /\ checkup'.at <= clock /\ checkup.at \in Nat /\ checkup'.at \in Nat
  <2>1. checkup'.at \in {checkup.at, clock}
    BY <1>1, HealthFields DEF CheckBegin, CheckSample
  <2>2. checkup.at <= clock /\ checkup.at \in Nat /\ clock \in Nat
    BY <1>1, HealthFields DEF EpisodesFit
  <2> QED BY <2>1, <2>2
<1>6. EpisodesFit'
  BY <1>1, <1>2, <1>3, <1>5, HealthFields DEF EpisodesFit
<1>7. MessagesFit'
  BY <1>1, <1>2, <1>5, HealthFields DEF MessagesFit, Open
<1>8. CASE CheckBegin
  <2>1. /\ checkup.pc = "idle" /\ clock > checkup.at
        /\ checkup' = [checkup EXCEPT !.pc = "host", !.at = clock]
    BY <1>8 DEF CheckBegin
  <2>2. checkup'.pc = "host" /\ checkup'.at = clock /\ checkup'.todo = {}
    BY <1>1, <2>1, HealthFields DEF CheckFits
  <2>3. CheckFits'
    BY <1>1, <1>2, <2>1, <2>2, HealthFields DEF CheckFits, MessagesFit
  <2>4. StallFits'
    BY <1>1, <1>2, <1>3, <2>2, HealthFields DEF StallFits
  <2> QED BY <1>4, <1>6, <1>7, <2>3, <2>4 DEF HealthInv
<1>9. CASE CheckSample
  <2>1. PICK read \in SUBSET {"disk", "backup"} :
          LET active == [k \in Troubles |-> Active(k, checkup.at, read)]
              todo == {k \in Troubles : Owed(episodes[k], active[k], checkup.at) # "none"} IN
          checkup' = [checkup EXCEPT !.pc = IF todo = {} THEN "idle" ELSE "tell", !.active = active, !.todo = todo]
    BY <1>9 DEF CheckSample
  <2> DEFINE active == [k \in Troubles |-> Active(k, checkup.at, read)]
             todo == {k \in Troubles : Owed(episodes[k], active[k], checkup.at) # "none"}
  <2>2. /\ checkup.pc = "host" /\ checkup'.at = checkup.at /\ checkup'.active = active /\ checkup'.todo = todo
        /\ checkup'.pc = IF todo = {} THEN "idle" ELSE "tell"
    BY <1>1, <1>9, <2>1, HealthFields DEF CheckSample
  <2>3. CheckFits'
    <3>2. \A k \in checkup'.todo : Owed(episodes'[k], checkup'.active[k], checkup'.at) # "none"
      BY <1>2, <2>2
    <3>3. \A m \in messages : m.at < checkup.at
      BY <1>1, <2>2 DEF CheckFits
    <3> HIDE DEF active, todo
    <3> QED BY <1>2, <2>2, <3>2, <3>3 DEF CheckFits
  <2>4. StallFits'
    <3> DEFINE s == "scan_stalled"
    <3>1. s \in Troubles /\ checkup'.active[s] = Active(s, checkup.at, read)
      BY <1>1, <2>2, HealthFields
    <3>2. checkup'.active[s] = "none" <=> checkup.at < LastGood + StallTime
      BY <3>1 DEF Active
    <3>3. /\ LastGood \in Nat /\ StallTime \in Nat /\ checkup.at \in Nat /\ tracker.ok \in Nat /\ episodes[s].id \in Nat
          /\ Open(s) => episodes[s].id <= checkup.at
      BY <1>1, <3>1, HealthFields DEF LastGood, EpisodesFit
    <3>4. checkup'.active[s] # "none" => StoodStill(checkup.at)
      BY <3>2, <3>3 DEF StoodStill
    <3>5. Open(s) /\ checkup'.active[s] = "none" => tracker.ok >= episodes[s].id
      BY <1>1, <3>2, <3>3 DEF StallFits, StoodStill
    <3>6. Open(s) => StoodStill(episodes[s].id)
      BY <1>1 DEF StallFits
    <3> HIDE DEF active, todo
    <3> QED BY <1>2, <1>3, <2>2, <3>1, <3>4, <3>5, <3>6 DEF StallFits
  <2> QED BY <1>4, <1>6, <1>7, <2>3, <2>4 DEF HealthInv
<1> QED BY <1>8, <1>9

LEMMA OtherKeepsHealth ==
  ASSUME HealthInv, ScanEnds \/ HostChanges \/ HealthCrash \/ HourPasses \/ UNCHANGED healthVars, HealthTypeOK' PROVE HealthInv'
<1>1. /\ HealthTypeOK /\ EpisodesFit /\ CheckFits /\ MessagesFit /\ StallFits
      /\ OpenIsTold /\ ToldIsClosed /\ EpisodesInTurn /\ RemindersApart
  BY DEF HealthInv
<1>2. CASE HealthCrash
  <2>1. /\ episodes' = [k \in Troubles |-> NoEpisode] /\ UNCHANGED <<clock, messages>>
        /\ checkup'.pc = "idle" /\ checkup'.at = clock /\ checkup'.todo = {}
        /\ cut' = cut \union {<<k, episodes[k].id>> : k \in {k \in Troubles : Open(k)}}
    BY <1>2 DEF HealthCrash
  <2>2. \A k \in Troubles : ~Open(k)'
    BY <2>1 DEF Open, NoEpisode
  <2>3. ToldIsClosed'
    <3>1. \A m \in messages : m.key \in Troubles /\ m.id # NoHour
      BY <1>1, HealthFields DEF NoHour
    <3>2. \A m \in messages : episodes[m.key].id = m.id => <<m.key, m.id>> \in cut'
      BY <2>1, <3>1 DEF Open
    <3> QED BY <1>1, <2>1, <3>2 DEF ToldIsClosed
  <2>4. EpisodesFit' /\ CheckFits' /\ OpenIsTold' /\ EpisodesInTurn' /\ RemindersApart'
    BY <1>1, <2>1, <2>2, HealthFields DEF EpisodesFit, CheckFits, OpenIsTold, EpisodesInTurn, RemindersApart
  <2>5. MessagesFit' /\ StallFits'
    BY <1>1, <2>1, <2>2, HealthFields DEF MessagesFit, StallFits, EpisodesFit
  <2> QED BY <2>3, <2>4, <2>5 DEF HealthInv
<1>3. CASE ScanEnds \/ HostChanges \/ HourPasses \/ UNCHANGED healthVars
  <2>1. UNCHANGED <<checkup, episodes, messages, cut>> /\ clock' \in Nat /\ clock <= clock'
    <3>1. HostChanges => UNCHANGED <<clock, checkup, episodes, messages, cut>>
      BY ZenonT(30) DEF HostChanges, Change
    <3>2. ScanEnds => UNCHANGED <<clock, checkup, episodes, messages, cut>>
      BY Zenon DEF ScanEnds
    <3>3. HourPasses => clock' = clock + 1 /\ UNCHANGED <<checkup, episodes, messages, cut>>
      BY DEF HourPasses
    <3>4. UNCHANGED healthVars => UNCHANGED <<clock, checkup, episodes, messages, cut>>
      BY DEF healthVars
    <3>5. clock \in Nat
      BY <1>1, HealthFields
    <3> QED BY <1>3, <3>1, <3>2, <3>3, <3>4, <3>5
  <2>2. OpenIsTold' /\ ToldIsClosed' /\ EpisodesInTurn' /\ RemindersApart' /\ MessagesFit'
    BY <1>1, <2>1 DEF OpenIsTold, ToldIsClosed, EpisodesInTurn, RemindersApart, MessagesFit, Open
  <2>3. EpisodesFit' /\ CheckFits'
    BY <1>1, <2>1, HealthFields DEF EpisodesFit, CheckFits, Open, Owed
  <2>4. StallFits'
    <3> DEFINE s == "scan_stalled"
    <3>1. /\ s \in Troubles /\ checkup.at \in Nat /\ episodes[s].id \in Nat /\ clock \in Nat /\ checkup.at <= clock
          /\ Open(s) => episodes[s].id <= clock
      BY <1>1, HealthFields DEF EpisodesFit
    <3>2. tracker'.ok = clock \/ (tracker'.ok = tracker.ok /\ LastGood' = LastGood)
      <4>1. CASE ScanEnds
        <5>1. PICK ok \in BOOLEAN : tracker' = [tracker EXCEPT
                !.attempts = Newest(Recent(@ \union {[at |-> clock, ok |-> ok]}, clock)), !.ok = IF ok THEN clock ELSE @]
          BY <4>1 DEF ScanEnds
        <5>2. /\ tracker'.ok = IF ok THEN clock ELSE tracker.ok
              /\ tracker'.start = tracker.start
          BY <1>1, <5>1 DEF HealthTypeOK
        <5> QED BY <5>2 DEF LastGood
      <4>2. CASE tracker' = tracker
        BY <4>2 DEF LastGood
      <4> QED BY <1>3, <4>1, <4>2 DEF HostChanges, Change, HourPasses, healthVars
    <3>3. CASE tracker'.ok = clock
      BY <2>1, <3>1, <3>3 DEF StallFits, StoodStill, Open
    <3>4. CASE tracker'.ok = tracker.ok /\ LastGood' = LastGood
      BY <1>1, <2>1, <3>4 DEF StallFits, StoodStill, Open
    <3> QED BY <3>2, <3>3, <3>4
  <2> QED BY <2>2, <2>3, <2>4 DEF HealthInv
<1> QED BY <1>2, <1>3

LEMMA HealthSteps ==
  HealthInv /\ [HealthNext]_healthVars => HealthInv'
<1> SUFFICES ASSUME HealthInv, [HealthNext]_healthVars PROVE HealthInv'
  OBVIOUS
<1>1. HealthTypeOK'
  <2>1. CASE HealthNext
    BY <2>1, HealthTyped
  <2>2. CASE UNCHANGED healthVars
    BY <2>2 DEF HealthInv, HealthTypeOK, healthVars
  <2> QED BY <2>1, <2>2
<1> QED BY <1>1, TellKeepsHealth, CheckKeepsHealth, OtherKeepsHealth DEF HealthNext

-----------------------------------------------------------------------------
(* The heartbeat: what a beat in progress and the file say of each other   *)

\* Without a slip the file holds the newest beat written, and a beat in progress is
\* not older; between beats the process remembers exactly what the file holds.
BeatsInOrder ==
  /\ file \in written \/ (file = NoTime /\ written = {})
  /\ \A t \in written : t <= file
  /\ file <= wall /\ beat.at <= wall
  /\ (beat.pc = "idle" /\ watch.ready) => watch.last = file
  /\ beat.pc = "read" => file <= beat.at
  /\ beat.pc = "write" => watch.last = beat.at /\ file <= beat.at

\* The gap a beat ends lies between two written beats that follow each other.
GapInOrder ==
  /\ beat.pc = "write" => beat.from \in {NoTime, file} /\ (beat.from # NoTime => beat.from + PauseGap < beat.at)
  /\ beat.pc = "note" => /\ beat.from \in written /\ beat.from + PauseGap < beat.at
                         /\ file = beat.at /\ watch.last = beat.at
                         /\ \A t \in written : t <= beat.from \/ t = beat.at
  /\ \A p \in pauses : p.from \in written /\ p.to \in written /\ p.from + PauseGap < p.to
  /\ \A p \in pauses, t \in written : t <= p.from \/ p.to <= t

\* A gap that a beat in progress has found to be short, or to begin nowhere, is so.
NoGapMissed == (beat.pc = "write" /\ beat.from = NoTime) => file = NoTime \/ beat.at <= file + PauseGap

PauseInv ==
  /\ PauseTypeOK /\ PausesToldOnce /\ PausesAreTold
  /\ beat.pc # "idle" => beat.at # NoTime /\ watch.ready
  /\ beat.pc = "note" => beat.from # NoTime
  /\ (~watch.ready \/ beat.pc = "read") => watch.last = NoTime
  /\ ~slipped => BeatsInOrder /\ GapInOrder
  /\ (~slipped /\ ~unsaid) => NoGapMissed

LEMMA PauseStarts == PauseInit => PauseInv
<1> SUFFICES ASSUME PauseInit PROVE PauseInv
  OBVIOUS
<1>1. /\ wall = 1 /\ file = NoTime /\ beat.pc = "idle" /\ beat.at = NoTime /\ ~watch.ready /\ watch.last = NoTime
      /\ pauses = {} /\ written = {}
  BY DEF PauseInit, AtRest, Asleep
<1>2. PauseTypeOK
  <2>1. 1 \in Times /\ 0 \in 0 .. MaxTrips
    BY PauseAssumption DEF Times
  <2> QED BY <2>1 DEF PauseInit, PauseTypeOK, AtRest, Asleep
<1> QED BY <1>1, <1>2 DEF PauseInv, PausesToldOnce, PausesAreTold, BeatsInOrder, GapInOrder, NoGapMissed, NoTime

LEMMA PauseInvSafe == PauseInv => PauseSafety
<1> SUFFICES ASSUME PauseInv PROVE PausesAreReal
  BY DEF PauseInv, PauseSafety
<1> SUFFICES ASSUME ~slipped, NEW p \in pauses PROVE
      /\ p.from + PauseGap < p.to
      /\ \A t \in written : t <= p.from \/ p.to <= t
      /\ \A q \in pauses : p = q \/ p.to <= q.from \/ q.to <= p.from
  BY DEF PausesAreReal
<1>1. GapInOrder /\ PausesToldOnce /\ PauseTypeOK
  BY DEF PauseInv
<1>2. ASSUME NEW q \in pauses PROVE p = q \/ p.to <= q.from \/ q.to <= p.from
  <2>1. /\ p.from \in Nat /\ p.to \in Nat /\ q.from \in Nat /\ q.to \in Nat
        /\ p.from <= q.from \/ q.to <= p.from
        /\ q.from <= p.from \/ p.to <= q.from
    BY <1>1 DEF GapInOrder, PauseTypeOK, Times
  <2>2. p.from = q.from => p = q
    BY <1>1 DEF PausesToldOnce
  <2> QED BY <2>1, <2>2
<1> QED BY <1>1, <1>2 DEF GapInOrder

\* The fields of a state whose types hold.
LEMMA PauseFields ==
  ASSUME PauseTypeOK
  PROVE  /\ wall \in Nat \ {0} /\ file \in Nat /\ watch.last \in Nat /\ watch.ready \in BOOLEAN
         /\ beat.at \in Nat /\ beat.from \in Nat /\ PauseGap \in Nat \ {0} /\ LastTime \in Nat \ {0}
         /\ watch = [last |-> watch.last, ready |-> watch.ready]
         /\ beat = [pc |-> beat.pc, at |-> beat.at, from |-> beat.from]
         /\ \A t \in written : t \in Nat \ {0}
         /\ \A p \in pauses : p.from \in Nat \ {0} /\ p.to \in Nat \ {0}
BY PauseAssumption DEF PauseTypeOK, Times, NoTime

LEMMA PauseTyped ==
  ASSUME PauseInv, PauseNext PROVE PauseTypeOK'
<1> DEFINE Some == Times \union {NoTime}
           Beats == [pc : {"idle", "read", "write", "note"}, at : Some, from : Some]
<1>1. /\ PauseTypeOK /\ wall \in Times /\ file \in Some /\ watch.last \in Some /\ watch.ready \in BOOLEAN
      /\ beat.at \in Some /\ beat.from \in Some /\ beat \in Beats /\ watch \in [last : Some, ready : BOOLEAN]
      /\ beat.pc # "idle" => beat.at \in Times
      /\ beat.pc = "note" => beat.from \in Times
  BY DEF PauseInv, PauseTypeOK
<1>2. wall' \in Times /\ trips' \in 0 .. MaxTrips /\ slipped' \in BOOLEAN /\ unsaid' \in BOOLEAN
  <2>1. Trip => trips' \in 0 .. MaxTrips
    BY <1>1, PauseAssumption DEF PauseTypeOK, Trip
  <2>2. wall < LastTime => wall + 1 \in Times
    BY <1>1, PauseAssumption DEF Times
  <2> QED BY <1>1, <2>1, <2>2 DEF PauseTypeOK, PauseNext, BeatBegin, BeatRead, BeatWrite, BeatWriteFails, BeatNote,
             BeatNoteFails, BeatCrash, TimePasses
<1>3. \A last, now \in Some : Heard(last, now) \in Some /\ GapBefore(last, now) \in Some
  BY DEF Heard, GapBefore
<1>4. AtRest \in Beats /\ Asleep \in [last : Some, ready : BOOLEAN]
  BY DEF AtRest, Asleep
<1>5. NoTime \in Some /\ 1 .. wall \subseteq Times /\ Times \subseteq Some
  BY <1>1, PauseAssumption DEF Times
<1> HIDE DEF Some
<1>6. beat' \in Beats /\ watch' \in [last : Some, ready : BOOLEAN]
  <2>1. CASE BeatBegin
    <3>1. PICK now \in 1 .. wall :
            /\ watch' = [last |-> IF watch.ready THEN Heard(watch.last, now) ELSE watch.last, ready |-> TRUE]
            /\ beat' = [pc |-> IF watch.ready THEN "write" ELSE "read", at |-> now,
                        from |-> IF watch.ready THEN GapBefore(watch.last, now) ELSE NoTime]
      BY <2>1 DEF BeatBegin
    <3>2. now \in Some /\ Heard(watch.last, now) \in Some /\ GapBefore(watch.last, now) \in Some
      BY <1>1, <1>3, <1>5
    <3> QED BY <1>1, <1>5, <3>1, <3>2
  <2>2. CASE BeatRead
    <3>1. PICK wrote \in {file, NoTime} :
            /\ watch' = [watch EXCEPT !.last = Heard(Heard(watch.last, wrote), beat.at)]
            /\ beat' = [beat EXCEPT !.pc = "write", !.from = GapBefore(Heard(watch.last, wrote), beat.at)]
      BY <2>2 DEF BeatRead
    <3>2. /\ Heard(Heard(watch.last, wrote), beat.at) \in Some
          /\ GapBefore(Heard(watch.last, wrote), beat.at) \in Some
      BY <1>1, <1>3, <1>5
    <3> QED BY <1>1, <3>1, <3>2
  <2>3. CASE BeatWrite \/ BeatWriteFails
    BY <1>1, <1>4, <2>3 DEF BeatWrite, BeatWriteFails, Noting
  <2>4. CASE BeatNote \/ BeatNoteFails \/ BeatCrash \/ TimePasses
    BY <1>1, <1>4, <2>4 DEF BeatNote, BeatNoteFails, BeatCrash, TimePasses
  <2> QED BY <2>1, <2>2, <2>3, <2>4 DEF PauseNext
<1>7. file' \in Some /\ pauses' \subseteq [from : Times, to : Times] /\ written' \subseteq Times
  <2>1. CASE BeatNote
    BY <1>1, <2>1 DEF BeatNote, PauseTypeOK
  <2>2. CASE BeatWrite
    BY <1>1, <2>2 DEF BeatWrite, PauseTypeOK
  <2> QED BY <1>1, <2>1, <2>2 DEF PauseTypeOK, PauseNext, BeatBegin, BeatRead, BeatWriteFails,
             BeatNoteFails, BeatCrash, TimePasses
<1> QED BY <1>2, <1>6, <1>7 DEF PauseTypeOK, Some

\* Heard and GapBefore at a beat that is not older than what is remembered.
LEMMA BeatLaws ==
  ASSUME PauseTypeOK, NEW last \in Nat, NEW now \in Nat
  PROVE  /\ Heard(last, now) \in {last, now} /\ Heard(NoTime, now) = now
         /\ last <= now => Heard(last, now) = now
         /\ GapBefore(last, now) \in {NoTime, last} /\ GapBefore(NoTime, now) = NoTime
         /\ GapBefore(last, now) # NoTime => last + PauseGap < now
         /\ GapBefore(last, now) = NoTime => last = NoTime \/ now <= last + PauseGap
BY PauseFields DEF Heard, GapBefore, NoTime

LEMMA BeginKeepsBeat ==
  ASSUME PauseInv, BeatBegin, PauseTypeOK' PROVE PauseInv'
<1> USE DEF PauseInv
<1>1. PICK now \in 1 .. wall :
        /\ beat.pc = "idle"
        /\ \/ now = wall /\ UNCHANGED <<trips, slipped>>
           \/ now < wall /\ Trip /\ slipped' = TRUE
        /\ watch' = [last |-> IF watch.ready THEN Heard(watch.last, now) ELSE watch.last, ready |-> TRUE]
        /\ beat' = [pc |-> IF watch.ready THEN "write" ELSE "read", at |-> now,
                    from |-> IF watch.ready THEN GapBefore(watch.last, now) ELSE NoTime]
        /\ UNCHANGED <<wall, file, pauses, written, unsaid>>
  BY DEF BeatBegin
<1>2. now \in Nat \ {0} /\ wall \in Nat /\ watch.last \in Nat /\ file \in Nat /\ beat.at \in Nat
  BY <1>1, PauseFields
<1>3. /\ beat'.at = now /\ watch'.ready /\ beat'.pc = IF watch.ready THEN "write" ELSE "read"
      /\ watch.ready => watch'.last = Heard(watch.last, now) /\ beat'.from = GapBefore(watch.last, now)
      /\ ~watch.ready => watch'.last = watch.last /\ beat'.from = NoTime
  BY <1>1
<1>4. PausesToldOnce' /\ PausesAreTold'
  BY <1>1, <1>3 DEF PausesToldOnce, PausesAreTold
<1>5. ASSUME ~slipped' PROVE BeatsInOrder' /\ GapInOrder' /\ NoGapMissed'
  <2>1. ~slipped /\ now = wall
    BY <1>1, <1>5
  <2>2. file <= now /\ (watch.ready => watch.last = file)
    BY <1>1, <2>1 DEF BeatsInOrder
  <2>3. watch.ready => watch'.last = now
    BY <1>2, <1>3, <2>2, BeatLaws
  <2>4. BeatsInOrder'
    BY <1>1, <1>2, <1>3, <2>1, <2>2, <2>3 DEF BeatsInOrder
  <2>5. GapInOrder' /\ NoGapMissed'
    BY <1>1, <1>2, <1>3, <2>1, <2>2, BeatLaws DEF GapInOrder, NoGapMissed
  <2> QED BY <2>4, <2>5
<1> QED BY <1>1, <1>2, <1>3, <1>4, <1>5 DEF NoTime

LEMMA ReadKeepsBeat ==
  ASSUME PauseInv, BeatRead, PauseTypeOK' PROVE PauseInv'
<1> USE DEF PauseInv
<1>1. PICK wrote \in {file, NoTime} :
        /\ beat.pc = "read"
        /\ wrote # file => unsaid' = TRUE
        /\ wrote = file => UNCHANGED <<trips, unsaid>>
        /\ watch' = [watch EXCEPT !.last = Heard(Heard(watch.last, wrote), beat.at)]
        /\ beat' = [beat EXCEPT !.pc = "write", !.from = GapBefore(Heard(watch.last, wrote), beat.at)]
        /\ UNCHANGED <<wall, file, pauses, written, slipped>>
  BY DEF BeatRead
<1>2. wrote \in Nat /\ watch.last = NoTime /\ beat.at \in Nat \ {0} /\ file \in Nat /\ wall \in Nat
  BY <1>1, PauseFields DEF NoTime
<1>3. /\ beat'.at = beat.at /\ beat'.pc = "write" /\ watch'.ready = watch.ready
      /\ watch'.last = Heard(wrote, beat.at) /\ beat'.from = GapBefore(wrote, beat.at)
  BY <1>1, <1>2, PauseFields, BeatLaws
<1>4. PausesToldOnce' /\ PausesAreTold'
  BY <1>1, <1>3 DEF PausesToldOnce, PausesAreTold
<1>5. ASSUME ~slipped' PROVE BeatsInOrder' /\ GapInOrder' /\ (~unsaid' => NoGapMissed')
  <2>1. ~slipped /\ file <= beat.at /\ wrote <= beat.at
    BY <1>1, <1>2, <1>5 DEF BeatsInOrder, NoTime
  <2>2. watch'.last = beat.at
    BY <1>2, <1>3, <2>1, BeatLaws
  <2>3. BeatsInOrder'
    BY <1>1, <1>2, <1>3, <2>1, <2>2 DEF BeatsInOrder
  <2>4. GapInOrder' /\ (~unsaid' => NoGapMissed')
    BY <1>1, <1>2, <1>3, <2>1, BeatLaws DEF GapInOrder, NoGapMissed
  <2> QED BY <2>3, <2>4
<1> QED BY <1>1, <1>2, <1>3, <1>4, <1>5 DEF NoTime

LEMMA WriteKeepsBeat ==
  ASSUME PauseInv, BeatWrite, PauseTypeOK' PROVE PauseInv'
<1> USE DEF PauseInv
<1>1. /\ beat.pc = "write" /\ file' = beat.at /\ written' = written \union {beat.at} /\ Noting
      /\ UNCHANGED <<wall, watch, pauses, trips, slipped, unsaid>>
  BY DEF BeatWrite
<1>2. /\ beat.at \in Nat \ {0} /\ beat.from \in Nat /\ file \in Nat /\ wall \in Nat /\ watch.ready /\ PauseGap \in Nat
      /\ \A t \in written : t \in Nat \ {0}
      /\ \A p \in pauses : p.from \in Nat \ {0} /\ p.to \in Nat \ {0}
  BY <1>1, PauseFields DEF NoTime
<1>3. /\ beat.from = NoTime => beat'.pc = "idle" /\ beat'.at = NoTime
      /\ beat.from # NoTime => beat'.pc = "note" /\ beat'.at = beat.at /\ beat'.from = beat.from
  BY <1>1, <1>2, PauseFields DEF Noting, AtRest
<1>4. PausesToldOnce'
  BY <1>1 DEF PausesToldOnce
<1>5. ASSUME ~slipped' PROVE BeatsInOrder' /\ GapInOrder' /\ NoGapMissed'
  <2>1. /\ ~slipped /\ file <= beat.at /\ watch.last = beat.at /\ beat.from \in {NoTime, file}
        /\ \A t \in written : t <= file
    BY <1>1, <1>5 DEF BeatsInOrder, GapInOrder
  <2>2. BeatsInOrder'
    BY <1>1, <1>2, <1>3, <2>1 DEF BeatsInOrder, NoTime
  <2>3. beat.from # NoTime => beat.from \in written /\ beat.from + PauseGap < beat.at
    BY <1>1, <2>1 DEF BeatsInOrder, GapInOrder
  <2>4. \A p \in pauses : p.to <= file
    BY <1>1, <2>1 DEF GapInOrder
  <2>5. \A p \in pauses, t \in written' : t <= p.from \/ p.to <= t
    BY <1>1, <1>2, <2>1, <2>4 DEF GapInOrder
  <2>6. GapInOrder'
    BY <1>1, <1>2, <1>3, <2>1, <2>3, <2>5 DEF GapInOrder
  <2> QED BY <1>3, <2>2, <2>6 DEF NoGapMissed
<1>6. PausesAreTold'
  <2> SUFFICES ASSUME ~slipped', ~unsaid', NEW t \in written', NEW u \in written',
                      t + PauseGap < u, \A v \in written' : v <= t \/ u <= v
               PROVE  \/ [from |-> t, to |-> u] \in pauses'
                      \/ beat'.pc = "note" /\ beat'.from = t /\ beat'.at = u
    BY DEF PausesAreTold
  <2>1. /\ ~slipped /\ ~unsaid /\ file <= beat.at /\ \A v \in written : v <= file
        /\ file \in written \/ (file = NoTime /\ written = {})
        /\ beat.from \in {NoTime, file} /\ NoGapMissed
        /\ t \in Nat \ {0} /\ u \in Nat \ {0}
    BY <1>1, <1>2 DEF BeatsInOrder, GapInOrder
  <2>2. CASE u \in written
    <3>1. t \in written
      BY <1>1, <1>2, <2>1, <2>2
    <3> QED BY <1>1, <2>1, <2>2, <3>1 DEF PausesAreTold
  <2>3. CASE u \notin written
    <3>1. u = beat.at /\ t \in written /\ t # u
      BY <1>1, <1>2, <2>1, <2>3
    <3>2. t = file /\ file # NoTime
      BY <1>1, <1>2, <2>1, <2>3, <3>1 DEF NoTime
    <3> QED BY <1>1, <1>2, <1>3, <2>1, <3>1, <3>2 DEF NoGapMissed
  <2> QED BY <2>2, <2>3
<1> QED BY <1>1, <1>2, <1>3, <1>4, <1>5, <1>6 DEF NoTime

LEMMA NoteKeepsBeat ==
  ASSUME PauseInv, BeatNote \/ BeatNoteFails, PauseTypeOK' PROVE PauseInv'
<1> USE DEF PauseInv
<1>1. /\ beat.pc = "note" /\ beat' = AtRest
      /\ UNCHANGED <<wall, file, watch, written, slipped>>
  BY DEF BeatNote, BeatNoteFails
<1>2. /\ beat'.pc = "idle" /\ beat'.at = NoTime /\ beat.at \in Nat \ {0} /\ beat.from \in Nat \ {0} /\ wall \in Nat /\ watch.ready
      /\ PauseGap \in Nat /\ \A t \in written : t \in Nat \ {0}
      /\ \A p \in pauses : p.from \in Nat \ {0} /\ p.to \in Nat \ {0}
  BY <1>1, PauseFields DEF AtRest, NoTime
<1> DEFINE new == [from |-> beat.from, to |-> beat.at]
<1>3. /\ pauses' = pauses \/ (pauses' = pauses \union {new} /\ \A p \in pauses : p.from # beat.from)
      /\ unsaid' \/ (unsaid' = unsaid /\ \E p \in pauses' : p.from = beat.from)
      /\ new.from = beat.from /\ new.to = beat.at
  <2>1. CASE BeatNote
    <3>1. unsaid' = unsaid
      BY <2>1 DEF BeatNote
    <3>2. CASE \E p \in pauses : p.from = beat.from
      BY <2>1, <3>1, <3>2 DEF BeatNote
    <3>3. CASE ~ \E p \in pauses : p.from = beat.from
      <4>1. pauses' = pauses \union {new} /\ new \in pauses'
        BY <2>1, <3>3 DEF BeatNote
      <4> QED BY <3>1, <3>3, <4>1
    <3> QED BY <3>2, <3>3
  <2>2. CASE BeatNoteFails
    BY <2>2 DEF BeatNoteFails
  <2> QED BY <2>1, <2>2
<1>4. PausesToldOnce'
  BY <1>3 DEF PausesToldOnce
<1>5. ASSUME ~slipped' PROVE BeatsInOrder' /\ GapInOrder' /\ NoGapMissed'
  <2>1. /\ ~slipped /\ beat.from \in written /\ beat.at \in written /\ beat.from + PauseGap < beat.at
        /\ watch.last = beat.at /\ file = beat.at
        /\ \A t \in written : t <= beat.from \/ t = beat.at
    BY <1>1, <1>2, <1>5 DEF BeatsInOrder, GapInOrder, NoTime
  <2>2. BeatsInOrder'
    BY <1>1, <1>2, <2>1 DEF BeatsInOrder, NoTime
  <2>3. GapInOrder'
    BY <1>1, <1>2, <1>3, <2>1 DEF GapInOrder
  <2> QED BY <1>2, <2>2, <2>3 DEF NoGapMissed
<1>6. PausesAreTold'
  <2> SUFFICES ASSUME ~slipped', ~unsaid', NEW t \in written', NEW u \in written',
                      t + PauseGap < u, \A v \in written' : v <= t \/ u <= v
               PROVE  [from |-> t, to |-> u] \in pauses'
    BY DEF PausesAreTold
  <2>1. ~slipped /\ ~unsaid /\ t \in written /\ u \in written /\ pauses \subseteq pauses'
    BY <1>1, <1>3
  <2>2. CASE [from |-> t, to |-> u] \in pauses
    BY <2>1, <2>2
  <2>3. CASE beat.from = t /\ beat.at = u
    <3>1. PICK p \in pauses' : p.from = beat.from
      BY <1>3, <2>1
    <3>2. p \in [from : Times, to : Times] /\ p.to \in written /\ p.from < p.to
      BY <1>1, <1>2, <1>3, <1>5, <2>1 DEF GapInOrder, PauseTypeOK
    <3>3. p.to = beat.at
      BY <1>1, <1>2, <1>3, <2>1, <3>1, <3>2 DEF GapInOrder
    <3> QED BY <2>3, <3>1, <3>2, <3>3
  <2> QED BY <1>1, <2>1, <2>2, <2>3 DEF PausesAreTold
<1> QED BY <1>1, <1>2, <1>3, <1>4, <1>5, <1>6 DEF NoTime

LEMMA OtherKeepsBeat ==
  ASSUME PauseInv, BeatWriteFails \/ BeatCrash \/ TimePasses \/ UNCHANGED pauseVars, PauseTypeOK' PROVE PauseInv'
<1> USE PauseFields DEF PauseInv, PausesToldOnce, PausesAreTold
<1>1. CASE BeatWriteFails
  BY <1>1 DEF BeatWriteFails, Noting, AtRest, NoTime
<1>2. CASE BeatCrash
  <2>1. /\ beat'.pc = "idle" /\ beat'.at = NoTime /\ ~watch'.ready /\ watch'.last = NoTime
        /\ UNCHANGED <<wall, file, pauses, written, slipped>>
        /\ ~unsaid' => ~unsaid /\ beat.pc # "note"
    BY <1>2 DEF BeatCrash, AtRest, Asleep
  <2> QED BY <2>1 DEF BeatsInOrder, GapInOrder, NoGapMissed, NoTime
<1>3. CASE TimePasses
  BY <1>3 DEF TimePasses, BeatsInOrder, GapInOrder, NoGapMissed
<1>4. CASE UNCHANGED pauseVars
  BY <1>4 DEF pauseVars, BeatsInOrder, GapInOrder, NoGapMissed
<1> QED BY <1>1, <1>2, <1>3, <1>4

LEMMA PauseSteps ==
  PauseInv /\ [PauseNext]_pauseVars => PauseInv'
<1> SUFFICES ASSUME PauseInv, [PauseNext]_pauseVars PROVE PauseInv'
  OBVIOUS
<1>1. PauseTypeOK'
  <2>1. CASE PauseNext
    BY <2>1, PauseTyped
  <2>2. CASE UNCHANGED pauseVars
    BY <2>2 DEF PauseInv, PauseTypeOK, pauseVars
  <2> QED BY <2>1, <2>2
<1> QED BY <1>1, BeginKeepsBeat, ReadKeepsBeat, WriteKeepsBeat, NoteKeepsBeat, OtherKeepsBeat DEF PauseNext

-----------------------------------------------------------------------------
(* The replication automation                                              *)

\* What was planned for a contract is its own, and the wallets of two groups differ.
PlansFit ==
  /\ \A c \in Mints : /\ tries[c] <= 1 /\ (tries[c] = 0 => planned[c] = {}) /\ (tries[c] = 1 => c \in claims)
                      /\ \A x \in planned[c] : x.mint = c
                      /\ \A x, y \in planned[c] : x # y => x.wallets \intersect y.wallets = {}
  /\ \A x \in prepared : x \in planned[x.mint]

\* What the pass has in hand, and that it has answered the rest of the plan; what it
\* has not claimed itself nobody has.
JobFits ==
  /\ \A c \in job.todo : c \notin claims /\ c \notin job.mints
  /\ job.pc = "claim" => \A c \in job.mints : c \notin claims
  /\ job.pc \in {"idle", "qualify"} => job.mints = {}
  /\ job.pc \notin {"idle", "qualify"} => \E c \in Mints : job.mints = {c}
  /\ job.pc \in {"idle", "qualify", "claim", "prepare"} => job.groups = {} /\ job.walk = {}
  /\ job.pc = "prepare" => \A c \in job.mints : c \in claims /\ tries[c] = 0
  /\ job.pc \in {"record", "paid", "walk", "note"} =>
       \A c \in job.mints : planned[c] # {} /\ planned[c] \subseteq announced \union asked \union job.groups \union job.walk
  /\ \A x \in job.groups : x \notin prepared /\ x.mint \in job.mints /\ x \in planned[x.mint]
  /\ job.pc = "record" => job.walk = {} /\ job.groups # {}
  /\ job.pc \in {"paid", "walk", "note"} => \E x \in prepared : job.walk = {x}
  /\ job.pc = "walk" => \A x \in job.walk : ~x.paid
  /\ job.pc = "note" => job.walk \subseteq asked

\* What the pass has seen to hold since the campaign was prepared.
WalkSaw ==
  /\ asked \subseteq prepared
  /\ \A x \in prepared : Holding(x) \subseteq since[x]
  /\ job.pc = "walk" => \A x \in job.walk :
       /\ job.step > 1 => "ready" \in since[x]
       /\ job.step > 2 => {"clear", "score"} \subseteq since[x]
       /\ job.step > 3 => {"mint", "free"} \subseteq since[x]
       /\ job.step > 4 => "caps" \in since[x]
       /\ job.step = 7 => request[x].state = "ended"

\* What the request processor has seen to hold since it armed.
PollSaw ==
  /\ \A x, y \in poll.on : x = y
  /\ \A x \in Campaigns : request[x].state = "armed" => Holding(x) \subseteq lately[x]
  /\ \A x \in poll.on :
       /\ poll.step <= 5 => request[x].state = "started"
       /\ poll.step > 5 => request[x].state = "armed" \/ (request[x].state = "running" /\ poll.step = 10)
       /\ request[x].kind # "attended" =>
            /\ poll.step > 6 => "ready" \in lately[x]
            /\ poll.step > 8 => {"clear", "score"} \subseteq lately[x]
            /\ poll.step > 9 => {"mint", "free"} \subseteq lately[x]

ReplicationInv ==
  /\ ReplicationTypeOK /\ PlansFit /\ JobFits /\ WalkSaw /\ PollSaw
  /\ ClaimsAreAnswered /\ UnattendedIsFree /\ AllowedWhenItMatters

LEMMA ReplicationStarts == ReplicationInit => ReplicationInv
<1> SUFFICES ASSUME ReplicationInit PROVE ReplicationInv
  OBVIOUS
<1>1. /\ home = HomeSigns /\ signs = [c \in Mints |-> MintSigns]
      /\ claims = {} /\ prepared = {} /\ asked = {} /\ announced = {} /\ stopped = {}
      /\ request = [x \in Campaigns |-> NoRequest]
      /\ job = NoJob /\ poll = NoPoll
      /\ planned = [c \in Mints |-> {}] /\ tries = [c \in Mints |-> 0] /\ untold = {}
      /\ since = [x \in Campaigns |-> {}] /\ lately = [x \in Campaigns |-> {}]
      /\ turns = 0
  BY DEF ReplicationInit
<1>2. ReplicationTypeOK
  <2>1. 0 \in 0 .. MaxTurns
    BY ReplicationAssumption
  <2> HIDE DEF Campaigns
  <2> QED BY <1>1, <2>1 DEF ReplicationTypeOK, NoRequest, NoJob, NoPoll
<1>3. PlansFit /\ JobFits
  BY <1>1 DEF PlansFit, JobFits, NoJob
<1>4. WalkSaw /\ PollSaw /\ ClaimsAreAnswered /\ UnattendedIsFree /\ AllowedWhenItMatters
  BY <1>1 DEF WalkSaw, PollSaw, ClaimsAreAnswered, UnattendedIsFree, AllowedWhenItMatters, NoJob, NoPoll, NoRequest
<1> QED BY <1>2, <1>3, <1>4 DEF ReplicationInv

LEMMA ReplicationInvSafe == ReplicationInv => ReplicationSafety
<1> SUFFICES ASSUME ReplicationInv PROVE PreparedOnce
  BY DEF ReplicationInv, ReplicationSafety
<1>1. PlansFit /\ prepared \subseteq Campaigns
  BY DEF ReplicationInv, ReplicationTypeOK
<1>2. \A x \in prepared : x.mint \in Mints
  BY <1>1 DEF Campaigns
<1> QED BY <1>1, <1>2 DEF PreparedOnce, PlansFit

\* What holds of a contract and of the host is what may allow a request.
LEMMA HoldingTyped ==
  ASSUME NEW x \in Campaigns, home \subseteq HomeSigns, signs \in [Mints -> SUBSET MintSigns]
  PROVE  Holding(x) \subseteq ToAsk
<1>1. x.mint \in Mints
  BY DEF Campaigns
<1> QED BY <1>1 DEF Holding, HomeSigns, MintSigns, ToAsk, ToRun

\* Of the wallets a plan has targets for some are chosen.
LEMMA SomeSelected ==
  ASSUME NEW targets, targets \subseteq Nat, targets # {}, NEW priced \in BOOLEAN
  PROVE  Selected(targets, priced) # {}
<1>1. PICK w \in targets : \A v \in targets : ~(<<v, w>> \in OpToRel(<, Nat))
  BY NatLessThanWellFounded, WFMin
<1>2. \A v \in targets : ~(v < w)
  BY <1>1 DEF OpToRel
<1>3. {v \in targets : v < w} = {}
  BY <1>2
<1>4. Cardinality({v \in targets : v < w}) = 0
  BY <1>3, FS_EmptySet
<1>5. Cardinality({v \in targets : v < w}) < (IF priced THEN PaidLimit ELSE FleetLimit)
  BY <1>4, ReplicationAssumption
<1> QED BY <1>5 DEF Selected

\* The groups of a contract: some, its own, and without a wallet in common.
LEMMA GroupsApart ==
  ASSUME NEW c \in Mints, NEW targets \in (SUBSET FleetWallets) \ {{}}, NEW priced \in BOOLEAN, NEW together \in BOOLEAN
  PROVE  /\ Groups(c, targets, priced, together) \subseteq Campaigns
         /\ Groups(c, targets, priced, together) # {}
         /\ \A x \in Groups(c, targets, priced, together) : x.mint = c
         /\ \A x, y \in Groups(c, targets, priced, together) : x # y => x.wallets \intersect y.wallets = {}
<1> DEFINE chosen == Selected(targets, priced)
           sets == IF together THEN {chosen} ELSE {{w} : w \in chosen}
           groups == Groups(c, targets, priced, together)
<1>0. targets \subseteq FleetWallets /\ targets # {} /\ targets \subseteq Nat
  BY ReplicationAssumption
<1>1. chosen # {} /\ chosen \subseteq FleetWallets
  <2>1. chosen # {}
    BY <1>0, SomeSelected
  <2>2. chosen \subseteq targets
    BY DEF Selected
  <2> QED BY <1>0, <2>1, <2>2
<1> HIDE DEF chosen
<1>2. /\ sets # {} /\ sets \subseteq (SUBSET FleetWallets) \ {{}}
      /\ \A u, v \in sets : u # v => u \intersect v = {}
  <2>1. CASE together
    <3>1. sets = {chosen}
      BY <2>1
    <3> HIDE DEF sets
    <3> QED BY <1>1, <3>1
  <2>2. CASE ~together
    <3>1. sets = {{w} : w \in chosen}
      BY <2>2
    <3>2. \E w \in chosen : {w} \in sets
      BY <1>1, <3>1
    <3> HIDE DEF sets
    <3>3. \A u \in sets : \E w \in chosen : u = {w}
      BY <3>1
    <3>4. sets \subseteq (SUBSET FleetWallets) \ {{}}
      BY <1>1, <3>3
    <3>5. \A u, v \in sets : u # v => u \intersect v = {}
      <4> SUFFICES ASSUME NEW u \in sets, NEW v \in sets, u # v
                   PROVE  u \intersect v = {}
        OBVIOUS
      <4>1. PICK a \in chosen : u = {a}
        BY <3>3
      <4>2. PICK b \in chosen : v = {b}
        BY <3>3
      <4>3. a # b
        BY <4>1, <4>2
      <4> QED BY <4>1, <4>2, <4>3
    <3> QED BY <3>2, <3>4, <3>5
  <2> QED BY <2>1, <2>2
<1>3. groups = {[mint |-> c, wallets |-> ws, paid |-> priced] : ws \in sets}
  BY DEF Groups, chosen
<1> HIDE DEF sets, groups
<1>4. groups # {} /\ groups \subseteq Campaigns
  <2>1. PICK ws \in sets : TRUE
    BY <1>2
  <2>2. [mint |-> c, wallets |-> ws, paid |-> priced] \in groups
    BY <1>3, <2>1
  <2>3. \A u \in sets : [mint |-> c, wallets |-> u, paid |-> priced] \in Campaigns
    BY <1>2 DEF Campaigns
  <2> QED BY <1>3, <2>2, <2>3
<1>5. \A x \in groups : \E ws \in sets : x.mint = c /\ x.wallets = ws /\ x = [mint |-> c, wallets |-> ws, paid |-> priced]
  BY <1>3
<1>6. \A x, y \in groups : x # y => x.wallets \intersect y.wallets = {}
  BY <1>2, <1>5
<1> QED BY <1>4, <1>5, <1>6 DEF groups

\* The fields of a state whose types hold.
LEMMA ReplicationFields ==
  ASSUME ReplicationTypeOK
  PROVE  /\ home \subseteq HomeSigns /\ signs \in [Mints -> SUBSET MintSigns]
         /\ job.todo \subseteq Mints /\ job.mints \subseteq Mints /\ job.free \in BOOLEAN
         /\ job.groups \subseteq Campaigns /\ job.walk \subseteq Campaigns /\ job.step \in 1 .. 7
         /\ job = [pc |-> job.pc, todo |-> job.todo, mints |-> job.mints, free |-> job.free,
                   groups |-> job.groups, walk |-> job.walk, step |-> job.step]
         /\ job.pc \in {"idle", "qualify", "claim", "prepare", "record", "paid", "walk", "note"}
         /\ poll.on \subseteq Campaigns /\ poll.step \in 1 .. 10 /\ poll = [on |-> poll.on, step |-> poll.step]
         /\ prepared \subseteq Campaigns /\ asked \subseteq Campaigns
         /\ \A x \in Campaigns : x.mint \in Mints /\ x.paid \in BOOLEAN
         /\ \A x \in Campaigns : request[x] = [kind |-> request[x].kind, state |-> request[x].state]
BY DEF ReplicationTypeOK, Campaigns

\* The states of a pass, and the one it is in when it turns to the next contract.
Steps == {"idle", "qualify", "claim", "prepare", "record", "paid", "walk", "note"}
Jobs == [pc : Steps, todo : SUBSET Mints, mints : SUBSET Mints, free : BOOLEAN,
         groups : SUBSET Campaigns, walk : SUBSET Campaigns, step : 1 .. 7]
LEMMA NextMintRests ==
  ASSUME NEW todo, todo \subseteq Mints
  PROVE  LET j == NextMint(todo) IN
         j \in Jobs /\ j.pc \in {"idle", "qualify"} /\ j.mints = {} /\ j.groups = {} /\ j.walk = {}
<1>1. NoJob \in Jobs
  BY DEF NoJob, Jobs, Steps
<1>2. CASE todo = {}
  BY <1>1, <1>2 DEF NextMint, NoJob
<1>3. CASE todo # {}
  <2>1. NextMint(todo) = [pc |-> "qualify", todo |-> todo, mints |-> {}, free |-> FALSE, groups |-> {}, walk |-> {}, step |-> 1]
    BY <1>3 DEF NextMint, NoJob
  <2> QED BY <2>1 DEF Jobs, Steps
<1> QED BY <1>2, <1>3

\* A change of some fields of a pass leaves it one.
LEMMA JobChange ==
  ASSUME NEW j \in Jobs, NEW pc \in Steps, NEW todo \in SUBSET Mints, NEW mints \in SUBSET Mints, NEW free \in BOOLEAN,
         NEW groups \in SUBSET Campaigns, NEW walk \in SUBSET Campaigns, NEW step \in 1 .. 7
  PROVE  /\ [j EXCEPT !.pc = pc] \in Jobs
         /\ [j EXCEPT !.pc = pc, !.todo = todo, !.mints = mints, !.free = free] \in Jobs
         /\ [j EXCEPT !.pc = pc, !.groups = groups] \in Jobs
         /\ [j EXCEPT !.pc = pc, !.groups = groups, !.walk = walk, !.step = step] \in Jobs
         /\ [j EXCEPT !.pc = pc, !.walk = walk, !.step = step] \in Jobs
         /\ [j EXCEPT !.step = step] \in Jobs
<1> HIDE DEF Steps, Campaigns
<1>1. [j EXCEPT !.pc = pc] \in Jobs
  BY DEF Jobs
<1>2. [j EXCEPT !.pc = pc, !.todo = todo, !.mints = mints, !.free = free] \in Jobs
  BY DEF Jobs
<1>3. [j EXCEPT !.pc = pc, !.groups = groups] \in Jobs
  BY DEF Jobs
<1>4. [j EXCEPT !.pc = pc, !.groups = groups, !.walk = walk, !.step = step] \in Jobs
  BY DEF Jobs
<1>5. [j EXCEPT !.pc = pc, !.walk = walk, !.step = step] \in Jobs
  BY DEF Jobs
<1>6. [j EXCEPT !.step = step] \in Jobs
  BY DEF Jobs
<1> QED BY <1>1, <1>2, <1>3, <1>4, <1>5, <1>6

\* A step of the pass leaves it a pass.
LEMMA JobKept ==
  ASSUME ReplicationInv,
         PassBegin \/ Qualify \/ ClaimMint \/ Prepare \/ Record \/ TellPaid \/ Walk \/ Ask \/ NoteAsked
  PROVE  job' \in Jobs
<1>1. /\ job \in Jobs /\ job.todo \in SUBSET Mints /\ job.mints \in SUBSET Mints /\ job.groups \in SUBSET Campaigns
      /\ job.walk \in SUBSET Campaigns /\ job.step \in 1 .. 7 /\ job.free \in BOOLEAN
  BY ReplicationFields DEF ReplicationInv, ReplicationTypeOK, Jobs, Steps
<1>2. \A todo \in SUBSET Mints : NextMint(todo) \in Jobs
  BY NextMintRests
<1>3. \A pc \in Steps : [job EXCEPT !.pc = pc] \in Jobs
  BY <1>1, JobChange
<1>4. NextMint(job.todo) \in Jobs
  BY <1>1, <1>2
<1>5. NextGroup \in Jobs
  <2>1. "record" \in Steps /\ {} \in SUBSET Campaigns /\ 1 \in 1 .. 7
    BY DEF Steps
  <2>2. [job EXCEPT !.pc = "record", !.walk = {}, !.step = 1] \in Jobs
    BY <1>1, <2>1, JobChange, ZenonT(40)
  <2> QED BY <1>4, <2>2 DEF NextGroup
<1>6. CASE PassBegin
  <2>1. PICK todo \in SUBSET Mints : job' = [NoJob EXCEPT !.pc = "qualify", !.todo = todo]
    BY <1>6 DEF PassBegin
  <2>2. job' = [pc |-> "qualify", todo |-> todo, mints |-> {}, free |-> FALSE, groups |-> {}, walk |-> {}, step |-> 1]
    BY <2>1 DEF NoJob
  <2> QED BY <2>2 DEF Jobs, Steps
<1>7. CASE Qualify
  <2>1. PICK c \in job.todo :
          \/ job' = NextMint(job.todo \ {c})
          \/ job' = [job EXCEPT !.pc = "claim", !.todo = @ \ {c}, !.mints = {c}, !.free = "free" \in signs[c]]
    BY <1>7 DEF Qualify
  <2>2. job.todo \ {c} \in SUBSET Mints /\ {c} \in SUBSET Mints /\ "claim" \in Steps
    BY <1>1 DEF Steps
  <2>3. \A free \in BOOLEAN : [job EXCEPT !.pc = "claim", !.todo = job.todo \ {c}, !.mints = {c}, !.free = free] \in Jobs
    BY <1>1, <2>2, JobChange
  <2>4. ("free" \in signs[c]) \in BOOLEAN
    OBVIOUS
  <2>5. [job EXCEPT !.pc = "claim", !.todo = job.todo \ {c}, !.mints = {c}, !.free = "free" \in signs[c]] \in Jobs
    BY <2>3, <2>4, ZenonT(30)
  <2> QED BY <1>2, <2>1, <2>2, <2>5
<1>8. CASE ClaimMint
  <2>1. [job EXCEPT !.pc = "prepare"] \in Jobs
    BY <1>3 DEF Steps
  <2> QED BY <1>4, <1>8, <2>1 DEF ClaimMint, GiveUp
<1>9. CASE Prepare
  <2>1. PICK c \in job.mints :
          \/ \E targets \in (SUBSET FleetWallets) \ {{}}, together \in BOOLEAN :
               job' = [job EXCEPT !.pc = "record", !.groups = Groups(c, targets, ~job.free, together)]
          \/ job' = NextMint(job.todo)
    <3>1. PICK c \in job.mints :
            /\ tries' = [tries EXCEPT ![c] = @ + 1]
            /\ \/ \E targets \in (SUBSET FleetWallets) \ {{}}, together \in BOOLEAN :
                    LET groups == Groups(c, targets, ~job.free, together) IN
                    /\ planned' = [planned EXCEPT ![c] = groups]
                    /\ job' = [job EXCEPT !.pc = "record", !.groups = groups]
                    /\ UNCHANGED <<stopped, untold, turns>>
               \/ GiveUp /\ UNCHANGED planned
      BY <1>9, Zenon DEF Prepare
    <3>2. GiveUp => job' = NextMint(job.todo)
      BY DEF GiveUp
    <3>3. CASE GiveUp
      BY <3>2, <3>3
    <3>4. CASE ~GiveUp
      <4>1. PICK targets \in (SUBSET FleetWallets) \ {{}}, together \in BOOLEAN :
              job' = [job EXCEPT !.pc = "record", !.groups = Groups(c, targets, ~job.free, together)]
        BY <3>1, <3>4, Zenon
      <4> QED BY <4>1, Zenon
    <3> QED BY <3>3, <3>4
  <2>2. CASE \E targets \in (SUBSET FleetWallets) \ {{}}, together \in BOOLEAN :
               job' = [job EXCEPT !.pc = "record", !.groups = Groups(c, targets, ~job.free, together)]
    <3>1. PICK targets \in (SUBSET FleetWallets) \ {{}}, together \in BOOLEAN :
               job' = [job EXCEPT !.pc = "record", !.groups = Groups(c, targets, ~job.free, together)]
      BY <2>2
    <3>2. c \in Mints /\ (~job.free) \in BOOLEAN
      BY <1>1
    <3>3. Groups(c, targets, ~job.free, together) \in SUBSET Campaigns
      BY <3>2, GroupsApart
    <3>4. "record" \in Steps
      BY DEF Steps
    <3> QED BY <1>1, <3>1, <3>3, <3>4, JobChange
  <2> QED BY <1>4, <2>1, <2>2
<1>10. CASE Record
  <2>1. \/ \E x \in job.groups :
             job' = [job EXCEPT !.pc = IF x.paid THEN "paid" ELSE "walk", !.groups = @ \ {x}, !.walk = {x}, !.step = 1]
        \/ job' = NextMint(job.todo)
    BY <1>10 DEF Record, GiveUp
  <2>2. ASSUME NEW x \in job.groups,
               job' = [job EXCEPT !.pc = IF x.paid THEN "paid" ELSE "walk", !.groups = @ \ {x}, !.walk = {x}, !.step = 1]
        PROVE  job' \in Jobs
    <3>1. job.groups \ {x} \in SUBSET Campaigns /\ {x} \in SUBSET Campaigns /\ 1 \in 1 .. 7
          /\ (IF x.paid THEN "paid" ELSE "walk") \in Steps
      BY <1>1 DEF Steps
    <3>2. \A pc \in Steps : [job EXCEPT !.pc = pc, !.groups = job.groups \ {x}, !.walk = {x}, !.step = 1] \in Jobs
      BY <1>1, <3>1, JobChange
    <3> HIDE DEF Steps, Jobs
    <3> QED BY <2>2, <3>1, <3>2, ZenonT(30)
  <2> QED BY <1>4, <2>1, <2>2
<1>11. CASE TellPaid \/ NoteAsked
  BY <1>4, <1>5, <1>11 DEF TellPaid, NoteAsked, GiveUp
<1>12. CASE Walk
  <2>1. job.step # 7
    BY <1>12 DEF Walk, JobPath
  <2>2. job.step + 1 \in 1 .. 7
    BY <1>1, <2>1
  <2>3. [job EXCEPT !.step = job.step + 1] \in Jobs
    BY <1>1, <2>2 DEF Jobs
  <2>4. job' = [job EXCEPT !.step = job.step + 1] \/ job' = NextMint(job.todo)
    BY <1>12, ZenonT(30) DEF Walk, GiveUp
  <2> QED BY <1>4, <2>3, <2>4
<1>13. CASE Ask
  <2>1. [job EXCEPT !.pc = "note"] \in Jobs
    BY <1>3 DEF Steps
  <2> QED BY <1>4, <1>13, <2>1 DEF Ask, GiveUp
<1> QED BY <1>6, <1>7, <1>8, <1>9, <1>10, <1>11, <1>12, <1>13

\* The types, of the steps of the pass.
LEMMA JobTyped ==
  ASSUME ReplicationInv,
         PassBegin \/ Qualify \/ ClaimMint \/ Prepare \/ Record \/ TellPaid \/ Walk \/ Ask \/ NoteAsked
  PROVE  ReplicationTypeOK'
<1>1. /\ ReplicationTypeOK /\ JobFits
      /\ job.todo \subseteq Mints /\ job.mints \subseteq Mints /\ job.groups \subseteq Campaigns /\ job.walk \subseteq Campaigns
      /\ job.free \in BOOLEAN
  BY ReplicationFields DEF ReplicationInv
<1>2. job' \in Jobs
  BY JobKept
<1>3. UNCHANGED <<home, signs, poll, lately>>
  BY DEF PassBegin, Qualify, ClaimMint, Prepare, Record, TellPaid, Walk, Ask, NoteAsked, JobStays
<1>4. stopped' \subseteq Mints /\ untold' \subseteq Mints /\ turns' \in 0 .. MaxTurns
  <2>1. stopped \subseteq Mints /\ untold \subseteq Mints /\ turns \in 0 .. MaxTurns
    BY <1>1 DEF ReplicationTypeOK
  <2>2. GiveUp \/ UNCHANGED <<stopped, untold, turns>>
    BY DEF PassBegin, Qualify, ClaimMint, Prepare, Record, TellPaid, Walk, Ask, NoteAsked
  <2> QED BY <1>1, <2>1, <2>2, ReplicationAssumption DEF GiveUp, Turn
<1>5. claims' \subseteq Mints
  <2>1. claims' = claims \/ claims' = claims \union job.mints
    BY DEF PassBegin, Qualify, ClaimMint, Prepare, Record, TellPaid, Walk, Ask, NoteAsked, JobStays
  <2> QED BY <1>1, <2>1 DEF ReplicationTypeOK
<1>6. announced' \subseteq Campaigns
  <2>1. announced' = announced \/ announced' = announced \union job.walk
    BY DEF PassBegin, Qualify, ClaimMint, Prepare, Record, TellPaid, Walk, Ask, NoteAsked, JobStays
  <2> QED BY <1>1, <2>1 DEF ReplicationTypeOK
<1>7. planned' \in [Mints -> SUBSET Campaigns] /\ tries' \in [Mints -> Nat]
  <2>1. planned \in [Mints -> SUBSET Campaigns] /\ tries \in [Mints -> Nat]
    BY <1>1 DEF ReplicationTypeOK
  <2>2. CASE Prepare
    <3>1. PICK c \in job.mints :
            /\ tries' = [tries EXCEPT ![c] = @ + 1]
            /\ \/ \E targets \in (SUBSET FleetWallets) \ {{}}, together \in BOOLEAN :
                    planned' = [planned EXCEPT ![c] = Groups(c, targets, ~job.free, together)]
               \/ planned' = planned
      BY <2>2, ZenonT(40) DEF Prepare
    <3>2. c \in Mints /\ (~job.free) \in BOOLEAN
      BY <1>1
    <3>3. tries' \in [Mints -> Nat]
      BY <2>1, <3>1, <3>2
    <3>4. \A targets \in (SUBSET FleetWallets) \ {{}}, together \in BOOLEAN : Groups(c, targets, ~job.free, together) \in SUBSET Campaigns
      BY <3>2, GroupsApart
    <3>5. planned' \in [Mints -> SUBSET Campaigns]
      BY <2>1, <3>1, <3>4
    <3> QED BY <3>3, <3>5
  <2>3. CASE ~Prepare
    BY <2>1, <2>3 DEF PassBegin, Qualify, ClaimMint, Record, TellPaid, Walk, Ask, NoteAsked
  <2> QED BY <2>2, <2>3
<1>8. prepared' \subseteq Campaigns /\ since' \in [Campaigns -> SUBSET ToAsk]
  <2>1. prepared \subseteq Campaigns /\ since \in [Campaigns -> SUBSET ToAsk]
    BY <1>1 DEF ReplicationTypeOK
  <2>2. \/ UNCHANGED <<prepared, since>>
        \/ \E x \in job.groups : prepared' = prepared \union {x} /\ since' = [since EXCEPT ![x] = Holding(x)]
    BY DEF PassBegin, Qualify, ClaimMint, Prepare, Record, TellPaid, Walk, Ask, NoteAsked, JobStays
  <2>3. \A x \in job.groups : x \in Campaigns /\ Holding(x) \subseteq ToAsk
    BY <1>1, HoldingTyped DEF ReplicationTypeOK
  <2> QED BY <2>1, <2>2, <2>3
<1>9. /\ asked' \subseteq Campaigns
      /\ request' \in [Campaigns -> [kind : {"none", "attended", "schedule", "automation"},
                                     state : {"waiting", "started", "armed", "running", "ended"}]]
  <2>1. \/ UNCHANGED <<asked, request>>
        \/ \E x \in job.walk : /\ asked' = asked \union {x}
                               /\ request' = [request EXCEPT ![x] = [kind |-> "automation", state |-> "waiting"]]
    BY DEF PassBegin, Qualify, ClaimMint, Prepare, Record, TellPaid, Walk, Ask, NoteAsked, JobStays
  <2> QED BY <1>1, <2>1 DEF ReplicationTypeOK
<1> HIDE DEF Campaigns
<1> QED BY <1>1, <1>2, <1>3, <1>4, <1>5, <1>6, <1>7, <1>8, <1>9 DEF ReplicationTypeOK, Jobs, Steps

\* A pass that turns to the next contract, or stops, has nothing in hand.
LEMMA RestFits ==
  ASSUME ReplicationInv, NEW todo, todo \subseteq Mints, job' = NextMint(todo),
         \A c \in todo : c \notin claims'
  PROVE  JobFits' /\ job'.pc \in {"idle", "qualify"} /\ job'.mints = {} /\ job'.walk = {} /\ job'.pc # "walk"
<1>1. /\ job'.pc \in {"idle", "qualify"} /\ job'.mints = {} /\ job'.groups = {} /\ job'.walk = {}
  BY NextMintRests
<1>2. job'.todo = {} \/ job'.todo = todo
  BY DEF NextMint, NoJob
<1> QED BY <1>1, <1>2 DEF JobFits

\* Giving a contract up answers for it.
LEMMA GiveUpAnswers ==
  ASSUME ReplicationInv, GiveUp, UNCHANGED <<claims, planned, announced, asked>>
  PROVE  ClaimsAreAnswered' /\ JobFits' /\ job'.pc # "walk"
<1>1. /\ job' = NextMint(job.todo) /\ job.todo \subseteq Mints
      /\ stopped' \union untold' = stopped \union untold \union job.mints
  BY ReplicationFields DEF GiveUp, ReplicationInv
<1>2. \A c \in job.todo : c \notin claims'
  BY DEF ReplicationInv, JobFits
<1>3. JobFits' /\ job'.pc # "walk"
  BY <1>1, <1>2, RestFits
<1>4. ClaimsAreAnswered'
  BY <1>1 DEF ReplicationInv, ClaimsAreAnswered
<1> QED BY <1>3, <1>4

\* Outside the walk the requests and what holds matter only to the processor.
LEMMA WalkRests ==
  ASSUME WalkSaw, UNCHANGED <<home, signs, asked, prepared, since>>, job'.pc # "walk"
  PROVE  WalkSaw'
BY DEF WalkSaw, Holding

LEMMA PollKept ==
  ASSUME PollSaw, UNCHANGED <<home, signs, poll, request, lately>>
  PROVE  PollSaw'
BY DEF PollSaw, Holding

\* The invariant of what the pass's first steps leave alone.
LEMMA PassBeginKeeps ==
  ASSUME ReplicationInv, PassBegin PROVE ReplicationInv'
<1>1. PICK todo \in SUBSET {c \in Mints \ claims : "score" \in signs[c]} :
        job.pc = "idle" /\ todo # {} /\ job' = [NoJob EXCEPT !.pc = "qualify", !.todo = todo]
  BY DEF PassBegin
<1>2. UNCHANGED <<home, signs, request, asked, poll, since, lately, claims, prepared, announced, stopped, planned, tries, untold, turns>>
  BY DEF PassBegin, JobStays
<1>3. job' = NextMint(todo) /\ todo \subseteq Mints /\ \A c \in todo : c \notin claims'
  BY <1>1, <1>2 DEF NextMint
<1>4. JobFits' /\ job'.pc # "walk"
  BY <1>3, RestFits
<1>5. ReplicationTypeOK' /\ WalkSaw' /\ PollSaw'
  BY <1>2, <1>4, JobTyped, WalkRests, PollKept DEF ReplicationInv
<1>6. PlansFit' /\ UnattendedIsFree' /\ AllowedWhenItMatters'
  BY <1>2 DEF ReplicationInv, PlansFit, UnattendedIsFree, AllowedWhenItMatters
<1>7. ClaimsAreAnswered'
  BY <1>1, <1>2 DEF ReplicationInv, ClaimsAreAnswered, JobFits
<1> QED BY <1>4, <1>5, <1>6, <1>7 DEF ReplicationInv

LEMMA QualifyKeeps ==
  ASSUME ReplicationInv, Qualify PROVE ReplicationInv'
<1>1. PICK c \in job.todo :
        \/ job' = NextMint(job.todo \ {c})
        \/ job' = [job EXCEPT !.pc = "claim", !.todo = @ \ {c}, !.mints = {c}, !.free = "free" \in signs[c]]
  BY DEF Qualify
<1>2. UNCHANGED <<home, signs, request, asked, poll, since, lately, claims, prepared, announced, stopped, planned, tries, untold, turns>>
  BY DEF Qualify, JobStays
<1>3. job.pc = "qualify" /\ job.mints = {} /\ job.groups = {} /\ job.walk = {} /\ job.todo \subseteq Mints
      /\ \A d \in job.todo : d \notin claims
  BY ReplicationFields DEF Qualify, ReplicationInv, JobFits
<1>4. JobFits' /\ job'.pc # "walk"
  <2>1. CASE job' = NextMint(job.todo \ {c})
    BY <1>2, <1>3, <2>1, RestFits
  <2>2. CASE job' = [job EXCEPT !.pc = "claim", !.todo = @ \ {c}, !.mints = {c}, !.free = "free" \in signs[c]]
    <3>1. /\ job'.pc = "claim" /\ job'.todo = job.todo \ {c} /\ job'.mints = {c}
          /\ job'.groups = job.groups /\ job'.walk = job.walk
      BY <2>2, ReplicationFields DEF ReplicationInv
    <3> QED BY <1>2, <1>3, <3>1 DEF JobFits
  <2> QED BY <1>1, <2>1, <2>2
<1>5. ReplicationTypeOK' /\ WalkSaw' /\ PollSaw'
  BY <1>2, <1>4, JobTyped, WalkRests, PollKept DEF ReplicationInv
<1>6. PlansFit' /\ UnattendedIsFree' /\ AllowedWhenItMatters'
  BY <1>2 DEF ReplicationInv, PlansFit, UnattendedIsFree, AllowedWhenItMatters
<1>7. ClaimsAreAnswered'
  BY <1>2, <1>3 DEF ReplicationInv, ClaimsAreAnswered
<1> QED BY <1>4, <1>5, <1>6, <1>7 DEF ReplicationInv

LEMMA ClaimKeeps ==
  ASSUME ReplicationInv, ClaimMint PROVE ReplicationInv'
<1>1. /\ job.pc = "claim" /\ job.groups = {} /\ job.walk = {} /\ job.todo \subseteq Mints
      /\ \A d \in job.todo : d \notin claims /\ d \notin job.mints
      /\ \A c \in job.mints : c \in Mints /\ c \notin claims /\ tries[c] \in Nat
      /\ \E c \in Mints : job.mints = {c}
  BY ReplicationFields DEF ClaimMint, ReplicationInv, JobFits, ReplicationTypeOK
<1>2. UNCHANGED <<home, signs, request, asked, poll, since, lately, prepared, announced, planned, tries>>
  BY DEF ClaimMint, JobStays
<1>3. ASSUME claims' = claims \union job.mints, job' = [job EXCEPT !.pc = "prepare"], UNCHANGED <<stopped, untold, turns>>
      PROVE  JobFits' /\ ClaimsAreAnswered' /\ job'.pc # "walk"
  <2>1. /\ job'.pc = "prepare" /\ job'.todo = job.todo /\ job'.mints = job.mints
        /\ job'.groups = job.groups /\ job'.walk = job.walk
    BY <1>3, ReplicationFields DEF ReplicationInv
  <2>2. \A c \in job.mints : tries[c] = 0
    BY <1>1 DEF ReplicationInv, PlansFit
  <2>3. JobFits'
    BY <1>1, <1>2, <1>3, <2>1, <2>2 DEF JobFits
  <2>4. ClaimsAreAnswered'
    BY <1>2, <1>3, <2>1 DEF ReplicationInv, ClaimsAreAnswered
  <2> QED BY <2>1, <2>3, <2>4
<1>4. ASSUME claims' = claims, job' = NextMint(job.todo), UNCHANGED <<stopped, untold, turns>>
      PROVE  JobFits' /\ ClaimsAreAnswered' /\ job'.pc # "walk"
  <2>1. JobFits' /\ job'.pc # "walk"
    BY <1>1, <1>4, RestFits
  <2>2. ClaimsAreAnswered'
    BY <1>1, <1>2, <1>4 DEF ReplicationInv, ClaimsAreAnswered
  <2> QED BY <2>1, <2>2
<1>5. ASSUME GiveUp, claims' = claims
      PROVE  JobFits' /\ ClaimsAreAnswered' /\ job'.pc # "walk"
  BY <1>2, <1>5, GiveUpAnswers
<1>6. JobFits' /\ ClaimsAreAnswered' /\ job'.pc # "walk"
  <2>1. ~(job.mints \subseteq claims)
    BY <1>1
  <2> QED BY <1>3, <1>4, <1>5, <2>1 DEF ClaimMint
<1>7. ReplicationTypeOK' /\ WalkSaw' /\ PollSaw'
  BY <1>2, <1>6, JobTyped, WalkRests, PollKept DEF ReplicationInv
<1>8. claims \subseteq claims'
  BY DEF ClaimMint
<1>9. PlansFit' /\ UnattendedIsFree' /\ AllowedWhenItMatters'
  BY <1>2, <1>8 DEF ReplicationInv, PlansFit, UnattendedIsFree, AllowedWhenItMatters
<1> QED BY <1>6, <1>7, <1>9 DEF ReplicationInv

LEMMA PrepareKeeps ==
  ASSUME ReplicationInv, Prepare PROVE ReplicationInv'
<1>1. PICK c \in job.mints :
        /\ tries' = [tries EXCEPT ![c] = @ + 1]
        /\ \/ \E targets \in (SUBSET FleetWallets) \ {{}}, together \in BOOLEAN :
                /\ planned' = [planned EXCEPT ![c] = Groups(c, targets, ~job.free, together)]
                /\ job' = [job EXCEPT !.pc = "record", !.groups = Groups(c, targets, ~job.free, together)]
                /\ UNCHANGED <<stopped, untold, turns>>
           \/ GiveUp /\ planned' = planned
  BY ZenonT(30) DEF Prepare
<1>2. /\ job.pc = "prepare" /\ job.walk = {} /\ job.todo \subseteq Mints /\ job.free \in BOOLEAN
      /\ \A d \in job.todo : d \notin claims /\ d \notin job.mints
      /\ job.mints = {c} /\ c \in Mints /\ c \in claims /\ tries[c] = 0 /\ planned[c] = {}
      /\ tries \in [Mints -> Nat] /\ planned \in [Mints -> SUBSET Campaigns]
      /\ \A x \in prepared : x.mint \in Mints /\ x.mint # c
  <2>1. /\ job.todo \subseteq Mints /\ job.free \in BOOLEAN /\ job.mints \subseteq Mints
        /\ tries \in [Mints -> Nat] /\ planned \in [Mints -> SUBSET Campaigns]
        /\ \A x \in prepared : x.mint \in Mints
    BY ReplicationFields DEF ReplicationInv, ReplicationTypeOK
  <2>2. /\ job.pc = "prepare" /\ job.walk = {}
        /\ \A d \in job.todo : d \notin claims /\ d \notin job.mints
        /\ job.mints = {c} /\ c \in Mints /\ c \in claims /\ tries[c] = 0
    BY DEF Prepare, ReplicationInv, JobFits
  <2>3. planned[c] = {} /\ \A x \in prepared : x \in planned[x.mint]
    BY <2>2 DEF ReplicationInv, PlansFit
  <2>4. \A x \in prepared : x.mint # c
    BY <2>3
  <2> QED BY <2>1, <2>2, <2>3, <2>4
<1>3. UNCHANGED <<home, signs, request, asked, poll, since, lately, claims, prepared, announced>>
  BY DEF Prepare, JobStays
<1>4. tries'[c] = 1 /\ \A d \in Mints : d # c => tries'[d] = tries[d]
  <2>1. tries' = [tries EXCEPT ![c] = tries[c] + 1]
    BY <1>1
  <2> QED BY <1>2, <2>1
<1>5. ASSUME NEW targets \in (SUBSET FleetWallets) \ {{}}, NEW together \in BOOLEAN,
             planned' = [planned EXCEPT ![c] = Groups(c, targets, ~job.free, together)],
             job' = [job EXCEPT !.pc = "record", !.groups = Groups(c, targets, ~job.free, together)],
             UNCHANGED <<stopped, untold>>
      PROVE  PlansFit' /\ JobFits' /\ ClaimsAreAnswered' /\ job'.pc # "walk"
  <2> DEFINE groups == Groups(c, targets, ~job.free, together)
  <2>1. /\ groups \subseteq Campaigns /\ groups # {}
        /\ \A x \in groups : x.mint = c
        /\ \A x, y \in groups : x # y => x.wallets \intersect y.wallets = {}
    <3>1. c \in Mints /\ (~job.free) \in BOOLEAN
      BY <1>2
    <3>2. ASSUME NEW priced \in BOOLEAN
          PROVE  /\ Groups(c, targets, priced, together) \subseteq Campaigns /\ Groups(c, targets, priced, together) # {}
                 /\ \A x \in Groups(c, targets, priced, together) : x.mint = c
                 /\ \A x, y \in Groups(c, targets, priced, together) : x # y => x.wallets \intersect y.wallets = {}
      <4>1. /\ Groups(c, targets, priced, together) \subseteq Campaigns /\ Groups(c, targets, priced, together) # {}
            /\ \A x \in Groups(c, targets, priced, together) : x.mint = c
        BY <3>1, GroupsApart, ZenonT(40)
      <4>2. \A x, y \in Groups(c, targets, priced, together) : x # y => x.wallets \intersect y.wallets = {}
        BY <3>1, GroupsApart
      <4> QED BY <4>1, <4>2
    <3> QED BY <3>1, <3>2, ZenonT(30)
  <2>2. /\ job'.pc = "record" /\ job'.todo = job.todo /\ job'.mints = {c} /\ job'.groups = groups /\ job'.walk = {}
    BY <1>2, <1>5, ReplicationFields DEF ReplicationInv
  <2>3. planned'[c] = groups /\ \A d \in Mints : d # c => planned'[d] = planned[d]
    BY <1>2, <1>5
  <2> HIDE DEF groups
  <2>4. PlansFit'
    <3>1. PlansFit /\ prepared' = prepared /\ claims' = claims
      BY <1>3 DEF ReplicationInv
    <3>2. \A d \in Mints : tries'[d] <= 1 /\ (tries'[d] = 0 => planned'[d] = {}) /\ (tries'[d] = 1 => d \in claims)
      BY <1>2, <1>4, <2>3, <3>1 DEF PlansFit
    <3>3. \A d \in Mints : /\ \A x \in planned'[d] : x.mint = d
                           /\ \A x, y \in planned'[d] : x # y => x.wallets \intersect y.wallets = {}
      <4>1. TAKE d \in Mints
      <4>2. CASE d = c
        BY <2>1, <2>3, <4>2
      <4>3. CASE d # c
        BY <2>3, <3>1, <4>3 DEF PlansFit
      <4> QED BY <4>2, <4>3
    <3>4. \A x \in prepared : x \in planned'[x.mint]
      BY <1>2, <2>3, <3>1 DEF PlansFit
    <3> QED BY <3>1, <3>2, <3>3, <3>4 DEF PlansFit
  <2>5. JobFits'
    BY <1>2, <1>3, <2>1, <2>2, <2>3 DEF JobFits
  <2>6. claims \subseteq Mints
    BY DEF ReplicationInv, ReplicationTypeOK
  <2>7. ClaimsAreAnswered'
    BY <1>2, <1>3, <1>5, <2>2, <2>3, <2>6 DEF ReplicationInv, ClaimsAreAnswered
  <2> QED BY <2>2, <2>4, <2>5, <2>7
<1>6. ASSUME GiveUp, planned' = planned
      PROVE  PlansFit' /\ JobFits' /\ ClaimsAreAnswered' /\ job'.pc # "walk"
  <2>1. JobFits' /\ ClaimsAreAnswered' /\ job'.pc # "walk"
    BY <1>3, <1>6, GiveUpAnswers
  <2>2. PlansFit'
    BY <1>2, <1>3, <1>4, <1>6 DEF ReplicationInv, PlansFit
  <2> QED BY <2>1, <2>2
<1>7. PlansFit' /\ JobFits' /\ ClaimsAreAnswered' /\ job'.pc # "walk"
  BY <1>1, <1>5, <1>6
<1>8. ReplicationTypeOK' /\ WalkSaw' /\ PollSaw'
  BY <1>3, <1>7, JobTyped, WalkRests, PollKept DEF ReplicationInv
<1>9. UnattendedIsFree' /\ AllowedWhenItMatters'
  BY <1>3 DEF ReplicationInv, UnattendedIsFree, AllowedWhenItMatters
<1> QED BY <1>7, <1>8, <1>9 DEF ReplicationInv

LEMMA RecordKeeps ==
  ASSUME ReplicationInv, Record PROVE ReplicationInv'
<1>1. UNCHANGED <<home, signs, request, asked, poll, lately, claims, announced, planned, tries>>
  BY DEF Record
<1>2. CASE GiveUp /\ UNCHANGED <<prepared, since>>
  <2>1. JobFits' /\ ClaimsAreAnswered' /\ job'.pc # "walk"
    BY <1>1, <1>2, GiveUpAnswers
  <2>2. ReplicationTypeOK' /\ WalkSaw' /\ PollSaw'
    BY <1>1, <1>2, <2>1, JobTyped, WalkRests, PollKept DEF ReplicationInv
  <2>3. PlansFit' /\ UnattendedIsFree' /\ AllowedWhenItMatters'
    BY <1>1, <1>2 DEF ReplicationInv, PlansFit, UnattendedIsFree, AllowedWhenItMatters
  <2> QED BY <2>1, <2>2, <2>3 DEF ReplicationInv
<1>3. ASSUME NEW x \in job.groups, prepared' = prepared \union {x}, since' = [since EXCEPT ![x] = Holding(x)],
             job' = [job EXCEPT !.pc = IF x.paid THEN "paid" ELSE "walk", !.groups = @ \ {x}, !.walk = {x}, !.step = 1],
             UNCHANGED <<stopped, untold, turns>>
      PROVE  ReplicationInv'
  <2>1. /\ job.pc = "record" /\ job.walk = {} /\ job.todo \subseteq Mints /\ job.groups \subseteq Campaigns
        /\ \A y \in job.groups : y \notin prepared /\ y.mint \in job.mints /\ y \in planned[y.mint]
        /\ \A c \in job.mints : planned[c] # {} /\ planned[c] \subseteq announced \union asked \union job.groups \union job.walk
        /\ \E c \in Mints : job.mints = {c}
        /\ \A d \in job.todo : d \notin claims /\ d \notin job.mints
    BY ReplicationFields DEF Record, ReplicationInv, JobFits
  <2>2. /\ job'.pc = IF x.paid THEN "paid" ELSE "walk"
        /\ job'.todo = job.todo /\ job'.mints = job.mints /\ job'.groups = job.groups \ {x}
        /\ job'.walk = {x} /\ job'.step = 1
    BY <1>3, ReplicationFields DEF ReplicationInv
  <2>3. x \in Campaigns /\ x \notin prepared /\ x \in planned[x.mint] /\ x \in prepared'
    BY <1>3, <2>1
  <2>4. /\ since'[x] = Holding(x) /\ \A y \in Campaigns : y # x => since'[y] = since[y]
        /\ prepared \subseteq Campaigns /\ asked \subseteq prepared
    BY <1>3, <2>3 DEF ReplicationInv, ReplicationTypeOK, WalkSaw
  <2>5. job'.pc \in {"paid", "walk"} /\ (job'.pc = "walk" => ~x.paid)
    BY <2>2
  <2>6. JobFits'
    BY <1>1, <1>3, <2>1, <2>2, <2>3, <2>5 DEF JobFits
  <2>7. ClaimsAreAnswered'
    BY <1>1, <1>3, <2>2 DEF ReplicationInv, ClaimsAreAnswered
  <2>8. PlansFit'
    BY <1>1, <1>3, <2>3 DEF ReplicationInv, PlansFit
  <2>9. WalkSaw'
    <3>1. \A y \in prepared' : Holding(y)' = Holding(y)
      BY <1>1 DEF Holding
    <3> QED BY <1>1, <1>3, <2>2, <2>4, <3>1 DEF ReplicationInv, WalkSaw
  <2>10. PollSaw'
    BY <1>1, PollKept DEF ReplicationInv
  <2>11. UnattendedIsFree' /\ AllowedWhenItMatters'
    <3>1. \A y \in asked : y \in Campaigns /\ y # x
      BY <2>3, <2>4
    <3> QED BY <1>1, <1>3, <2>4, <3>1 DEF ReplicationInv, UnattendedIsFree, AllowedWhenItMatters
  <2> QED BY <2>6, <2>7, <2>8, <2>9, <2>10, <2>11, JobTyped DEF ReplicationInv
<1> QED BY <1>2, <1>3 DEF Record

\* The next group of the contract, or the next contract when every group is done.
LEMMA NextGroupFits ==
  ASSUME ReplicationInv, job' = NextGroup, UNCHANGED <<claims, planned, asked, prepared, stopped, untold>>,
         announced \subseteq announced', job.pc \in {"paid", "walk", "note"}, job.walk \subseteq announced' \union asked
  PROVE  JobFits' /\ ClaimsAreAnswered' /\ job'.pc # "walk"
<1>1. /\ job.todo \subseteq Mints
      /\ \A y \in job.groups : y \notin prepared /\ y.mint \in job.mints /\ y \in planned[y.mint]
      /\ \A c \in job.mints : planned[c] # {} /\ planned[c] \subseteq announced \union asked \union job.groups \union job.walk
      /\ \E c \in Mints : job.mints = {c}
      /\ \A d \in job.todo : d \notin claims /\ d \notin job.mints
  BY ReplicationFields DEF ReplicationInv, JobFits
<1>2. CASE job.groups = {}
  <2>1. job' = NextMint(job.todo)
    BY <1>2 DEF NextGroup
  <2>2. JobFits' /\ job'.pc # "walk"
    BY <1>1, <2>1, RestFits
  <2>3. \A c \in job.mints : planned[c] # {} /\ planned[c] \subseteq announced' \union asked
    BY <1>1, <1>2
  <2>4. ClaimsAreAnswered'
    BY <2>3 DEF ReplicationInv, ClaimsAreAnswered
  <2> QED BY <2>2, <2>4
<1>3. CASE job.groups # {}
  <2>1. /\ job'.pc = "record" /\ job'.todo = job.todo /\ job'.mints = job.mints /\ job'.groups = job.groups
        /\ job'.walk = {}
    BY <1>3, ReplicationFields DEF NextGroup, ReplicationInv
  <2>2. JobFits'
    BY <1>1, <1>3, <2>1 DEF JobFits
  <2>3. ClaimsAreAnswered'
    BY <2>1 DEF ReplicationInv, ClaimsAreAnswered
  <2> QED BY <2>1, <2>2, <2>3
<1> QED BY <1>2, <1>3

LEMMA ToldKeeps ==
  ASSUME ReplicationInv, TellPaid \/ NoteAsked PROVE ReplicationInv'
<1>1. UNCHANGED <<home, signs, request, asked, poll, since, lately, claims, prepared, planned, tries>> /\ announced \subseteq announced'
  BY DEF TellPaid, NoteAsked, JobStays
<1>2. JobFits' /\ ClaimsAreAnswered' /\ job'.pc # "walk"
  <2>1. CASE GiveUp /\ announced' = announced
    BY <1>1, <2>1, GiveUpAnswers
  <2>2. CASE TellPaid /\ announced' = announced \union job.walk /\ job' = NextGroup /\ UNCHANGED <<stopped, untold, turns>>
    <3>1. job.pc = "paid" /\ job.walk \subseteq announced' \union asked
      BY <2>2 DEF TellPaid
    <3> QED BY <1>1, <2>2, <3>1, NextGroupFits
  <2>3. CASE NoteAsked /\ announced' = announced /\ job' = NextGroup /\ UNCHANGED <<stopped, untold, turns>>
    <3>1. job.pc = "note" /\ job.walk \subseteq announced' \union asked
      BY <2>3 DEF NoteAsked, ReplicationInv, JobFits
    <3> QED BY <1>1, <2>3, <3>1, NextGroupFits
  <2> QED BY <2>1, <2>2, <2>3 DEF TellPaid, NoteAsked
<1>3. ReplicationTypeOK' /\ WalkSaw' /\ PollSaw'
  BY <1>1, <1>2, JobTyped, WalkRests, PollKept DEF ReplicationInv
<1>4. PlansFit' /\ UnattendedIsFree' /\ AllowedWhenItMatters'
  BY <1>1 DEF ReplicationInv, PlansFit, UnattendedIsFree, AllowedWhenItMatters
<1> QED BY <1>2, <1>3, <1>4 DEF ReplicationInv

\* The checks of a walk, in their order.
LEMMA WalkOrder ==
  ASSUME job.step \in 1 .. 7
  PROVE  /\ JobPath[job.step] = "approve" <=> job.step = 7
         /\ JobPath[job.step] = "fire" <=> job.step = 6
         /\ job.step = 1 => JobPath[job.step] = "ready"
         /\ job.step = 2 => JobPath[job.step] = "authority"
         /\ job.step = 3 => JobPath[job.step] = "source"
         /\ job.step = 4 => JobPath[job.step] = "gate"
BY DEF JobPath

\* What a check lets pass holds of the contract or of the host.
LEMMA AllowsHolds ==
  ASSUME NEW x \in Campaigns
  PROVE  /\ Allows("ready", x) => "ready" \in Holding(x)
         /\ Allows("authority", x) => {"clear", "score"} \subseteq Holding(x)
         /\ Allows("source", x) => {"mint", "free"} \subseteq Holding(x)
         /\ Allows("gate", x) => "caps" \in Holding(x)
BY DEF Allows, Holding

LEMMA WalkKeeps ==
  ASSUME ReplicationInv, Walk PROVE ReplicationInv'
<1>1. UNCHANGED <<home, signs, request, asked, poll, since, lately, claims, prepared, announced, planned, tries>>
  BY DEF Walk, JobStays
<1>2. job.pc = "walk" /\ job.step \in 1 .. 7 /\ job.step # 7
  <2>1. job.step \in 1 .. 7
    BY ReplicationFields DEF ReplicationInv
  <2> QED BY <2>1, WalkOrder DEF Walk
<1>3. CASE GiveUp
  <2>1. JobFits' /\ ClaimsAreAnswered' /\ job'.pc # "walk"
    BY <1>1, <1>3, GiveUpAnswers
  <2>2. WalkSaw'
    BY <1>1, <2>1, WalkRests DEF ReplicationInv
  <2> QED BY <1>1, <2>1, <2>2, JobTyped, PollKept
        DEF ReplicationInv, PlansFit, UnattendedIsFree, AllowedWhenItMatters
<1>4. ASSUME \A x \in job.walk : /\ Allows(JobPath[job.step], x)
                                 /\ JobPath[job.step] = "fire" => "clear" \in home /\ ~Busy(x),
             job' = [job EXCEPT !.step = job.step + 1], UNCHANGED <<stopped, untold, turns>>
      PROVE  ReplicationInv'
  <2>1. /\ job'.pc = "walk" /\ job'.todo = job.todo /\ job'.mints = job.mints
        /\ job'.groups = job.groups /\ job'.walk = job.walk /\ job'.step = job.step + 1
    BY <1>2, <1>4, ReplicationFields DEF ReplicationInv
  <2>2. JobFits'
    BY <1>1, <1>2, <2>1 DEF ReplicationInv, JobFits
  <2>3. ClaimsAreAnswered'
    BY <1>1, <1>4, <2>1 DEF ReplicationInv, ClaimsAreAnswered
  <2>4. WalkSaw'
    <3>1. /\ asked' \subseteq prepared' /\ \A x \in prepared' : Holding(x)' \subseteq since'[x]
      BY <1>1 DEF ReplicationInv, WalkSaw, Holding
    <3>2. ASSUME NEW x \in job.walk
          PROVE  /\ job.step + 1 > 1 => "ready" \in since[x]
                 /\ job.step + 1 > 2 => {"clear", "score"} \subseteq since[x]
                 /\ job.step + 1 > 3 => {"mint", "free"} \subseteq since[x]
                 /\ job.step + 1 > 4 => "caps" \in since[x]
                 /\ job.step + 1 = 7 => request[x].state = "ended"
      <4>1. /\ job.step > 1 => "ready" \in since[x]
            /\ job.step > 2 => {"clear", "score"} \subseteq since[x]
            /\ job.step > 3 => {"mint", "free"} \subseteq since[x]
            /\ job.step > 4 => "caps" \in since[x]
        BY <1>2 DEF ReplicationInv, WalkSaw
      <4>2. x \in prepared /\ x \in Campaigns /\ Holding(x) \subseteq since[x]
        BY <1>2, ReplicationFields DEF ReplicationInv, JobFits, WalkSaw
      <4>3. /\ job.step = 1 => "ready" \in since[x]
            /\ job.step = 2 => {"clear", "score"} \subseteq since[x]
            /\ job.step = 3 => {"mint", "free"} \subseteq since[x]
            /\ job.step = 4 => "caps" \in since[x]
        BY <1>2, <1>4, <4>2, WalkOrder, AllowsHolds
      <4>4. job.step = 6 => request[x].state = "ended"
        BY <1>2, <1>4, WalkOrder DEF Busy
      <4> QED BY <1>2, <4>1, <4>3, <4>4
    <3> QED BY <1>1, <2>1, <3>1, <3>2 DEF WalkSaw
  <2> QED BY <1>1, <2>2, <2>3, <2>4, JobTyped, PollKept
        DEF ReplicationInv, PlansFit, UnattendedIsFree, AllowedWhenItMatters
<1> QED BY <1>3, <1>4 DEF Walk

\* A request that had ended is made again: the processor is at none of it.
LEMMA AskedAnew ==
  ASSUME ReplicationInv, NEW x \in Campaigns, NEW kind, request[x].state = "ended",
         request' = [request EXCEPT ![x] = [kind |-> kind, state |-> "waiting"]],
         UNCHANGED <<home, signs, poll, lately>>
  PROVE  /\ PollSaw'
         /\ \A y \in Campaigns : request'[y].state = "running" =>
              y # x /\ request'[y] = request[y] /\ lately'[y] = lately[y]
<1>1. /\ request'[x].kind = kind /\ request'[x].state = "waiting"
      /\ \A y \in Campaigns : y # x => request'[y] = request[y]
  BY DEF ReplicationInv, ReplicationTypeOK
<1>2. poll.on \subseteq Campaigns /\ poll.step \in 1 .. 10
  BY ReplicationFields DEF ReplicationInv
<1>3. x \notin poll.on
  BY <1>2 DEF ReplicationInv, PollSaw
<1>4. PollSaw'
  BY <1>1, <1>2, <1>3 DEF ReplicationInv, PollSaw, Holding
<1> QED BY <1>1, <1>4

LEMMA AskKeeps ==
  ASSUME ReplicationInv, Ask PROVE ReplicationInv'
<1>1. UNCHANGED <<home, signs, poll, since, lately, claims, prepared, announced, planned, tries>>
  BY DEF Ask
<1>2. job.pc = "walk" /\ job.step = 7
  <2>1. job.step \in 1 .. 7
    BY ReplicationFields DEF ReplicationInv
  <2> QED BY <2>1, WalkOrder DEF Ask
<1>3. CASE GiveUp /\ UNCHANGED <<request, asked>>
  <2>1. JobFits' /\ ClaimsAreAnswered' /\ job'.pc # "walk"
    BY <1>1, <1>3, GiveUpAnswers
  <2>2. WalkSaw'
    BY <1>1, <1>3, <2>1, WalkRests DEF ReplicationInv
  <2> QED BY <1>1, <1>3, <2>1, <2>2, JobTyped, PollKept
        DEF ReplicationInv, PlansFit, UnattendedIsFree, AllowedWhenItMatters
<1>4. ASSUME NEW x \in job.walk, x \in prepared \ asked, ~x.paid,
             request' = [request EXCEPT ![x] = [kind |-> "automation", state |-> "waiting"]],
             asked' = asked \union {x}, job' = [job EXCEPT !.pc = "note"], UNCHANGED <<stopped, untold, turns>>
      PROVE  ReplicationInv'
  <2>1. /\ job'.pc = "note" /\ job'.todo = job.todo /\ job'.mints = job.mints
        /\ job'.groups = job.groups /\ job'.walk = job.walk
    BY <1>4, ReplicationFields DEF ReplicationInv
  <2>2. x \in Campaigns /\ job.walk = {x} /\ request[x].state = "ended"
    BY <1>2, ReplicationFields DEF ReplicationInv, JobFits, WalkSaw
  <2>3. ToAsk \subseteq since[x]
    BY <1>2 DEF ReplicationInv, WalkSaw, ToAsk, ToRun
  <2>4. JobFits'
    BY <1>1, <1>2, <1>4, <2>1, <2>2 DEF ReplicationInv, JobFits
  <2>5. ClaimsAreAnswered'
    BY <1>1, <1>4, <2>1 DEF ReplicationInv, ClaimsAreAnswered
  <2>6. WalkSaw'
    BY <1>1, <1>4, <2>1 DEF ReplicationInv, WalkSaw, Holding
  <2>7. /\ PollSaw'
        /\ \A y \in Campaigns : request'[y].state = "running" =>
             y # x /\ request'[y] = request[y] /\ lately'[y] = lately[y]
    BY <1>1, <1>4, <2>2, AskedAnew
  <2>8. AllowedWhenItMatters'
    BY <1>1, <1>4, <2>3, <2>7 DEF ReplicationInv, AllowedWhenItMatters
  <2>9. UnattendedIsFree'
    <3>1. \A y \in Campaigns : y # x => request'[y] = request[y]
      BY <1>4 DEF ReplicationInv, ReplicationTypeOK
    <3> QED BY <1>1, <1>4, <3>1 DEF ReplicationInv, UnattendedIsFree
  <2>10. PlansFit'
    BY <1>1 DEF ReplicationInv, PlansFit
  <2> QED BY <2>4, <2>5, <2>6, <2>7, <2>8, <2>9, <2>10, JobTyped DEF ReplicationInv
<1> QED BY <1>3, <1>4 DEF Ask

Requests == [kind : {"none", "attended", "schedule", "automation"},
             state : {"waiting", "started", "armed", "running", "ended"}]

\* What the steps about requests leave alone: all but the requests, the processor and
\* what it has seen.
LEMMA RequestsTyped ==
  ASSUME ReplicationInv, UNCHANGED <<home, signs, claims, prepared, asked, announced, stopped, job, planned, tries, untold, since, turns>>,
         request' \in [Campaigns -> Requests], lately' \in [Campaigns -> SUBSET ToAsk],
         poll' \in [on : SUBSET Campaigns, step : 1 .. 10]
  PROVE  ReplicationTypeOK' /\ PlansFit' /\ JobFits' /\ ClaimsAreAnswered'
<1>1. ReplicationTypeOK'
  <2> HIDE DEF Campaigns
  <2> QED BY DEF ReplicationInv, ReplicationTypeOK, Requests
<1>2. PlansFit' /\ JobFits' /\ ClaimsAreAnswered'
  BY DEF ReplicationInv, PlansFit, JobFits, ClaimsAreAnswered
<1> QED BY <1>1, <1>2

\* A request in the last step before it is asked has ended, and stays so.
LEMMA WalkWaits ==
  ASSUME ReplicationInv, UNCHANGED <<home, signs, asked, prepared, job, since>>,
         \A x \in Campaigns : request[x].state = "ended" /\ Firing(x) => request'[x].state = "ended"
  PROVE  WalkSaw'
<1>1. job.walk \subseteq Campaigns /\ job.step \in 1 .. 7
  BY ReplicationFields DEF ReplicationInv
<1>2. ASSUME job.pc = "walk", job.step = 7, NEW x \in job.walk PROVE request'[x].state = "ended"
  BY <1>1, <1>2, WalkOrder DEF ReplicationInv, WalkSaw, Firing
<1> QED BY <1>2 DEF ReplicationInv, WalkSaw, Holding

LEMMA RequestTypes ==
  ASSUME ReplicationTypeOK
  PROVE  /\ request \in [Campaigns -> Requests] /\ lately \in [Campaigns -> SUBSET ToAsk]
         /\ poll \in [on : SUBSET Campaigns, step : 1 .. 10]
         /\ NoRequest \in Requests
         /\ \A x \in Campaigns, state \in {"waiting", "started", "armed", "running", "ended"} :
              /\ [request[x] EXCEPT !.state = state] \in Requests
              /\ [request EXCEPT ![x].state = state] = [request EXCEPT ![x] = [request[x] EXCEPT !.state = state]]
              /\ [request[x] EXCEPT !.state = state].state = state
              /\ [request[x] EXCEPT !.state = state].kind = request[x].kind
BY DEF ReplicationTypeOK, Requests, NoRequest

LEMMA OwnerAsksKeeps ==
  ASSUME ReplicationInv, OwnerAsks PROVE ReplicationInv'
<1>1. PICK x \in prepared, kind \in {"attended", "schedule"} :
        /\ ~Busy(x)
        /\ kind = "schedule" => ~x.paid
        /\ request' = [request EXCEPT ![x] = [kind |-> kind, state |-> "waiting"]]
  BY DEF OwnerAsks
<1>2. UNCHANGED <<home, signs, claims, prepared, asked, announced, stopped, job, poll, planned, tries, untold, since, lately, turns>>
  BY DEF OwnerAsks, histories
<1>3. x \in Campaigns /\ request[x].state = "ended" /\ ~Firing(x)
  BY <1>1, ReplicationFields DEF ReplicationInv, Busy
<1>4. request \in [Campaigns -> Requests] /\ lately \in [Campaigns -> SUBSET ToAsk] /\ poll \in [on : SUBSET Campaigns, step : 1 .. 10]
  BY RequestTypes DEF ReplicationInv
<1>5. request' \in [Campaigns -> Requests]
  BY <1>1, <1>3, <1>4 DEF Requests
<1>6. ReplicationTypeOK' /\ PlansFit' /\ JobFits' /\ ClaimsAreAnswered'
  BY <1>2, <1>4, <1>5, RequestsTyped
<1>7. /\ PollSaw'
      /\ \A y \in Campaigns : request'[y].state = "running" =>
           y # x /\ request'[y] = request[y] /\ lately'[y] = lately[y]
  BY <1>1, <1>2, <1>3, AskedAnew
<1>8. \A y \in Campaigns : y # x => request'[y] = request[y]
  BY <1>1, <1>4
<1>9. WalkSaw'
  BY <1>2, <1>3, <1>8, WalkWaits
<1>10. AllowedWhenItMatters'
  BY <1>2, <1>7 DEF ReplicationInv, AllowedWhenItMatters
<1>11. UnattendedIsFree'
  <2>1. request'[x].kind = kind
    BY <1>1, <1>3, <1>4
  <2> QED BY <1>1, <1>2, <1>8, <2>1 DEF ReplicationInv, UnattendedIsFree
<1> QED BY <1>6, <1>7, <1>9, <1>10, <1>11 DEF ReplicationInv

\* The checks of the processor, in their order.
LEMMA PollOrder ==
  ASSUME poll.step \in 1 .. 10
  PROVE  /\ PollPath[poll.step] = "arm" <=> poll.step = 5
         /\ PollPath[poll.step] = "run" <=> poll.step = 10
         /\ poll.step \in {6, 7} => PollPath[poll.step] = "ready"
         /\ poll.step = 8 => PollPath[poll.step] = "authority"
         /\ poll.step = 9 => PollPath[poll.step] = "source"
BY DEF PollPath

LEMMA PollClaimKeeps ==
  ASSUME ReplicationInv, PollClaim PROVE ReplicationInv'
<1>1. PICK x \in Campaigns :
        /\ request[x].state = "waiting"
        /\ request' = [request EXCEPT ![x].state = "started"]
        /\ poll' = [on |-> {x}, step |-> IF request[x].kind = "attended" THEN 5 ELSE 1]
  BY DEF PollClaim
<1>2. UNCHANGED <<home, signs, claims, prepared, asked, announced, stopped, job, planned, tries, untold, turns, since, lately>>
  BY DEF PollClaim, PollStays
<1>3. request \in [Campaigns -> Requests] /\ lately \in [Campaigns -> SUBSET ToAsk]
  BY RequestTypes DEF ReplicationInv
<1>4. /\ request'[x].state = "started" /\ request'[x].kind = request[x].kind /\ request' \in [Campaigns -> Requests]
      /\ \A y \in Campaigns : y # x => request'[y] = request[y]
  <2>1. request' = [request EXCEPT ![x] = [request[x] EXCEPT !.state = "started"]]
    BY <1>1
  <2>2. [request[x] EXCEPT !.state = "started"] \in Requests
    BY RequestTypes DEF ReplicationInv
  <2>3. request[x] \in Requests
    BY <1>3
  <2>4. [request[x] EXCEPT !.state = "started"].state = "started" /\ [request[x] EXCEPT !.state = "started"].kind = request[x].kind
    BY <2>3 DEF Requests
  <2> HIDE DEF Requests
  <2> QED BY <1>3, <2>1, <2>2, <2>4
<1>5. /\ poll'.on = {x} /\ poll'.step \in {1, 5} /\ (request[x].kind # "attended" => poll'.step = 1)
      /\ poll' \in [on : SUBSET Campaigns, step : 1 .. 10]
  BY <1>1
<1>6. ReplicationTypeOK' /\ PlansFit' /\ JobFits' /\ ClaimsAreAnswered'
  BY <1>2, <1>3, <1>4, <1>5, RequestsTyped
<1>7. PollSaw'
  BY <1>2, <1>4, <1>5 DEF ReplicationInv, PollSaw, Holding
<1>8. WalkSaw'
  BY <1>1, <1>2, <1>4, WalkWaits
<1>9. AllowedWhenItMatters' /\ UnattendedIsFree'
  BY <1>2, <1>4 DEF ReplicationInv, AllowedWhenItMatters, UnattendedIsFree
<1> QED BY <1>6, <1>7, <1>8, <1>9 DEF ReplicationInv

\* A request that moves to another state keeps its kind.
LEMMA RequestMoves ==
  ASSUME ReplicationInv, NEW x \in Campaigns, NEW state \in {"waiting", "started", "armed", "running", "ended"},
         request' = [request EXCEPT ![x].state = state]
  PROVE  /\ request'[x].state = state /\ request'[x].kind = request[x].kind /\ request' \in [Campaigns -> Requests]
         /\ \A y \in Campaigns : y # x => request'[y] = request[y]
<1>1. request \in [Campaigns -> Requests]
  BY RequestTypes DEF ReplicationInv
<1>2. request' = [request EXCEPT ![x] = [request[x] EXCEPT !.state = state]]
  OBVIOUS
<1>3. [request[x] EXCEPT !.state = state] \in Requests
  BY RequestTypes DEF ReplicationInv
<1>4. request[x] \in Requests
  BY <1>1
<1>5. [request[x] EXCEPT !.state = state].state = state /\ [request[x] EXCEPT !.state = state].kind = request[x].kind
  BY <1>4 DEF Requests
<1> HIDE DEF Requests
<1> QED BY <1>1, <1>2, <1>3, <1>5

LEMMA PollCheckKeeps ==
  ASSUME ReplicationInv, PollCheck PROVE ReplicationInv'
<1>1. UNCHANGED <<home, signs, claims, prepared, asked, announced, stopped, job, planned, tries, untold, turns, request, since, lately>>
  BY DEF PollCheck, PollStays
<1>2. /\ request \in [Campaigns -> Requests] /\ lately \in [Campaigns -> SUBSET ToAsk]
      /\ poll.on \subseteq Campaigns /\ poll.step \in 1 .. 10
  BY RequestTypes, ReplicationFields DEF ReplicationInv
<1>3. poll.step # 5 /\ poll.step # 10
  BY <1>2, PollOrder DEF PollCheck
<1>4. poll'.on = poll.on /\ poll'.step = poll.step + 1 /\ poll' \in [on : SUBSET Campaigns, step : 1 .. 10]
  <2>1. poll' = [poll EXCEPT !.step = poll.step + 1] /\ poll = [on |-> poll.on, step |-> poll.step]
    BY ReplicationFields DEF PollCheck, ReplicationInv
  <2>2. poll' = [on |-> poll.on, step |-> poll.step + 1]
    BY <2>1
  <2> QED BY <1>2, <1>3, <2>2
<1>5. ReplicationTypeOK' /\ PlansFit' /\ JobFits' /\ ClaimsAreAnswered'
  BY <1>1, <1>2, <1>4, RequestsTyped
<1>6. WalkSaw'
  BY <1>1, WalkWaits
<1>7. ASSUME NEW x \in poll.on
      PROVE  /\ poll.step + 1 <= 5 => request[x].state = "started"
             /\ poll.step + 1 > 5 => request[x].state = "armed" \/ (request[x].state = "running" /\ poll.step + 1 = 10)
             /\ request[x].kind # "attended" =>
                  /\ poll.step + 1 > 6 => "ready" \in lately[x]
                  /\ poll.step + 1 > 8 => {"clear", "score"} \subseteq lately[x]
                  /\ poll.step + 1 > 9 => {"mint", "free"} \subseteq lately[x]
  <2>1. /\ poll.step <= 5 => request[x].state = "started"
        /\ poll.step > 5 => request[x].state = "armed" \/ (request[x].state = "running" /\ poll.step = 10)
        /\ request[x].kind # "attended" =>
             /\ poll.step > 6 => "ready" \in lately[x]
             /\ poll.step > 8 => {"clear", "score"} \subseteq lately[x]
             /\ poll.step > 9 => {"mint", "free"} \subseteq lately[x]
    BY DEF ReplicationInv, PollSaw
  <2>2. x \in Campaigns
    BY <1>2
  <2>3. poll.step > 5 => request[x].state = "armed" /\ Holding(x) \subseteq lately[x]
    BY <1>3, <2>1, <2>2 DEF ReplicationInv, PollSaw
  <2>4. request[x].kind # "attended" => Allows(PollPath[poll.step], x)
    BY DEF PollCheck
  <2>5. request[x].kind # "attended" =>
          /\ poll.step \in {6, 7} => "ready" \in Holding(x)
          /\ poll.step = 8 => {"clear", "score"} \subseteq Holding(x)
          /\ poll.step = 9 => {"mint", "free"} \subseteq Holding(x)
    BY <1>2, <2>2, <2>4, PollOrder, AllowsHolds
  <2> QED BY <1>2, <1>3, <2>1, <2>3, <2>5
<1>8. PollSaw'
  <2>1. \A x \in Campaigns : Holding(x)' = Holding(x)
    BY <1>1 DEF Holding
  <2> QED BY <1>1, <1>4, <1>7, <2>1 DEF ReplicationInv, PollSaw
<1>9. AllowedWhenItMatters' /\ UnattendedIsFree'
  BY <1>1 DEF ReplicationInv, AllowedWhenItMatters, UnattendedIsFree
<1> QED BY <1>5, <1>6, <1>8, <1>9 DEF ReplicationInv

LEMMA PollArmKeeps ==
  ASSUME ReplicationInv, PollArm PROVE ReplicationInv'
<1>1. PICK x \in poll.on : request' = [request EXCEPT ![x].state = "armed"] /\ lately' = [lately EXCEPT ![x] = Holding(x)]
  BY DEF PollArm
<1>2. UNCHANGED <<home, signs, claims, prepared, asked, announced, stopped, job, planned, tries, untold, turns, since>>
  BY DEF PollArm, PollStays
<1>3. /\ lately \in [Campaigns -> SUBSET ToAsk] /\ poll.on \subseteq Campaigns /\ poll.step \in 1 .. 10 /\ x \in Campaigns
      /\ Holding(x) \subseteq ToAsk
  BY RequestTypes, ReplicationFields, HoldingTyped DEF ReplicationInv
<1>4. poll.step = 5 /\ request[x].state = "started" /\ \A y \in poll.on : y = x
  BY <1>3, PollOrder DEF PollArm, ReplicationInv, PollSaw
<1>5. poll'.on = poll.on /\ poll'.step = 6 /\ poll' \in [on : SUBSET Campaigns, step : 1 .. 10]
  <2>1. poll' = [poll EXCEPT !.step = poll.step + 1] /\ poll = [on |-> poll.on, step |-> poll.step]
    BY ReplicationFields DEF PollArm, ReplicationInv
  <2>2. poll' = [on |-> poll.on, step |-> poll.step + 1]
    BY <2>1
  <2> QED BY <1>3, <1>4, <2>2
<1>6. /\ request'[x].state = "armed" /\ request'[x].kind = request[x].kind /\ request' \in [Campaigns -> Requests]
      /\ \A y \in Campaigns : y # x => request'[y] = request[y]
  BY <1>1, <1>3, RequestMoves
<1>7. lately' \in [Campaigns -> SUBSET ToAsk] /\ lately'[x] = Holding(x) /\ \A y \in Campaigns : y # x => lately'[y] = lately[y]
  BY <1>1, <1>3
<1>8. ReplicationTypeOK' /\ PlansFit' /\ JobFits' /\ ClaimsAreAnswered'
  BY <1>2, <1>5, <1>6, <1>7, RequestsTyped
<1>9. WalkSaw'
  BY <1>2, <1>4, <1>6, WalkWaits
<1>10. PollSaw'
  <2>1. \A y \in Campaigns : Holding(y)' = Holding(y)
    BY <1>2 DEF Holding
  <2> QED BY <1>3, <1>4, <1>5, <1>6, <1>7, <2>1 DEF ReplicationInv, PollSaw
<1>11. AllowedWhenItMatters' /\ UnattendedIsFree'
  BY <1>2, <1>6, <1>7 DEF ReplicationInv, AllowedWhenItMatters, UnattendedIsFree
<1> QED BY <1>8, <1>9, <1>10, <1>11 DEF ReplicationInv

LEMMA PollRunKeeps ==
  ASSUME ReplicationInv, PollRun PROVE ReplicationInv'
<1>1. PICK x \in poll.on : request[x].state = "armed" /\ request' = [request EXCEPT ![x].state = "running"]
  BY DEF PollRun
<1>2. UNCHANGED <<home, signs, claims, prepared, asked, announced, stopped, job, poll, planned, tries, untold, turns, since, lately>>
  BY DEF PollRun, PollStays
<1>3. /\ lately \in [Campaigns -> SUBSET ToAsk] /\ poll.on \subseteq Campaigns /\ poll.step \in 1 .. 10 /\ x \in Campaigns
      /\ poll \in [on : SUBSET Campaigns, step : 1 .. 10]
  BY RequestTypes, ReplicationFields DEF ReplicationInv
<1>4. poll.step = 10 /\ \A y \in poll.on : y = x
  BY <1>3, PollOrder DEF PollRun, ReplicationInv, PollSaw
<1>5. /\ request'[x].state = "running" /\ request'[x].kind = request[x].kind /\ request' \in [Campaigns -> Requests]
      /\ \A y \in Campaigns : y # x => request'[y] = request[y]
  BY <1>1, <1>3, RequestMoves
<1>6. ReplicationTypeOK' /\ PlansFit' /\ JobFits' /\ ClaimsAreAnswered'
  BY <1>2, <1>3, <1>5, RequestsTyped
<1>7. WalkSaw'
  BY <1>1, <1>2, <1>5, WalkWaits
<1>8. PollSaw'
  <2>1. \A y \in Campaigns : Holding(y)' = Holding(y)
    BY <1>2 DEF Holding
  <2> QED BY <1>2, <1>3, <1>4, <1>5, <2>1 DEF ReplicationInv, PollSaw
<1>9. request[x].kind # "attended" => ToRun \subseteq lately[x]
  BY <1>4 DEF ReplicationInv, PollSaw, ToRun
<1>10. AllowedWhenItMatters' /\ UnattendedIsFree'
  BY <1>2, <1>5, <1>9 DEF ReplicationInv, AllowedWhenItMatters, UnattendedIsFree
<1> QED BY <1>6, <1>7, <1>8, <1>10 DEF ReplicationInv

LEMMA EndsKeeps ==
  ASSUME ReplicationInv, PollEnds \/ RequestLapses PROVE ReplicationInv'
<1>1. PICK x \in Campaigns :
        /\ request' = [request EXCEPT ![x] = NoRequest] /\ lately' = [lately EXCEPT ![x] = {}]
        /\ x \in poll.on => poll' = NoPoll
        /\ poll' = poll \/ poll' = NoPoll
  BY ReplicationFields DEF PollEnds, RequestLapses, Ends, ReplicationInv
<1>2. UNCHANGED <<home, signs, claims, prepared, asked, announced, stopped, job, planned, tries, untold, turns, since>>
  BY DEF PollEnds, RequestLapses, PollStays
<1>3. /\ request \in [Campaigns -> Requests] /\ lately \in [Campaigns -> SUBSET ToAsk] /\ NoRequest \in Requests
      /\ poll \in [on : SUBSET Campaigns, step : 1 .. 10] /\ NoPoll \in [on : SUBSET Campaigns, step : 1 .. 10]
  BY RequestTypes DEF ReplicationInv, NoPoll
<1>4. /\ request' \in [Campaigns -> Requests] /\ request'[x] = NoRequest
      /\ \A y \in Campaigns : y # x => request'[y] = request[y]
      /\ lately' \in [Campaigns -> SUBSET ToAsk] /\ \A y \in Campaigns : y # x => lately'[y] = lately[y]
      /\ poll' \in [on : SUBSET Campaigns, step : 1 .. 10]
  <2> HIDE DEF Requests
  <2> QED BY <1>1, <1>3
<1>5. request'[x].state = "ended" /\ request'[x].kind = "none"
  BY <1>4 DEF NoRequest
<1>6. ReplicationTypeOK' /\ PlansFit' /\ JobFits' /\ ClaimsAreAnswered'
  BY <1>2, <1>4, RequestsTyped
<1>7. WalkSaw'
  BY <1>2, <1>4, <1>5, WalkWaits
<1>8. PollSaw'
  <2>1. \A y \in Campaigns : Holding(y)' = Holding(y)
    BY <1>2 DEF Holding
  <2>2. CASE poll' = NoPoll
    BY <1>4, <1>5, <2>1, <2>2 DEF ReplicationInv, PollSaw, NoPoll
  <2>3. CASE poll' = poll /\ x \notin poll.on
    BY <1>3, <1>4, <1>5, <2>1, <2>3 DEF ReplicationInv, PollSaw
  <2> QED BY <1>1, <2>2, <2>3
<1>9. AllowedWhenItMatters' /\ UnattendedIsFree'
  BY <1>2, <1>4, <1>5 DEF ReplicationInv, AllowedWhenItMatters, UnattendedIsFree
<1> QED BY <1>6, <1>7, <1>8, <1>9 DEF ReplicationInv

LEMMA SignsKeep ==
  ASSUME ReplicationInv, SignsChange PROVE ReplicationInv'
<1>1. /\ UNCHANGED <<claims, prepared, request, asked, announced, stopped, job, poll, planned, tries, untold>>
      /\ turns < MaxTurns /\ turns' = turns + 1
      /\ since' = [x \in Campaigns |-> IF x \in prepared THEN since[x] \union Holding(x)' ELSE {}]
      /\ lately' = [x \in Campaigns |-> IF request[x].state = "armed" THEN lately[x] \union Holding(x)' ELSE lately[x]]
  BY DEF SignsChange, Turn, stores
<1>2. home' \subseteq HomeSigns /\ signs' \in [Mints -> SUBSET MintSigns]
  <2>1. home \subseteq HomeSigns /\ signs \in [Mints -> SUBSET MintSigns]
    BY ReplicationFields DEF ReplicationInv
  <2>2. CASE \E s \in HomeSigns : home' = (IF s \in home THEN home \ {s} ELSE home \union {s}) /\ UNCHANGED signs
    BY <2>1, <2>2
  <2>3. ASSUME NEW c \in Mints, NEW s \in MintSigns, UNCHANGED home,
               signs' = [signs EXCEPT ![c] = IF s \in signs[c] THEN signs[c] \ {s} ELSE signs[c] \union {s}]
        PROVE  home' \subseteq HomeSigns /\ signs' \in [Mints -> SUBSET MintSigns]
    <3>1. (IF s \in signs[c] THEN signs[c] \ {s} ELSE signs[c] \union {s}) \in SUBSET MintSigns
      BY <2>1
    <3> QED BY <2>1, <2>3, <3>1
  <2> QED BY <2>2, <2>3 DEF SignsChange
<1>3. \A x \in Campaigns : Holding(x)' \subseteq ToAsk
  <2>1. TAKE x \in Campaigns
  <2>2. x.mint \in Mints
    BY DEF Campaigns
  <2> QED BY <1>2, <2>2 DEF Holding, HomeSigns, MintSigns, ToAsk, ToRun
<1>4. since \in [Campaigns -> SUBSET ToAsk] /\ lately \in [Campaigns -> SUBSET ToAsk] /\ prepared \subseteq Campaigns
      /\ turns \in 0 .. MaxTurns /\ asked \subseteq prepared
  BY DEF ReplicationInv, ReplicationTypeOK, WalkSaw
<1>5. /\ since' \in [Campaigns -> SUBSET ToAsk] /\ lately' \in [Campaigns -> SUBSET ToAsk]
      /\ \A x \in prepared : since[x] \subseteq since'[x] /\ Holding(x)' \subseteq since'[x]
      /\ \A x \in Campaigns : /\ lately[x] \subseteq lately'[x]
                              /\ request[x].state = "armed" => Holding(x)' \subseteq lately'[x]
  BY <1>1, <1>3, <1>4
<1>6. ReplicationTypeOK'
  <2>1. turns' \in 0 .. MaxTurns
    BY <1>1, <1>4, ReplicationAssumption
  <2> HIDE DEF Campaigns
  <2> QED BY <1>1, <1>2, <1>5, <2>1 DEF ReplicationInv, ReplicationTypeOK
<1>7. PlansFit' /\ JobFits' /\ ClaimsAreAnswered' /\ UnattendedIsFree'
  BY <1>1 DEF ReplicationInv, PlansFit, JobFits, ClaimsAreAnswered, UnattendedIsFree
<1>8. WalkSaw'
  <2>1. job.pc = "walk" => job.walk \subseteq prepared
    BY DEF ReplicationInv, JobFits
  <2> QED BY <1>1, <1>4, <1>5, <2>1 DEF ReplicationInv, WalkSaw
<1>9. PollSaw'
  <2>1. poll.on \subseteq Campaigns
    BY ReplicationFields DEF ReplicationInv
  <2> QED BY <1>1, <1>5, <2>1 DEF ReplicationInv, PollSaw
<1>10. AllowedWhenItMatters'
  BY <1>1, <1>4, <1>5 DEF ReplicationInv, AllowedWhenItMatters
<1> QED BY <1>6, <1>7, <1>8, <1>9, <1>10 DEF ReplicationInv

LEMMA ReplicationCrashKeeps ==
  ASSUME ReplicationInv, ReplicationCrash PROVE ReplicationInv'
<1>1. /\ UNCHANGED <<home, signs, claims, prepared, request, asked, announced, stopped, planned, tries, since, lately>>
      /\ job' = NoJob /\ poll' = NoPoll /\ untold' = untold \union job.mints
      /\ turns < MaxTurns /\ turns' = turns + 1
  BY DEF ReplicationCrash, Turn, stores
<1>2. ReplicationTypeOK'
  <2>1. /\ turns' \in 0 .. MaxTurns /\ untold' \subseteq Mints
    BY <1>1, ReplicationFields, ReplicationAssumption DEF ReplicationInv, ReplicationTypeOK
  <2> HIDE DEF Campaigns
  <2> QED BY <1>1, <2>1 DEF ReplicationInv, ReplicationTypeOK, NoJob, NoPoll
<1>3. PlansFit' /\ UnattendedIsFree' /\ AllowedWhenItMatters'
  BY <1>1 DEF ReplicationInv, PlansFit, UnattendedIsFree, AllowedWhenItMatters
<1>4. JobFits' /\ ClaimsAreAnswered'
  BY <1>1 DEF ReplicationInv, JobFits, ClaimsAreAnswered, NoJob
<1>5. WalkSaw' /\ PollSaw'
  BY <1>1 DEF ReplicationInv, WalkSaw, PollSaw, Holding, NoJob, NoPoll
<1> QED BY <1>2, <1>3, <1>4, <1>5 DEF ReplicationInv

LEMMA ReplicationSteps == ReplicationInv /\ [ReplicationNext]_repVars => ReplicationInv'
<1> SUFFICES ASSUME ReplicationInv, [ReplicationNext]_repVars PROVE ReplicationInv'
  OBVIOUS
<1>1. CASE UNCHANGED repVars
  BY <1>1 DEF repVars, ReplicationInv, ReplicationTypeOK, PlansFit, JobFits, WalkSaw, PollSaw, Holding,
              ClaimsAreAnswered, UnattendedIsFree, AllowedWhenItMatters
<1> QED BY <1>1, SignsKeep, PassBeginKeeps, QualifyKeeps, ClaimKeeps, PrepareKeeps, RecordKeeps, ToldKeeps, WalkKeeps, AskKeeps,
           OwnerAsksKeeps, PollClaimKeeps, PollCheckKeeps, PollArmKeeps, PollRunKeeps, EndsKeeps, ReplicationCrashKeeps
        DEF ReplicationNext

-----------------------------------------------------------------------------
(* Each part on its own and the five together                              *)

\* A behaviour is that of one of the five, and what it does not move rests.
LEMMA IntelligenceSteps ==
  ScanInv /\ SweepInv /\ HealthInv /\ PauseInv /\ ReplicationInv /\ [AllNext]_allVars
    => ScanInv' /\ SweepInv' /\ HealthInv' /\ PauseInv' /\ ReplicationInv'
<1> SUFFICES ASSUME ScanInv, SweepInv, HealthInv, PauseInv, ReplicationInv, [AllNext]_allVars
             PROVE  ScanInv' /\ SweepInv' /\ HealthInv' /\ PauseInv' /\ ReplicationInv'
  OBVIOUS
<1>1. /\ [ScanNext]_scanVars /\ [ReadinessNext]_readinessVars
      /\ [HealthNext]_healthVars /\ [PauseNext]_pauseVars /\ [ReplicationNext]_repVars
  BY DEF AllNext, allVars, ScanPart, SweepPart, HealthPart, BeatPart, CopyPart
<1> QED BY <1>1, ScanSteps, SweepSteps, HealthSteps, PauseSteps, ReplicationSteps

\* The sweep on its own: for every catalogue of drops, every evidence and every
\* number of wallets, a free plan is the largest quantity that fits, a proposal
\* rests on watched wallets, price and code, and a stored sweep of a paid drop has
\* kept the wallets that can pay and are richest.
THEOREM SweepSafe ==
  ReadinessInit /\ [][ReadinessNext]_readinessVars => []ReadinessSafety
<1> QED BY SweepStarts, SweepSteps, SweepInvSafe, PTL

\* The monitor on its own: for any limits, times and number of upsets, an open trouble
\* has been told and an ended one is told to have ended, one episode after another,
\* with the reminders apart, save for alerts that were not stored and restarts.
THEOREM MonitorSafe ==
  HealthInit /\ [][HealthNext]_healthVars => []HealthSafety
<1> QED BY HealthStarts, HealthSteps, HealthInvSafe, PTL

\* The heartbeat on its own: for any gap and number of stops, the pauses told are the
\* long gaps between one written beat and the next, each of them once.
THEOREM HeartbeatSafe ==
  PauseInit /\ [][PauseNext]_pauseVars => []PauseSafety
<1> QED BY PauseStarts, PauseSteps, PauseInvSafe, PTL

\* The automation on its own: for any contracts, wallets, limits and number of changes
\* and restarts, a contract is prepared once and answered for, nothing with a price is
\* fired unattended, and what allows a mint held after it was prepared and armed.
THEOREM AutomationSafe ==
  ReplicationInit /\ [][ReplicationNext]_repVars => []ReplicationSafety
<1> QED BY ReplicationStarts, ReplicationSteps, ReplicationInvSafe, PTL

\* Safety of the five parts, which the intelligence run checks (AllSafety).
THEOREM IntelligenceSafe ==
  AllSpec => []AllSafety
<1>1. AllInit => ScanInv /\ SweepInv /\ HealthInv /\ PauseInv /\ ReplicationInv
  BY ScanStarts, SweepStarts, HealthStarts, PauseStarts, ReplicationStarts DEF AllInit
<1>2. ScanInv /\ SweepInv /\ HealthInv /\ PauseInv /\ ReplicationInv => AllSafety
  BY ScanInvSafe, SweepInvSafe, HealthInvSafe, PauseInvSafe, ReplicationInvSafe DEF AllSafety
<1> QED BY <1>1, <1>2, IntelligenceSteps, PTL DEF AllSpec
=============================================================================
