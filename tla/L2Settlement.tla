---------------------------- MODULE L2Settlement ----------------------------
(***************************************************************************)
(* How a run sent on Base or Robinhood is reconciled: each pass reads the  *)
(* receipts and the finality of its transactions from providers that may   *)
(* lag or lie, and one store transaction applies what was read, under the  *)
(* triggers of the database.                                               *)
(*                                                                         *)
(* The run is taken after its request ended: every wallet has a            *)
(* transaction out, some also the replacement of it.  The chain is         *)
(* external.  What a block may do to a wallet's transactions is its fate:  *)
(* the inclusions one after the other, each of which may be reorganised    *)
(* away until it is final on Ethereum.  An inclusion stands for its        *)
(* receipt: block hash, gas and amount.                                    *)
(***************************************************************************)
EXTENDS Integers, Sequences, FiniteSets

CONSTANTS
  Wallets,
  Fates,      \* the fates that a wallet's transactions may have
  Lies,       \* bound: what a provider that lies may answer
  MaxFaults   \* bound: reorganisations, answers that are not the truth, failures, crashes, revocations and kills

Hashes == 1 .. 2 \* the transaction and its replacement
Inclusions == [hash : Hashes, ok : BOOLEAN]

ASSUME FatesAssumption ==
  /\ IsFiniteSet(Wallets) /\ Wallets # {}
  /\ Fates \subseteq Seq(Inclusions) /\ MaxFaults \in Nat
  /\ Lies \subseteq {"soft", "posted", "final", "reorged", "unproven"}

VARIABLES
  chainId,
  liar,     \* the Base provider that may answer anything
  fate,     \* per wallet
  sent,     \* per wallet: the hashes that were sent
  at,       \* per wallet: how many inclusions there have been
  included, \* per wallet: the last of them is in the chain
  stage,    \* per wallet: how final it is
  enabled,  \* chain_profile.execution_enabled
  faults,
  run,
  exec,     \* per wallet: execution.state
  resv,     \* per wallet: spend_reservation.status
  paid,     \* per wallet: the inclusion whose amount was settled
  receipts, \* per wallet: the stored receipts
  recon,    \* the last reconciliation, as the store reads it back
  marked,   \* per wallet: receipts with a robinhood_finality_reported event
  told,     \* per wallet: receipts the owner was told of
  pass      \* the reconcile pass

fixed  == <<chainId, liar, fate, sent>>
blocks == <<at, included, stage>>
money  == <<run, exec, resv, paid, receipts, recon>>
notes  == <<marked, told>>
vars   == <<fixed, blocks, enabled, faults, money, notes, pass>>

Stages == {"soft", "posted", "final"}
Reached(s) == CASE s = "soft" -> 1 [] s = "posted" -> 2 [] s = "final" -> 3
Kinds == Stages \cup {"reorged"}

(* What a provider shows of one transaction: no receipt, a receipt whose    *)
(* place is not proven, one that is not canonical, or its stage.            *)
NoView == [kind |-> "none", of |-> 0]
View == [kind : Kinds \cup {"none", "unproven"}, of : Nat]
Receipt == [kind : Kinds, of : Nat]

Attempts == {a \in Wallets \X Hashes : a[2] \in sent[a[1]]}
Idle == [pc |-> "idle", todo |-> {}, seen |-> [a \in Wallets \X Hashes |-> NoView], halt |-> "no", report |-> {}]

TypeOK ==
  /\ chainId \in {"base", "robinhood"} /\ liar \in {"none", "primary", "fallback"}
  /\ enabled \in BOOLEAN /\ faults \in 0 .. MaxFaults
  /\ fate \in [Wallets -> Fates] /\ sent \in [Wallets -> SUBSET Hashes]
  /\ at \in [Wallets -> Nat] /\ included \in [Wallets -> BOOLEAN] /\ stage \in [Wallets -> Stages]
  /\ run \in {"Active", "Aborted", "Completed", "Failed"}
  /\ exec \in [Wallets -> {"signed", "submitted", "confirmed", "failed", "reorged"}]
  /\ resv \in [Wallets -> {"reserved", "settled"}] /\ paid \in [Wallets -> Nat]
  /\ receipts \in [Wallets -> SUBSET Receipt]
  /\ recon \in {"none", "confirmed", "final", "reorged", "unknown"}
  /\ marked \in [Wallets -> SUBSET Receipt] /\ told \in [Wallets -> SUBSET Receipt]
  /\ pass \in [pc : {"idle", "read", "apply", "report"}, todo : SUBSET (Wallets \X Hashes),
               seen : [Wallets \X Hashes -> View], halt : {"no", "unknown", "reorged"},
               report : SUBSET (Wallets \X Receipt)]
  /\ \A w \in Wallets : at[w] <= Len(fate[w])

Init ==
  /\ chainId \in {"base", "robinhood"}
  /\ liar \in IF chainId = "base" THEN {"none", "primary", "fallback"} ELSE {"none"}
  /\ enabled = TRUE /\ faults = 0
  /\ fate \in [Wallets -> Fates] /\ exec \in [Wallets -> {"signed", "submitted"}]
  /\ sent \in [Wallets -> {{1}, {1, 2}}] /\ \A w \in Wallets : exec[w] = "signed" => sent[w] = {1}
  /\ \A w \in Wallets : \A i \in DOMAIN fate[w] : fate[w][i].hash \in sent[w]
  /\ at = [w \in Wallets |-> 0] /\ included = [w \in Wallets |-> FALSE] /\ stage = [w \in Wallets |-> "soft"]
  /\ run \in {"Active", "Aborted"}
  /\ resv = [w \in Wallets |-> "reserved"] /\ paid = [w \in Wallets |-> 0]
  /\ receipts = [w \in Wallets |-> {}] /\ recon = "none"
  /\ marked = [w \in Wallets |-> {}] /\ told = [w \in Wallets |-> {}]
  /\ pass = Idle

-----------------------------------------------------------------------------
(* The chain, its enablement, and what befalls the service *)

Charge(n) == faults + n <= MaxFaults /\ faults' = faults + n
Fault == Charge(1)

Mine(w) ==
  /\ ~included[w] /\ at[w] < Len(fate[w])
  /\ at' = [at EXCEPT ![w] = @ + 1] /\ included' = [included EXCEPT ![w] = TRUE]
  /\ stage' = [stage EXCEPT ![w] = "soft"]
  /\ UNCHANGED <<fixed, enabled, faults, money, notes, pass>>

Advance(w) ==
  /\ included[w] /\ stage[w] # "final"
  /\ stage' = [stage EXCEPT ![w] = IF @ = "soft" THEN "posted" ELSE "final"]
  /\ UNCHANGED <<fixed, at, included, enabled, faults, money, notes, pass>>

Orphan(w) ==
  /\ Fault /\ included[w] /\ stage[w] # "final"
  /\ included' = [included EXCEPT ![w] = FALSE] /\ stage' = [stage EXCEPT ![w] = "soft"]
  /\ UNCHANGED <<fixed, at, enabled, money, notes, pass>>

(* The owner revokes the enablement, or it expires; a new record enables    *)
(* the chain again.                                                         *)
Revoke ==
  /\ Fault /\ enabled /\ enabled' = FALSE
  /\ UNCHANGED <<fixed, blocks, money, notes, pass>>

Enable ==
  /\ ~enabled /\ enabled' = TRUE
  /\ UNCHANGED <<fixed, blocks, faults, money, notes, pass>>

Kill ==
  /\ Fault /\ run = "Active" /\ run' = "Aborted"
  /\ UNCHANGED <<fixed, blocks, enabled, exec, resv, paid, receipts, recon, notes, pass>>

Crash ==
  /\ Fault /\ pass # Idle /\ pass' = Idle
  /\ UNCHANGED <<fixed, blocks, enabled, money, notes>>

-----------------------------------------------------------------------------
(* The pass: what it reads *)

Final(r) == r.kind = "final"
Unreported(w) == {r \in receipts[w] : Final(r) /\ r \notin marked[w]}

(* Wrong variant: an aborted run is left alone. *)
CandidateWhileOpen == run = "Active" \/ (run = "Completed" /\ recon # "final")

(* A run is read while it is open, completed without a final verdict, or    *)
(* aborted, and on Robinhood while a final receipt is unreported.           *)
Candidate ==
  \/ run \in {"Active", "Aborted"}
  \/ run = "Completed" /\ recon # "final"
  \/ chainId = "robinhood" /\ \E w \in Wallets : Unreported(w) # {}

StartPass ==
  /\ pass = Idle /\ Candidate
  /\ pass' = [Idle EXCEPT !.pc = "read", !.todo = Attempts]
  /\ UNCHANGED <<faults, money, notes>>

(* What the chain says now. *)
TrueView(w, h) ==
  IF included[w] /\ fate[w][at[w]].hash = h THEN [kind |-> stage[w], of |-> at[w]] ELSE NoView

(* What an honest provider may show: it may lag, answer nothing, or see     *)
(* the inclusion go while it answers.  It shows an inclusion as final only  *)
(* when it is.                                                              *)
Orphaned(w, i) == i < at[w] \/ (i = at[w] /\ ~included[w])
Seen(w, h) == {i \in 1 .. at[w] : fate[w][i].hash = h}
Honest(w, h) ==
  {NoView} \cup [kind : {"unproven"}, of : Seen(w, h)]
  \cup [kind : {"reorged", "soft", "posted"}, of : {i \in Seen(w, h) : Orphaned(w, i)}]
  \cup {v \in [kind : Stages, of : Seen(w, h)] : ~Orphaned(w, v.of) /\ Reached(v.kind) <= Reached(stage[w])}

Lying(w) == [kind : Lies, of : DOMAIN fate[w]]
Shown(provider, w, h) == IF provider = liar THEN Lying(w) \cup Honest(w, h) ELSE Honest(w, h)

Reading(a) == pass.pc = "read" /\ a \in pass.todo
Note(a, v) ==
  LET left == pass.todo \ {a}
  IN  pass' = [pass EXCEPT !.seen[a] = v, !.todo = left, !.pc = IF left = {} THEN "apply" ELSE "read"]
Halt(result) == pass' = [pass EXCEPT !.halt = result, !.todo = {}, !.pc = "apply"]

(* Wrong variant: the primary provider is believed alone. *)
PrimaryAgrees(p, f) == TRUE

(* Both providers show the same receipt, in the same place. *)
Agree(p, f) == p.of = f.of /\ p.kind = f.kind

(* Base asks two providers.  An attempt that either of them has no receipt  *)
(* for is left out; one they disagree on, cannot place or see reorganised   *)
(* ends the pass, and with it go the facts read so far.                     *)
ReadBase(a) ==
  /\ chainId = "base" /\ Reading(a)
  /\ \E p \in Shown("primary", a[1], a[2]), f \in Shown("fallback", a[1], a[2]) :
       /\ Charge(IF {p, f} = {TrueView(a[1], a[2])} THEN 0 ELSE 1)
       /\ IF NoView \in {p, f} THEN Note(a, NoView)
          ELSE IF ~Agree(p, f) \/ p.kind = "unproven" THEN Halt("unknown")
          ELSE IF p.kind = "reorged" THEN Halt("reorged") ELSE Note(a, p)
  /\ UNCHANGED <<money, notes>>

(* Robinhood asks one, about every attempt. *)
ReadRobinhood(a) ==
  /\ chainId = "robinhood" /\ Reading(a)
  /\ \E v \in Honest(a[1], a[2]) : Charge(IF v = TrueView(a[1], a[2]) THEN 0 ELSE 1) /\ Note(a, v)
  /\ UNCHANGED <<money, notes>>

-----------------------------------------------------------------------------
(* The pass: what it makes of it *)

Seeing(kinds) == {a \in Attempts : pass.seen[a].kind \in kinds}
Good(w, v) == fate[w][v.of].ok
Reverted(a) == pass.seen[a].kind = "final" /\ ~Good(a[1], pass.seen[a])

Weakest(S) == IF \E a \in S : pass.seen[a].kind = "soft" THEN "soft"
              ELSE IF \E a \in S : pass.seen[a].kind = "posted" THEN "posted" ELSE "final"

(* The attempts that give a receipt to store. *)
FactAttempts ==
  IF pass.halt # "no" THEN {} ELSE IF chainId = "base" THEN Seeing(Stages) ELSE Seeing({"final", "reorged"})

BaseResult ==
  IF pass.halt # "no" THEN pass.halt
  ELSE IF FactAttempts = {} THEN "unknown"
  ELSE IF \E a \in FactAttempts : Reverted(a) THEN "failed" ELSE Weakest(FactAttempts)

(* Without a receipt an attempt is missing, unless its rival was mined. *)
Replaced == {a \in Seeing({"none"}) : \E b \in Attempts : b[1] = a[1] /\ pass.seen[b].kind # "none"}
Missing == Seeing({"unproven"}) \cup (Seeing({"none"}) \ Replaced)

RobinhoodResult ==
  IF Missing # {} THEN "unknown"
  ELSE IF Seeing({"reorged"}) # {} THEN IF Seeing({"reorged"}) = Attempts \ Replaced THEN "reorged" ELSE "unknown"
  ELSE IF Seeing({"soft", "posted"}) # {} THEN Weakest(Seeing({"soft", "posted"}))
  ELSE IF \E a \in Attempts : Reverted(a) THEN "failed" ELSE "final"

Result == IF chainId = "base" THEN BaseResult ELSE RobinhoodResult

FactsOf(w) == {pass.seen[a] : a \in {b \in FactAttempts : b[1] = w}}
NewOf(w, h) ==
  IF <<w, h>> \in FactAttempts /\ pass.seen[<<w, h>>] \notin receipts[w] THEN <<pass.seen[<<w, h>>]>> ELSE <<>>

(* The receipts not stored yet, in the order of the attempts. *)
New(w) == NewOf(w, 1) \o NewOf(w, 2)

(* assertReconciliationCoherence; FALSE stands for its throw. *)
Coherent ==
  /\ Result \in {"final", "reorged"} => \A w \in Wallets : FactsOf(w) # {}
  /\ Result = "reorged" => FactAttempts = Seeing({"reorged"})

(* receiptAuthorizesSettlement on these chains. *)
Authorizes(r) == r.kind = "final"

Settling(w) == resv[w] = "reserved" /\ \E r \in FactsOf(w) : Authorizes(r)

(* The state a stored receipt asks of its execution, and the state trigger. *)
Target(w, r) ==
  CASE r.kind \in {"soft", "posted"} -> "submitted"
    [] r.kind = "reorged" -> "reorged"
    [] OTHER -> IF Good(w, r) THEN "confirmed" ELSE "failed"
MayMove(old, new) ==
  \/ old = new
  \/ old = "signed" /\ new \in {"submitted", "failed"}
  \/ old = "submitted" /\ new \in {"confirmed", "reorged", "failed"}
  \/ old = "confirmed" /\ new = "reorged"
  \/ old = "reorged" /\ new \in {"submitted", "failed"}

MayStore(w) ==
  \A i \in DOMAIN New(w) : MayMove(IF i = 1 THEN exec[w] ELSE Target(w, New(w)[i - 1]), Target(w, New(w)[i]))

(* The trigger on confirmed receipts: only while the chain is enabled. *)
MayRecord(w) == \A i \in DOMAIN New(w) : Final(New(w)[i]) /\ Good(w, New(w)[i]) => enabled

(* The trigger on settlements: the receipt observed last is a final or a    *)
(* reorganised one.  The receipt that settles comes with its settlement, so *)
(* it is among the new ones.                                                *)
MaySettle(w) == Settling(w) => New(w) # <<>> /\ New(w)[Len(New(w))].kind \in {"final", "reorged"}

RunAfter ==
  IF run = "Aborted" THEN run
  ELSE IF Result = "final" /\ run = "Active" THEN "Completed"
  ELSE IF Result \in {"failed", "reorged"} THEN "Failed" ELSE run

ReadBack == CASE Result \in {"final", "reorged"} -> Result
              [] Result \in {"soft", "posted"} -> "confirmed"
              [] OTHER -> "unknown"

Accepted == Coherent /\ \A w \in Wallets : MayStore(w) /\ MayRecord(w) /\ MaySettle(w)

Reportable(stored) ==
  IF chainId = "base" THEN {}
  ELSE UNION {{w} \X {r \in stored[w] \ marked[w] : Final(r)} : w \in Wallets}
Reporting(todo) == IF todo = {} THEN Idle ELSE [Idle EXCEPT !.pc = "report", !.report = todo]

(* The transaction that applies the pass.  An incoherent result, or a       *)
(* trigger that refuses one row, throws: nothing is stored and the pass     *)
(* ends.                                                                    *)
Apply ==
  /\ pass.pc = "apply" /\ Accepted
  /\ exec' = [w \in Wallets |-> IF New(w) = <<>> THEN exec[w] ELSE Target(w, New(w)[Len(New(w))])]
  /\ receipts' = [w \in Wallets |-> receipts[w] \cup {New(w)[i] : i \in DOMAIN New(w)}]
  /\ resv' = [w \in Wallets |-> IF Settling(w) THEN "settled" ELSE resv[w]]
  /\ paid' = [w \in Wallets |-> IF Settling(w) THEN (CHOOSE r \in FactsOf(w) : Authorizes(r)).of ELSE paid[w]]
  /\ run' = RunAfter /\ recon' = ReadBack
  /\ pass' = Reporting(Reportable(receipts'))
  /\ UNCHANGED <<faults, notes>>

ApplyThrows ==
  /\ pass.pc = "apply" /\ ~Accepted
  /\ pass' = Idle
  /\ UNCHANGED <<faults, money, notes>>

(* On Robinhood the owner is told of every final receipt, and the report is *)
(* then marked; either may fail, and the next pass tries again.             *)
Report(x) ==
  /\ pass.pc = "report" /\ x \in pass.report
  /\ \/ Fault /\ UNCHANGED notes
     \/ Fault /\ told' = [told EXCEPT ![x[1]] = @ \cup {x[2]}] /\ UNCHANGED marked
     \/ /\ told' = [told EXCEPT ![x[1]] = @ \cup {x[2]}] /\ marked' = [marked EXCEPT ![x[1]] = @ \cup {x[2]}]
        /\ UNCHANGED faults
  /\ pass' = Reporting(pass.report \ {x})
  /\ UNCHANGED money

-----------------------------------------------------------------------------
(* A pass changes the store, and nothing of the chain. *)
Reconcile ==
  /\ UNCHANGED <<fixed, blocks, enabled>>
  /\ \/ StartPass \/ Apply \/ ApplyThrows
     \/ \E a \in pass.todo : ReadBase(a) \/ ReadRobinhood(a)
     \/ \E x \in pass.report : Report(x)

Next ==
  \/ \E w \in Wallets : Mine(w) \/ Advance(w) \/ Orphan(w)
  \/ Revoke \/ Enable \/ Kill \/ Crash
  \/ Reconcile

(* Passes are started by a timer, and what a pass awaits returns.  The timer  *)
(* rests while the kill switch is on (service-orchestrator.ts:212), as it is *)
(* for as long as a run it aborted is unresolved; the passes over such a run *)
(* are the owner's, whom the release tells to "run reconcile and wait until  *)
(* they settle" (kill-switch-release.ts:33).                                 *)
Spec == Init /\ [][Next]_vars /\ WF_vars(Reconcile)

-----------------------------------------------------------------------------
(* Properties *)

IsFinal(w) == included[w] /\ stage[w] = "final"

(* Money is settled only for the inclusion that is final on Ethereum, at    *)
(* that inclusion's amount, although providers lag, one of Base's two lies, *)
(* and blocks are reorganised under the pass (coordinator.ts:17-22, 399-417;*)
(* engine-adapter.ts:443-500).                                              *)
SettledIsFinal == \A w \in Wallets : resv[w] = "settled" => IsFinal(w) /\ paid[w] = at[w]

(* A run is Completed only when every wallet's transaction succeeded, is    *)
(* final and is paid for: no wallet is left behind by the verdict on the    *)
(* others (coordinator.ts:353-361, 435-446).                                *)
CompletedIsSettled ==
  run = "Completed" => \A w \in Wallets : resv[w] = "settled" /\ fate[w][at[w]].ok

(* The owner is told of a finality only if it is there, and a report is     *)
(* marked only after the owner was told (coordinator.ts:365-384).           *)
ReportsAreTrue ==
  \A w \in Wallets : marked[w] \subseteq told[w] /\ \A r \in told[w] : Final(r) /\ IsFinal(w) /\ r.of = at[w]

(* A stored receipt says what has become of the execution: a confirmed one  *)
(* is paid for, and a receipt that is final is never overtaken by news of a *)
(* reorganisation (018, 021, 028; 012:48-62).                               *)
StoredIsPaid ==
  \A w \in Wallets : \A r \in receipts[w] : Final(r) => resv[w] = "settled" /\ r.of = at[w]

Safety == TypeOK /\ SettledIsFinal /\ CompletedIsSettled /\ ReportsAreTrue /\ StoredIsPaid

(* Nothing in the way of a settlement: every transaction is final, and no   *)
(* execution is in a state that the trigger refuses to confirm.             *)
Settleable ==
  /\ run # "Failed"
  /\ \A w \in Wallets : IsFinal(w) /\ exec[w] \in {"submitted", "confirmed", "failed"}

Done == \A w \in Wallets : resv[w] = "settled" /\ (chainId = "robinhood" => Unreported(w) = {})

(* Once the transactions are final and the chain stays enabled, the passes  *)
(* settle every wallet and report every finality, whatever failed or        *)
(* crashed before; of a run that a kill aborted too, if the owner keeps     *)
(* asking for passes (coordinator.ts:320-386).                              *)
FinalSettles == <>[](Settleable /\ enabled) => <>Done

(* Revoking a chain's enablement leaves the runs in flight to be settled    *)
(* (base-enable.ts:54, robinhood-enable.ts:138: "Runs already in flight are *)
(* not undone; new ones are refused.").                                     *)
RevokedSettles == <>[]Settleable => <>Done
=============================================================================
