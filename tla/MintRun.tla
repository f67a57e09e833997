------------------------------ MODULE MintRun ------------------------------
(***************************************************************************)
(* One live run of the mint engine (MintEngine.execute, executeFleet), from *)
(* the policy checks to the broadcast: the drop is read, the signer loaded, *)
(* every wallet simulated and admitted under the run's caps, and then the   *)
(* wallets of the fleet go side by side through the re-check of the drop,   *)
(* the admission gate, the reservation and the signature.                   *)
(*                                                                          *)
(* The drop's owner may edit it at any time; a node may answer with the     *)
(* state before the last edit.  Amounts are small units, one unit of fee    *)
(* per unit of gas at the first fee.  What happens after a broadcast is     *)
(* ExecutionControl's and NonceLadder's.                                    *)
(***************************************************************************)
EXTENDS PolicySigning, FiniteSetsExt

CONSTANTS
  Setups,        \* configurations of a run
  Gas,           \* padded gas estimate of each wallet of the fleet
  Offset,        \* start offset of each wallet's fire lane
  FirstFee, Ceiling,   \* max fee per gas: first, and of the last replacement
  WalletCap, PeriodCap, RunValueCap,  \* free reserve per wallet and run, paid value per run
  Quantity, PaidLimit, \* tokens per wallet, and the configured limit of paid ones
  Fresh,         \* simulationFreshnessMs
  Reuse, Timeout,\* DROP_RECHECK_REUSE_MS, DROP_RECHECK_TIMEOUT_MS
  ArmBefore, GrantUntil,
  DropStates,    \* what the owner may turn the drop into
  MaxEdits       \* bound: edits

Fleet == DOMAIN Gas

ASSUME MintAssumption ==
  /\ {Reuse, Timeout, FirstFee, Ceiling, WalletCap, PeriodCap, RunValueCap, Quantity} \subseteq Nat
  /\ Reuse < Timeout /\ FirstFee <= Ceiling /\ WalletCap <= PeriodCap
  /\ Gas \in Seq(Nat) /\ DOMAIN Offset = Fleet
  /\ \A d \in DropStates : d.price \in Nat

ASSUME SetupAssumption ==
  \A s \in Setups :
    /\ s.chain \in {"ethereum", "base", "robinhood"}
    /\ s.custody \in {"local", "files", "catalog", "bundle"}
    /\ s.wanted \in Digests \union {NoRecord}
    /\ s.drop \in DropStates /\ {s.select, s.replace} \subseteq BOOLEAN
    /\ s.files = NoFiles \/ s.files \in Bundles

VARIABLES
  killed,
  drops,     \* the states of the drop on the chain, the current one last
  run,       \* phase, approved drop reading, admitted wallets, start of the fleet
  sim,       \* when each wallet's simulation succeeded; -1: it did not
  pc,        \* where each wallet is
  read,      \* re-reads of the drop by the time they began
  asked,     \* the re-read each wallet waits for; -1: none
  latched,   \* when a re-read first reported a change; -1: none has
  gate,      \* the wallet inside the admission gate; 0: none
  reserved,  \* amount reserved for each wallet
  signed     \* what each wallet signed, and when it was asked for

policyVars == <<files, signer>>
recheckVars == <<read, asked, latched>>
walletVars == <<pc, gate, reserved, signed>>
vars == <<time, setup, policyVars, killed, drops, run, sim, recheckVars, walletVars>>

Times == 0 .. MaxTime
NoReading == [known |-> FALSE]
Unsigned == [at |-> -1]
Over == {"out", "sent", "skipped", "capped", "failed", "killed"}
Total(f, S) == MapThenSumSet(LAMBDA x : f[x], S)

Init ==
  /\ time = 0 /\ setup \in Setups /\ killed = FALSE
  /\ files = setup.files /\ signer = NoSigner
  /\ drops = <<setup.drop>>
  /\ run = [phase |-> "policy", drop |-> NoReading, admitted |-> {}, at |-> -1]
  /\ sim = [w \in Fleet |-> -1] /\ pc = [w \in Fleet |-> "out"]
  /\ read = [t \in Times |-> "none"] /\ asked = [w \in Fleet |-> -1] /\ latched = -1
  /\ gate = 0 /\ reserved = [w \in Fleet |-> 0] /\ signed = [w \in Fleet |-> Unsigned]

-----------------------------------------------------------------------------
(* Prices, fees and caps                                                   *)

Price == run.drop.price * Quantity
Free == Price = 0

\* assertDirectChainExecutionPolicy: L2 chains need the owner's current grant, and
\* a paid mint there a grant that allows paid mints.
ChainPolicy(price) ==
  setup.chain # "ethereum" => time < GrantUntil /\ (price > 0 => setup.paidGrant)

\* Charges besides execution gas: Robinhood's data gas, Base's quoted bound.
Extra(w, fee) ==
  CASE setup.chain = "ethereum" -> 0
    [] setup.chain = "base" -> 1
    [] setup.chain = "robinhood" -> ((Gas[w] + 15) \div 16) * fee

\* The preflight sizes a reserve at the first fee and knows Base's bound as 0;
\* the reservation is sized at the ceiling fee.
Preflight(w) == Gas[w] * FirstFee + (IF setup.chain = "base" THEN 0 ELSE Extra(w, FirstFee))
ReserveFee   == IF setup.replace THEN Ceiling ELSE FirstFee
WorstGas(w)  == Gas[w] * ReserveFee
Reserve(w)   == WorstGas(w) + Extra(w, ReserveFee)

\* Signed worst case: value and gas at the fee the first attempt carries.
Tx(w) ==
  [chain |-> setup.chain, call |-> setup.strategy, from |-> signer.wallets[w], price |-> Price,
   quantity |-> Quantity, gas |-> Gas[w], fee |-> FirstFee,
   recipient |-> run.drop.recipient, root |-> run.drop.root]

-----------------------------------------------------------------------------
(* Reading the drop                                                        *)

\* resolveSeaDropFeeRecipient: the collector, unless the drop restricts recipients and
\* its list could be read.
Recipients(d) == {Collector} \union (IF d.restricted THEN d.fees ELSE {})

\* A node shows the current state of the drop, or the one before the last edit.
Views == {drops[i] : i \in {n \in DOMAIN drops : n + 1 >= Len(drops)}}

\* What a node answers: supply and allowed recipients are optional reads.
Reading(d, r, known) ==
  [price |-> d.price, limit |-> d.limit, start |-> d.start, end |-> d.end, root |-> d.root,
   restricted |-> d.restricted, feeBps |-> d.feeBps, supply |-> d.supply, recipient |-> r, soldOut |-> known /\ d.soldOut, known |-> known]
Readings == UNION {{Reading(d, r, known) : r \in Recipients(d), known \in BOOLEAN} : d \in Views}

\* validateDrop; an allowlist stage must also have started.
Valid(r) ==
  /\ r.end = 0 \/ time <= r.end
  /\ ~r.soldOut
  /\ setup.strategy = "allowlist" => r.start <= time

\* describeDropChange: the recipient and what has been minted so far do not count, the
\* largest supply only where both readings know it.
Changed(r) ==
  \/ \E f \in {"price", "limit", "start", "end", "root", "restricted", "feeBps"} : r[f] # run.drop[f]
  \/ r.known /\ run.drop.known /\ r.supply # run.drop.supply
  \/ ~Valid(r)

-----------------------------------------------------------------------------
(* execute, up to the fleet                                                *)

Ended(phase) == run' = [run EXCEPT !.phase = phase] /\ signer' = Zeroized

\* A phase throws: the job fails and the keys are dropped.
Throw == Ended("failed") /\ UNCHANGED files

InPhase(p) == run.phase = p /\ ~killed
Advance(p) == run' = [run EXCEPT !.phase = p]
UnchangedSetup == UNCHANGED <<time, setup, killed, drops, recheckVars, walletVars>>

\* Any phase may throw: checkKill between its steps, an estimate or a read that fails,
\* an exposure that validateFreeMintSpend or validatePaidGasExposure refuses.
StopPrepared ==
  /\ run.phase \in {"drop", "load", "simulate", "admit", "broadcaster"}
  /\ Throw
  /\ UnchangedSetup /\ UNCHANGED sim

CheckPolicy ==
  /\ run.phase = "policy"
  /\ IF ChainPolicy(0) THEN Advance("drop") /\ UNCHANGED policyVars ELSE Throw
  /\ UnchangedSetup /\ UNCHANGED sim

ReadDrop ==
  /\ InPhase("drop")
  /\ \E r \in Readings :
       IF /\ Valid(r) /\ ChainPolicy(r.price * Quantity)
          /\ r.start <= time + ArmBefore
       THEN run' = [run EXCEPT !.phase = "load", !.drop = r] /\ UNCHANGED policyVars
       ELSE Throw
  /\ UnchangedSetup /\ UNCHANGED sim

LoadWallets ==
  /\ InPhase("load") /\ LoadSigner
  /\ UNCHANGED <<killed, drops, run, sim, recheckVars, walletVars>>

\* selectFleetWallets: the wallets found must be the ones the owner approved.
FleetSelected == setup.select => signer.wallets = setup.expected

\* assertBaseProviderAgreement: both Base providers name the chain, one final block and
\* the same nonce of every wallet.
ProvidersAgree(agree) == setup.chain = "base" => agree

\* A paid mint stays within the contract's and the configured limit per wallet.
PaidQuantityOk == ~Free => Quantity <= run.drop.limit /\ Quantity <= PaidLimit

SelectFleet ==
  /\ run.phase = "load" /\ signer.pc \in {"ready", "refused"}
  /\ \E agree \in BOOLEAN :
       IF signer.pc = "ready" /\ FleetSelected /\ ProvidersAgree(agree) /\ PaidQuantityOk
       THEN Advance("simulate") /\ UNCHANGED policyVars
       ELSE Throw
  /\ UnchangedSetup /\ UNCHANGED sim

\* The wallets are simulated one after the other; a revert is not an error.
Simulate ==
  /\ InPhase("simulate")
  /\ \E w \in Fleet, ok \in BOOLEAN :
       /\ \A v \in Fleet : pc[v] = "simulated" <=> v < w
       /\ pc' = [pc EXCEPT ![w] = "simulated"]
       /\ sim' = [sim EXCEPT ![w] = IF ok THEN time ELSE -1]
       /\ run' = [run EXCEPT !.phase = IF w = Cardinality(Fleet) THEN "admit" ELSE "simulate"]
  /\ UNCHANGED <<time, setup, policyVars, killed, drops, recheckVars, gate, reserved, signed>>

\* Mutant: compares what was admitted before with the caps.
FitsBefore(w, S) ==
  IF Free THEN Preflight(w) <= WalletCap /\ Total([v \in Fleet |-> Preflight(v)], S) <= PeriodCap
          ELSE Price * Cardinality(S) <= RunValueCap
\* A wallet joins if it was simulated, has the funds and leaves the run's caps whole.
Fits(w, S) ==
  IF Free
  THEN Preflight(w) <= WalletCap /\ Total([v \in Fleet |-> Preflight(v)], S) + Preflight(w) <= PeriodCap
  ELSE Price * Cardinality(S) + Price <= RunValueCap

\* validateFeeBudget refuses a budget of nothing.
BudgetOk == FirstFee > 0 /\ Gas[1] > 0

\* The wallets are taken in the order of the fleet, each with those admitted before it.
Admitted(S, funded) ==
  \A w \in Fleet : w \in S <=> sim[w] >= 0 /\ w \in funded /\ Fits(w, S \intersect 1 .. w - 1)

\* A simulated wallet the caps turn away; a paid one is asked for its funds first.
Capped(w, S, funded) ==
  sim[w] >= 0 /\ (Free \/ w \in funded) /\ ~Fits(w, S \intersect 1 .. w - 1)

Admit ==
  /\ InPhase("admit")
  /\ \E funded, S \in SUBSET Fleet :
       /\ Admitted(S, funded)
       /\ IF S = {} \/ ~BudgetOk THEN Throw /\ UNCHANGED pc
          ELSE /\ run' = [run EXCEPT !.phase = "broadcaster", !.admitted = S]
               /\ pc' = [w \in Fleet |-> IF w \in S THEN "idle"
                                         ELSE IF Capped(w, S, funded) THEN "capped" ELSE "skipped"]
               /\ UNCHANGED policyVars
  /\ UNCHANGED <<time, setup, killed, drops, recheckVars, sim, gate, reserved, signed>>

\* On Base both providers must agree again; an L2 profile needs the current grant.
CreateBroadcaster ==
  /\ InPhase("broadcaster")
  /\ \E agree \in BOOLEAN :
       IF ChainPolicy(Price) /\ ProvidersAgree(agree)
       THEN run' = [run EXCEPT !.phase = "fleet", !.at = time] /\ UNCHANGED policyVars
       ELSE Throw
  /\ UnchangedSetup /\ UNCHANGED sim

\* Every wallet has its result: the job is complete and the keys are dropped.
Complete ==
  /\ run.phase = "fleet" /\ \A w \in Fleet : pc[w] \in Over
  /\ Ended("done")
  /\ UnchangedSetup /\ UNCHANGED <<files, sim>>

-----------------------------------------------------------------------------
(* executeFleet: one wallet                                                *)

UnchangedRun == UNCHANGED <<time, setup, policyVars, killed, drops, run, sim>>
Goes(w, p) == pc' = [pc EXCEPT ![w] = p]

\* Mutant: the gate is left only after a broadcast.
FailsInside(w) ==
  /\ Goes(w, "failed") /\ UNCHANGED gate
  /\ reserved' = [reserved EXCEPT ![w] = 0]
\* The catch block: the gate is left and what was reserved is given back.
Fails(w) ==
  /\ Goes(w, "failed")
  /\ gate' = IF gate = w THEN 0 ELSE gate
  /\ reserved' = [reserved EXCEPT ![w] = 0]

\* The read a wallet shares: the newest one while it is young enough.
Newest == CHOOSE t \in Times \union {-1} :
            /\ t # -1 => read[t] # "none"
            /\ \A u \in Times : u > t => read[u] = "none"
Shares == Newest >= 0 /\ time - Newest <= Reuse

\* Mutant: the change an earlier read saw is forgotten.
BegunAnew == "pending"
\* A read begun after a change was seen reports it without asking the chain.
Begun == IF latched >= 0 THEN "changed" ELSE "pending"

\* A lane's offset has passed (at the last clock step every lane has).
LaneOpen(w) == time >= run.at + Offset[w] \/ time = MaxTime

StartLane(w) ==
  /\ run.phase = "fleet" /\ pc[w] = "idle" /\ LaneOpen(w)
  /\ IF killed THEN Goes(w, "killed") /\ UNCHANGED <<read, asked>>
     ELSE IF ~ChainPolicy(Price) THEN Goes(w, "failed") /\ UNCHANGED <<read, asked>>
     ELSE /\ Goes(w, "recheck")
          /\ asked' = [asked EXCEPT ![w] = IF Shares THEN Newest ELSE time]
          /\ read' = IF Shares THEN read ELSE [read EXCEPT ![time] = Begun]
  /\ UnchangedRun /\ UNCHANGED <<latched, gate, reserved, signed>>

\* A failed or partial re-read is "unknown"; it stops an allowlist run only.
Unknown == IF setup.strategy = "allowlist" THEN "changed" ELSE "unknown"
Verdict(r) ==
  IF r.known # run.drop.known THEN Unknown
  ELSE IF Changed(r) THEN "changed" ELSE "same"

Reread(t, verdict) ==
  /\ read' = [read EXCEPT ![t] = verdict]
  /\ latched' = IF verdict = "changed" /\ latched = -1 THEN time ELSE latched
  /\ UnchangedRun /\ UNCHANGED <<asked, walletVars>>
RereadAnswers(t) ==
  /\ read[t] = "pending" /\ time - t <= Timeout
  /\ \E r \in Readings : Reread(t, Verdict(r))
RereadFails(t) == read[t] = "pending" /\ Reread(t, Unknown)

FreshSimulation(w) == sim[w] >= 0 /\ time - sim[w] <= Fresh

\* Unless the drop changed, the transaction is built and its intent stored.
Prepare(w) ==
  /\ pc[w] = "recheck" /\ read[asked[w]] # "pending"
  /\ IF read[asked[w]] = "changed" THEN Goes(w, "skipped")
     ELSE IF (Free => Reserve(w) <= WalletCap) /\ FreshSimulation(w) /\ ~killed
          THEN Goes(w, "gate")
          ELSE Goes(w, "failed")
  /\ UnchangedRun /\ UNCHANGED <<recheckVars, gate, reserved, signed>>

\* The gate lets one wallet at a time reserve, sign and broadcast.
EnterGate(w) ==
  /\ pc[w] = "gate" /\ gate = 0
  /\ \/ /\ ~killed
        /\ Goes(w, "reserved") /\ gate' = w
        /\ reserved' = [reserved EXCEPT ![w] = Price + Reserve(w)]
     \/ Fails(w)  \* killed, or the ledger refused
  /\ UnchangedRun /\ UNCHANGED <<recheckVars, signed>>

RequestSignature(w) ==
  /\ pc[w] = "reserved"
  /\ IF ~killed /\ MaySign(Tx(w), run.drop.recipient)
     THEN /\ Goes(w, IF Family THEN "authority" ELSE "signing")
          /\ signed' = [signed EXCEPT ![w] = [at |-> time]]
          /\ UNCHANGED <<gate, reserved>>
     ELSE Fails(w) /\ UNCHANGED signed
  /\ UnchangedRun /\ UNCHANGED recheckVars

\* Two independent providers, one common block a little behind the head.
CheckAuthority(w) ==
  /\ pc[w] = "authority"
  /\ \E view \in Views, agree \in BOOLEAN :
       IF agree /\ AuthorityHolds(view, Tx(w))
       THEN Goes(w, "ready") /\ UNCHANGED <<gate, reserved>>
       ELSE Fails(w)
  /\ UnchangedRun /\ UNCHANGED <<recheckVars, signed>>

\* assertReady of the engine, then the policy record once more.
StillReady(w) ==
  /\ ~killed /\ FreshSimulation(w) /\ ChainPolicy(Price)
  /\ Current(signer.record)
ConfirmReady(w) ==
  /\ pc[w] = "ready"
  /\ \/ StillReady(w) /\ Goes(w, "signing") /\ signed' = [signed EXCEPT ![w].at = time]
        /\ UNCHANGED <<gate, reserved>>
     \/ Fails(w) /\ UNCHANGED signed  \* or the reservation is no longer the one asked for
  /\ UnchangedRun /\ UNCHANGED recheckVars

\* The provider answers with some signed transaction, or with an error.
ProviderSigns(w) ==
  /\ pc[w] = "signing"
  /\ \E key \in Range(signer.wallets), tx \in {Tx(v) : v \in Fleet} :
       IF /\ ~killed /\ AnswerMatches([key |-> key, tx |-> tx], Tx(w))
          /\ setup.custody # "local" => ProviderAllows(tx)
       THEN /\ Goes(w, "signed")
            /\ signed' = [signed EXCEPT ![w] = [at |-> @.at, key |-> key, tx |-> tx]]
            /\ UNCHANGED <<gate, reserved>>
       ELSE Fails(w) /\ UNCHANGED signed
  /\ UnchangedRun /\ UNCHANGED recheckVars

\* The signed transaction is stored, the kill looked at again, and then it is sent.
Broadcast(w) ==
  /\ pc[w] = "signed"
  /\ \/ ~killed /\ Goes(w, "sent") /\ gate' = 0 /\ UNCHANGED reserved
     \/ Fails(w)  \* killed, or the store failed
  /\ UnchangedRun /\ UNCHANGED <<recheckVars, signed>>

-----------------------------------------------------------------------------
(* The world around a run                                                  *)

Tick == /\ time < MaxTime /\ time' = time + 1
        /\ UNCHANGED <<setup, policyVars, killed, drops, run, sim, recheckVars, walletVars>>
Kill == /\ ~killed /\ killed' = TRUE
        /\ UNCHANGED <<time, setup, policyVars, drops, run, sim, recheckVars, walletVars>>
EditDrop ==
  /\ Len(drops) <= MaxEdits /\ run.phase \notin {"done", "failed"}
  /\ \E d \in DropStates : d # drops[Len(drops)] /\ drops' = Append(drops, d)
  /\ UNCHANGED <<time, setup, policyVars, killed, run, sim, recheckVars, walletVars>>
OwnerWrites ==
  /\ run.phase = "load" /\ (ReplaceFile \/ InstallBundle)
  /\ UNCHANGED <<killed, drops, run, sim, recheckVars, walletVars>>

Environment == Tick \/ Kill \/ EditDrop \/ OwnerWrites
Preparation ==
  \/ StopPrepared \/ CheckPolicy \/ ReadDrop \/ LoadWallets \/ SelectFleet
  \/ Simulate \/ Admit \/ CreateBroadcaster \/ Complete
Wallet(w) ==
  \/ StartLane(w) \/ Prepare(w) \/ EnterGate(w) \/ RequestSignature(w)
  \/ CheckAuthority(w) \/ ConfirmReady(w) \/ ProviderSigns(w) \/ Broadcast(w)
Rereads == \E t \in Times : RereadAnswers(t) \/ RereadFails(t)
Finished == run.phase \in {"done", "failed"} /\ UNCHANGED vars

Next == Environment \/ Preparation \/ (\E w \in Fleet : Wallet(w)) \/ Rereads \/ Finished

Spec ==
  /\ Init /\ [][Next]_vars
  /\ WF_vars(Tick) /\ WF_vars(Preparation) /\ WF_vars(Rereads)
  /\ \A w \in Fleet : WF_vars(Wallet(w))

-----------------------------------------------------------------------------
TypeOK ==
  /\ time \in Times /\ setup \in Setups /\ killed \in BOOLEAN
  /\ files.active \in Digests \union {NoRecord} /\ files.catalog \subseteq Digests
  /\ signer.pc \in {"none", "map", "active", "ready", "refused", "zeroized"}
  /\ signer.record \in Digests \union {NoRecord}
  /\ run.phase \in {"policy", "drop", "load", "simulate", "admit", "broadcaster", "fleet", "done", "failed"}
  /\ run.admitted \subseteq Fleet /\ run.at \in Times \union {-1}
  /\ sim \in [Fleet -> Times \union {-1}]
  /\ pc \in [Fleet -> Over \union {"simulated", "idle", "recheck", "gate", "reserved", "authority",
                                    "ready", "signing", "signed"}]
  /\ read \in [Times -> {"none", "pending", "same", "changed", "unknown"}]
  /\ asked \in [Fleet -> Times \union {-1}] /\ latched \in Times \union {-1}
  /\ gate \in Fleet \union {0} /\ reserved \in [Fleet -> Nat]

\* Whatever files the owner replaces while they are read one by one, a signer that
\* loads has the wallets of its record, and the record is the campaign's.
SignerIsBound ==
  signer.pc = "ready" /\ setup.custody # "local" =>
    /\ signer.wallets = PolicyRecord[signer.record].wallets
    /\ setup.wanted # NoRecord => signer.record = setup.wanted

HasSigned(w) == pc[w] \in {"signed", "sent"}

\* What was signed was reserved in full, the ceiling of its replacements included,
\* by the key the owner approved for that place in the fleet, under a record that
\* was current when the signature was asked for; for a family record the
\* simulation and the chain's grant were current then too, and the recipient was
\* one the drop really had.
SignedAsApproved ==
  \A w \in Fleet : HasSigned(w) =>
    LET s == signed[w] IN
    /\ reserved[w] >= s.tx.price + s.tx.gas * ReserveFee
    /\ s.key = s.tx.from /\ s.tx.recipient = run.drop.recipient
    /\ setup.select => s.key = setup.expected[w]
    /\ signer.record # NoRecord =>
         /\ PolicyRecord[signer.record].issuedAt <= s.at /\ s.at < PolicyRecord[signer.record].expiresAt
         /\ s.tx.price = 0
    /\ run.phase = "fleet" /\ Family =>
         /\ s.at - sim[w] <= Fresh
         /\ setup.chain # "ethereum" => s.at < GrantUntil
         /\ \E i \in DOMAIN drops : RecipientAllowed(drops[i], s.tx)
    /\ \A v \in Fleet \ {w} : pc[w] = "signed" => pc[v] \notin {"reserved", "authority", "ready", "signing", "signed"}

\* Money is reserved only for admitted wallets whose simulation succeeded, and all of it
\* together stays within the run's cap: what is reserved at the ceiling fee, brought
\* back to the first fee, with Base's bound on top for each wallet (the cap itself is
\* compared with first-fee amounts alone and may be exceeded by those two).  No free
\* mint reserves more than a wallet may, and a wallet is turned away for a cap only
\* when it does not fit with those admitted before it: one that was skipped uses up
\* nothing.
SpendWithinCaps ==
  run.phase = "fleet" =>
    /\ \A w \in Fleet : reserved[w] > 0 => w \in run.admitted /\ sim[w] >= 0
    /\ \A w \in Fleet : pc[w] = "capped" => ~Fits(w, {v \in run.admitted : v < w})
    /\ IF Free
       THEN /\ \A w \in Fleet : reserved[w] <= WalletCap
            /\ FirstFee * Total(reserved, run.admitted)
                 <= ReserveFee * PeriodCap
                    + (IF setup.chain = "base" THEN FirstFee ELSE 0) * Cardinality(run.admitted)
       ELSE Price * Cardinality(run.admitted) <= RunValueCap

Safety == TypeOK /\ SignerIsBound /\ SignedAsApproved

\* Once a re-read has reported a change, no wallet whose own re-read begins later is
\* signed for, even when the chain shows the old drop again.
StaysStopped ==
  \A w \in Fleet : latched >= 0 /\ asked[w] > latched =>
    pc[w] \in {"recheck", "skipped", "failed"}

\* Every run ends, with its keys dropped: no failure leaves the gate shut behind it.
RunEnds == <>(run.phase \in {"done", "failed"} /\ signer.pc = "zeroized")

=============================================================================
