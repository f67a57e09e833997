----------------------------- MODULE LiveGates -----------------------------
(***************************************************************************)
(* What must be true before a live mint may sign, and how the owner takes  *)
(* it away again: the owner's enablement records of Base and Robinhood     *)
(* (on Ethereum: the accepted chain evidence), the chain profile and fee   *)
(* policy that follow them, the test mints and readiness that expire, and  *)
(* the four gates of a run (arm, execute, admission, the pre-sign gate).   *)
(*                                                                         *)
(* The owner's commands run in processes of their own, so they interleave  *)
(* with a run between any two of its steps.  One chain per behaviour.      *)
(* Wallets stand for keys; amounts, digests and wording are left out.      *)
(***************************************************************************)
EXTENDS Integers, Sequences, FiniteSets

CONSTANTS
  Chains,      \* the chains a behaviour may be about
  Campaigns,   \* live campaigns, each run at most once
  Wallets,     \* the wallets of the fleet
  MaxRecords   \* bound: owner records written

ASSUME GatesAssumption ==
  /\ Chains \subseteq {"ethereum", "base", "robinhood"}
  /\ MaxRecords \in Nat \ {0}
  /\ IsFiniteSet(Wallets)

VARIABLES
  chain,     \* the chain this behaviour is about
  proven,    \* a live Ethereum mint is confirmed or imported
  records,   \* the owner's records, oldest first
  profile,   \* chain_profile.execution_enabled
  policy,    \* the active fee policy: "none", "free" or "paid"
  expected,  \* the record a confirmed revoke command has read; 0: none
  campaign,  \* the campaigns recorded
  sims,      \* the test mints of each campaign: none, fresh, approved or too old
  probe,     \* the operational readiness record is fresh
  run,       \* the stage of each campaign's run
  hold,      \* the reservation of each campaign and wallet
  tx         \* the transaction of each campaign and wallet

ownerVars == <<proven, records, profile, policy, expected>>
planVars  == <<campaign, sims, probe>>
runVars   == <<run, hold, tx>>
vars == <<chain, ownerVars, planVars, runVars>>

None == [evidence |-> 0, paid |-> FALSE, wallets |-> {}, quantity |-> 0]
Stages == {"none", "armed", "checked", "admitted", "engine", "over"}

\* Only the newest record counts; a revoked one counts as none.
Newest == Len(records)
L2 == chain # "ethereum"
NewestRevoked == Newest > 0 /\ records[Newest].standing = "revoked"

\* validRobinhoodEnablement / validBaseEnablement of the newest record.
Current == /\ Newest > 0
           /\ records[Newest].standing \in {"dated", "permanent"}

\* assertRobinhoodLiveAllowed / assertBaseLiveAllowed.
Allowed(paid) == Current /\ (paid => records[Newest].paid)

\* Mutant: evidence counts whenever the chain is on, whichever record wrote it.
EnabledOfAnyRecord(e) == profile /\ e \in DOMAIN records

\* readChainEvidence: evidence is enabled while the chain is on and the record
\* that wrote it is the newest unrevoked one.
Enabled(e) == profile /\ e = Newest /\ e > 0 /\ records[e].standing # "revoked"

\* assertLiveEvidence's test of the chain evidence a campaign names.
EvidenceLive(e) == Enabled(e) /\ records[e].standing # "expired"

TypeOK ==
  /\ chain \in Chains
  /\ proven \in BOOLEAN /\ profile \in BOOLEAN
  /\ records \in Seq([paid : BOOLEAN, standing : {"dated", "permanent", "expired", "revoked"}])
  /\ Len(records) <= MaxRecords
  /\ policy \in {"none", "free", "paid"}
  /\ expected \in 0 .. Newest
  /\ campaign \in [Campaigns -> {None} \union
        [evidence : 1 .. MaxRecords, paid : BOOLEAN, wallets : SUBSET Wallets, quantity : 1 .. 2]]
  /\ sims \in [Campaigns -> {"none", "fresh", "approved", "old"}]
  /\ probe \in BOOLEAN
  /\ run \in [Campaigns -> Stages]
  /\ hold \in [Campaigns -> [Wallets -> {"none", "reserved", "settled", "released"}]]
  /\ tx \in [Campaigns -> [Wallets ->
        {"none", "gated", "sent", "mined", "reverted", "final", "finalReverted", "refused"}]]

\* A database may hold one record of the time when records still expired.
Init ==
  /\ chain \in Chains
  /\ proven = FALSE
  /\ \/ records = <<>> /\ profile = FALSE
     \/ records = <<[paid |-> FALSE, standing |-> "dated"]>>
        /\ profile = TRUE
  /\ policy = "none" /\ expected = 0
  /\ campaign = [c \in Campaigns |-> None]
  /\ sims = [c \in Campaigns |-> "none"]
  /\ probe = FALSE
  /\ run = [c \in Campaigns |-> "none"]
  /\ hold = [c \in Campaigns |-> [w \in Wallets |-> "none"]]
  /\ tx = [c \in Campaigns |-> [w \in Wallets |-> "none"]]

-----------------------------------------------------------------------------
(* The owner's commands                                                    *)

\* ethereum-proof import, or a confirmed live run on Ethereum.
RecordProof ==
  /\ chain = "robinhood" /\ ~proven
  /\ proven' = TRUE
  /\ UNCHANGED <<chain, records, profile, policy, expected, planVars, runVars>>

\* enableRobinhood / enableBase in one transaction: the record, the verified
\* evidence it writes, the enabled profile and, when paid, the paid fee policy.
\* On Ethereum an accepted evidence record takes the place of the older ones.
Enable(paid, permanent) ==
  /\ Newest < MaxRecords
  /\ chain = "robinhood" => proven
  /\ L2 => permanent
  /\ ~L2 => ~paid
  /\ (chain = "base" /\ paid) => policy # "none"
  /\ records' = Append(records, [paid |-> paid,
                                 standing |-> IF permanent THEN "permanent" ELSE "dated"])
  /\ profile' = TRUE
  /\ policy' = IF paid THEN "paid" ELSE policy
  /\ UNCHANGED <<chain, proven, expected, planVars, runVars>>

\* `revoke --confirm`: the phrase must name the record that is current now.
RevokeBegin ==
  /\ expected = 0 /\ Current
  /\ expected' = Newest
  /\ UNCHANGED <<chain, proven, records, profile, policy, planVars, runVars>>

\* revokeEnablement's transaction on the record `e`: the revocation row, the paid
\* policy replaced by one without paid mints, the profile off.
Revoked(e) ==
  /\ records' = [records EXCEPT ![e].standing = "revoked"]
  /\ policy' = IF L2 /\ policy = "paid" THEN "free" ELSE policy
  /\ profile' = FALSE

\* The transaction refuses (NOTHING_TO_REVOKE, REVOCATION_RECORD_CHANGED) unless
\* the record read before is still the newest and not revoked.
RevokeCommit ==
  /\ expected > 0
  /\ expected' = 0
  /\ \/ /\ expected = Newest /\ ~NewestRevoked
        /\ Revoked(Newest)
     \/ /\ expected # Newest \/ NewestRevoked
        /\ UNCHANGED <<records, profile, policy>>
  /\ UNCHANGED <<chain, proven, planVars, runVars>>

\* A record with an end date reaches it.
Expire ==
  /\ Newest > 0 /\ records[Newest].standing = "dated"
  /\ records' = [records EXCEPT ![Newest].standing = "expired"]
  /\ UNCHANGED <<chain, proven, profile, policy, expected, planVars, runVars>>

\* The service tick: disableBaseIfNotEnabled / disableRobinhoodIfNotEnabled.
DisableIfNotEnabled ==
  /\ L2 /\ profile /\ ~Current
  /\ profile' = FALSE
  /\ UNCHANGED <<chain, proven, records, policy, expected, planVars, runVars>>

-----------------------------------------------------------------------------
(* Preparing a mint                                                        *)

\* createCampaign: the campaign names the evidence current when it is recorded.
\* ensureFeePolicy stores the chain's first fee policy.
Create(c, paid, W, q) ==
  /\ campaign[c] = None
  /\ EvidenceLive(Newest)
  /\ L2 /\ paid => Allowed(TRUE)
  /\ policy # "none" /\ paid => policy = "paid"
  /\ campaign' = [campaign EXCEPT ![c] =
        [evidence |-> Newest, paid |-> paid, wallets |-> W, quantity |-> q]]
  /\ policy' = IF policy = "none" THEN (IF paid THEN "paid" ELSE "free") ELSE policy
  /\ UNCHANGED <<chain, proven, records, profile, expected,
                 sims, probe, runVars>>

\* record-simulation: one passing test mint per wallet, good for half an hour.  A
\* new set needs a new approval, because the approval names the test mints.
RecordSimulations(c) ==
  /\ campaign[c] # None /\ run[c] = "none" /\ sims[c] \in {"none", "old"}
  /\ sims' = [sims EXCEPT ![c] = "fresh"]
  /\ UNCHANGED <<chain, ownerVars, campaign, probe, runVars>>

\* approve: the approval is of these wallets and these test mints.
Approve(c) ==
  /\ sims[c] = "fresh"
  /\ sims' = [sims EXCEPT ![c] = "approved"]
  /\ UNCHANGED <<chain, ownerVars, campaign, probe, runVars>>

\* PersonalLiveReadinessService.record: every probe passed and
\* the chain's evidence is accepted and unexpired.
RecordReadiness ==
  /\ ~probe /\ EvidenceLive(Newest)
  /\ probe' = TRUE
  /\ UNCHANGED <<chain, ownerVars, campaign, sims, runVars>>

\* Time passes: the readiness record and the test mints grow too old.
ReadinessAges ==
  /\ probe /\ probe' = FALSE
  /\ UNCHANGED <<chain, ownerVars, campaign, sims, runVars>>

SimulationsAge(c) ==
  /\ sims[c] \in {"fresh", "approved"}
  /\ sims' = [sims EXCEPT ![c] = "old"]
  /\ UNCHANGED <<chain, ownerVars, campaign, probe, runVars>>

-----------------------------------------------------------------------------
(* The gates of a run                                                      *)

\* assertLiveOperationalReadiness, of a fleet the readiness record covers.
Ready == probe

\* assertLiveEvidence: the campaign's own evidence and its test mints.
Evidenced(c) == EvidenceLive(campaign[c].evidence) /\ sims[c] = "approved"

Stage(c, s) == run' = [run EXCEPT ![c] = s]

\* The enablement arm asks for: Robinhood only for paid mints, Base for all.
ArmAllowed(c) ==
  CASE chain = "robinhood" -> campaign[c].paid => Allowed(TRUE)
    [] chain = "base"      -> Allowed(campaign[c].paid)
    [] OTHER               -> TRUE

\* arm, after its readiness refresh; nothing it asks for is granted in between.
Arm(c) ==
  /\ run[c] = "none"
  /\ Ready /\ Evidenced(c) /\ ArmAllowed(c)
  /\ Stage(c, "armed")
  /\ UNCHANGED <<chain, ownerVars, planVars, hold, tx>>

\* execute repeats arm's checks after its own readiness refresh.
ExecuteCheck(c) ==
  /\ run[c] = "armed"
  /\ Ready /\ Evidenced(c) /\ (L2 => Allowed(campaign[c].paid))
  /\ Stage(c, "checked")
  /\ UNCHANGED <<chain, ownerVars, planVars, hold, tx>>

Final(c, w) == tx[c][w] \in {"final", "finalReverted"}

\* One Base mint is confirmed, final and settled.
RehearsalDone ==
  \E c \in Campaigns, w \in Wallets : tx[c][w] = "final" /\ hold[c][w] = "settled"

\* A reservation of Base that is open, or settled without a final receipt.
Outstanding(c, w) ==
  \/ hold[c][w] = "reserved"
  \/ hold[c][w] = "settled" /\ ~Final(c, w)

\* Mutant: a reservation that is still open is not waited for.
FirstRehearsalUnwaited(c) ==
  \/ RehearsalDone
  \/ /\ Cardinality(campaign[c].wallets) = 1
     /\ campaign[c].quantity = 1

\* assertBaseFirstRehearsal: until the first Base mint is final and settled, one
\* wallet and one NFT, and nothing else outstanding.
FirstRehearsal(c) ==
  \/ RehearsalDone
  \/ /\ ~ \E d \in Campaigns, w \in Wallets : Outstanding(d, w)
     /\ Cardinality(campaign[c].wallets) = 1
     /\ campaign[c].quantity = 1

\* assertCanonicalChainProfile and assertCanonicalFeePolicy.
ProfileAllows(c) ==
  /\ profile /\ Current
  /\ L2 => Allowed(campaign[c].paid)
  /\ campaign[c].paid => policy = "paid"

\* admitExecution, one transaction: a reservation for every wallet, or none.
Admit(c) ==
  /\ run[c] = "checked"
  /\ \/ /\ ProfileAllows(c)
        /\ chain = "base" => FirstRehearsal(c)
        /\ hold' = [hold EXCEPT ![c] = [w \in Wallets |->
              IF w \in campaign[c].wallets THEN "reserved" ELSE @[w]]]
        /\ Stage(c, "admitted")
     \/ /\ ~ProfileAllows(c) \/ (chain = "base" /\ ~FirstRehearsal(c))
        /\ Stage(c, "armed")
        /\ UNCHANGED hold
  /\ UNCHANGED <<chain, ownerVars, planVars, tx>>

\* robinhoodGrantFrom / baseGrantFrom: the engine gets the enablement of this
\* moment, and assertDirectChainExecutionPolicy refuses a run without it.
EngineStart(c) ==
  /\ run[c] = "admitted"
  /\ LET go == L2 => Allowed(campaign[c].paid) IN
     /\ Stage(c, IF go THEN "engine" ELSE "over")
     /\ hold' = IF go THEN hold
                ELSE [hold EXCEPT ![c] = [w \in Wallets |->
                        IF @[w] = "reserved" THEN "released" ELSE @[w]]]
  /\ UNCHANGED <<chain, ownerVars, planVars, tx>>

\* Mutant: the gate trusts the enablement the engine was given at the start.
GateOpenByGrant(c, w) == hold[c][w] = "reserved"

\* preSignReservationGate: the owner's record as it is stored now,
\* and the reservation.
GateOpen(c, w) ==
  /\ hold[c][w] = "reserved"
  /\ L2 => Allowed(campaign[c].paid)

\* A wallet comes to its gate; refused, its reservation is released.
Gate(c, w) ==
  /\ run[c] = "engine" /\ w \in campaign[c].wallets /\ tx[c][w] = "none"
  /\ \/ /\ GateOpen(c, w)
        /\ tx' = [tx EXCEPT ![c][w] = "gated"]
        /\ UNCHANGED hold
     \/ /\ ~GateOpen(c, w)
        /\ tx' = [tx EXCEPT ![c][w] = "refused"]
        /\ hold' = [hold EXCEPT ![c][w] = IF @ = "reserved" THEN "released" ELSE @]
  /\ UNCHANGED <<chain, ownerVars, planVars, run>>

\* The engine signs and sends.
Sign(c, w) ==
  /\ tx[c][w] = "gated"
  /\ tx' = [tx EXCEPT ![c][w] = "sent"]
  /\ UNCHANGED <<chain, ownerVars, planVars, run, hold>>

\* The receipt: on an L2 it counts only once its batch is final on Ethereum.
Mine(c, w) ==
  /\ tx[c][w] = "sent"
  /\ \E r \in {"mined", "reverted"} : tx' = [tx EXCEPT ![c][w] = r]
  /\ UNCHANGED <<chain, ownerVars, planVars, run, hold>>

RecordFinal(c, w) ==
  /\ tx[c][w] \in {"mined", "reverted"}
  /\ tx' = [tx EXCEPT ![c][w] = IF @ = "mined" THEN "final" ELSE "finalReverted"]
  /\ UNCHANGED <<chain, ownerVars, planVars, run, hold>>

\* shouldSettleReceipt.
Settle(c, w) ==
  /\ hold[c][w] = "reserved"
  /\ IF L2 THEN Final(c, w) ELSE Final(c, w) \/ tx[c][w] \in {"mined", "reverted"}
  /\ hold' = [hold EXCEPT ![c][w] = "settled"]
  /\ UNCHANGED <<chain, ownerVars, planVars, run, tx>>

\* The fleet and quantity of a campaign.  Only Base tells one wallet and one NFT
\* from more, so elsewhere one of each is enough.
Shapes ==
  {s \in ((SUBSET Wallets) \ {{}}) \X (1 .. 2) :
     Cardinality(s[1]) + s[2] <= IF chain = "base" THEN 3 ELSE 2}

Next ==
  \/ RecordProof \/ RevokeBegin \/ RevokeCommit
  \/ Expire \/ DisableIfNotEnabled
  \/ RecordReadiness \/ ReadinessAges
  \/ \E paid, permanent \in BOOLEAN : Enable(paid, permanent)
  \/ \E c \in Campaigns :
       \/ \E paid \in BOOLEAN, s \in Shapes : Create(c, paid, s[1], s[2])
       \/ RecordSimulations(c) \/ SimulationsAge(c) \/ Approve(c)
       \/ Arm(c) \/ ExecuteCheck(c) \/ Admit(c) \/ EngineStart(c)
       \/ \E w \in Wallets :
            Gate(c, w) \/ Sign(c, w) \/ Mine(c, w) \/ RecordFinal(c, w) \/ Settle(c, w)

Spec == Init /\ [][Next]_vars

-----------------------------------------------------------------------------
(* Properties                                                              *)

\* Evidence that stopped counting never counts again: after a revocation and a
\* new record, a campaign prepared under the old one stays refused
\* (canonical-store.ts readChainEvidence, D-065).
EvidenceNeverReturns ==
  [][\A e \in DOMAIN records : ~EvidenceLive(e) => ~EvidenceLive(e)']_vars

\* While the newest record of an L2 is revoked the chain is off and its fee policy
\* allows no paid mint, whatever was enabled before (repositories.ts
\* revokeEnablement, disableBaseIfNotEnabled).
RevokedIsOff ==
  L2 /\ NewestRevoked => ~profile /\ policy # "paid"

\* Until one Base mint is confirmed, final and settled, at most one wallet of one
\* NFT is outstanding over all runs (base-enablement.ts assertBaseFirstRehearsal).
FirstRehearsalAlone ==
  chain = "base" /\ ~RehearsalDone =>
    LET open == {p \in Campaigns \X Wallets : Outstanding(p[1], p[2])} IN
    /\ Cardinality(open) <= 1
    /\ \A p \in open : campaign[p[1]].quantity = 1

\* While the owner's record does not allow it, no run is started, admitted or let
\* through its pre-sign gate, whatever it was granted earlier (engine-adapter.ts
\* preSignReservationGate, D-062).
OffMeansOff ==
  [][\A c \in Campaigns :
       L2 /\ ~Allowed(campaign[c].paid) =>
         /\ run'[c] \in {"checked", "admitted", "engine"} => run[c] = run'[c]
         /\ \A w \in Wallets : tx'[c][w] = "gated" => tx[c][w] = "gated"]_vars

\* What holds in every state of the gates: a revoked chain is off, and before the first rehearsal
\* is settled at most one mint of it is outstanding.
Safety == TypeOK /\ RevokedIsOff /\ FirstRehearsalAlone
=============================================================================
