----------------------------- MODULE LiveProofs -----------------------------
(***************************************************************************)
(* Proofs about what leads to live money: LiveGates, for every chain,      *)
(* every set of campaigns, every finite fleet and any number of owner      *)
(* records; FireRequests, for every set of campaigns, commands and         *)
(* schedules and all times; ServiceState, for any number of events; and    *)
(* the two of the service process together.                                *)
(***************************************************************************)
EXTENDS LiveGates, MCService, NumberLemmas, FiniteSetTheorems, SequenceTheorems, TLAPS

Standings == {"dated", "permanent", "expired", "revoked"}
Record == [paid : BOOLEAN, standing : Standings]
Early == {"none", "armed", "checked"}

\* What a run has before it is admitted: no money held, nothing sent.
NothingHeldEarly ==
  \A c \in Campaigns, w \in Wallets :
    run[c] \in Early => hold[c][w] = "none" /\ tx[c][w] = "none"

\* A run was armed, so its campaign was recorded; it is not recorded again.
RunHasCampaign == \A c \in Campaigns : run[c] # "none" => campaign[c] # None

\* On an L2 money is settled only against a final receipt.
SettledIsFinal ==
  \A c \in Campaigns, w \in Wallets : L2 /\ hold[c][w] = "settled" => Final(c, w)

\* FirstRehearsalAlone without counting: two open mints are one and the same.
OneOpen ==
  chain = "base" /\ ~RehearsalDone =>
    \A c, d \in Campaigns, v, w \in Wallets :
      hold[c][v] = "reserved" /\ hold[d][w] = "reserved" =>
        c = d /\ v = w /\ campaign[c].quantity = 1

GatesInv == TypeOK /\ RevokedIsOff /\ NothingHeldEarly /\ RunHasCampaign /\ SettledIsFinal /\ OneOpen

-----------------------------------------------------------------------------
(* The types                                                               *)

\* Changing how a record stands keeps it a record in the same place.
LEMMA RestampType ==
  ASSUME NEW s \in Seq(Record), NEW i \in 1 .. Len(s), NEW standing \in Standings
  PROVE  LET t == [s EXCEPT ![i].standing = standing] IN
         /\ t \in Seq(Record) /\ Len(t) = Len(s)
         /\ \A j \in 1 .. Len(s) : t[j] = IF j = i THEN [s[i] EXCEPT !.standing = standing] ELSE s[j]
<1> DEFINE e == [s[i] EXCEPT !.standing = standing]
<1>1. s[i] \in Record
  BY ElementOfSeq
<1>2. e \in Record
  BY <1>1 DEF Record
<1>3. [s EXCEPT ![i].standing = standing] = [s EXCEPT ![i] = e]
  OBVIOUS
<1> HIDE DEF e
<1> QED
  BY <1>2, <1>3, ExceptSeq DEF e

\* The owner's commands and readiness keep the records records, at most MaxRecords.
LEMMA OwnerTypes ==
  ASSUME TypeOK,
         \/ RecordProof \/ RevokeBegin \/ RevokeCommit \/ Expire \/ DisableIfNotEnabled
         \/ RecordReadiness \/ ReadinessAges \/ \E paid, permanent \in BOOLEAN : Enable(paid, permanent)
  PROVE  TypeOK'
<1> USE GatesAssumption DEF TypeOK, Newest
<1>0. records \in Seq(Record) /\ Len(records) \in Nat
  BY DEF Record, Standings
<1>1. CASE RecordProof
  BY <1>1 DEF RecordProof, planVars, runVars
<1>2. CASE RevokeBegin
  BY <1>2, <1>0 DEF RevokeBegin, planVars, runVars, Current
<1>3. CASE RevokeCommit
  <2>1. CASE expected = Newest /\ Revoked(Newest)
    <3>1. Newest \in 1 .. Len(records)
      BY <1>3, <2>1, <1>0 DEF RevokeCommit
    <3>2. records' \in Seq(Record) /\ Len(records') = Len(records)
      BY <3>1, <2>1, <1>0, RestampType DEF Revoked, Standings
    <3>3. policy' \in {"none", "free", "paid"} /\ profile' \in BOOLEAN
      BY <2>1 DEF Revoked
    <3>5. expected' \in 0 .. Newest'
      BY <1>3, <3>2, <1>0 DEF RevokeCommit
    <3>4. UNCHANGED <<chain, proven, planVars, runVars>>
      BY <1>3 DEF RevokeCommit
    <3> QED
      BY <3>2, <3>3, <3>4, <3>5 DEF planVars, runVars, Record, Standings
  <2>2. CASE UNCHANGED <<records, profile, policy>>
    BY <1>3, <2>2, <1>0 DEF RevokeCommit, planVars, runVars
  <2> QED
    BY <1>3, <2>1, <2>2 DEF RevokeCommit
<1>4. CASE Expire
  <2>1. Newest \in 1 .. Len(records)
    BY <1>4, <1>0 DEF Expire
  <2>2. records' \in Seq(Record) /\ Len(records') = Len(records)
    BY <2>1, <1>4, <1>0, RestampType DEF Expire, Standings
  <2> QED
    BY <1>4, <2>2 DEF Expire, planVars, runVars, Record, Standings
<1>5. CASE DisableIfNotEnabled
  BY <1>5 DEF DisableIfNotEnabled, planVars, runVars
<1>6. ASSUME NEW paid \in BOOLEAN, NEW permanent \in BOOLEAN, Enable(paid, permanent)
      PROVE  TypeOK'
  <2>1. records' \in Seq(Record) /\ Len(records') = Len(records) + 1
    BY <1>6, <1>0, AppendProperties DEF Enable, Record, Standings
  <2> QED
    BY <1>6, <2>1, <1>0 DEF Enable, planVars, runVars, Record, Standings
<1>7. CASE RecordReadiness \/ ReadinessAges
  BY <1>7 DEF RecordReadiness, ReadinessAges, ownerVars, runVars
<1> QED
  BY <1>1, <1>2, <1>3, <1>4, <1>5, <1>6, <1>7

\* So do the steps that prepare a mint.
LEMMA PlanTypes ==
  ASSUME TypeOK, NEW c \in Campaigns,
         \/ \E paid \in BOOLEAN, s \in Shapes : Create(c, paid, s[1], s[2])
         \/ RecordSimulations(c) \/ SimulationsAge(c) \/ Approve(c)
  PROVE  TypeOK'
<1> USE GatesAssumption DEF TypeOK
<1>1. ASSUME NEW paid \in BOOLEAN, NEW s \in Shapes, Create(c, paid, s[1], s[2])
      PROVE  TypeOK'
  <2>1. s[1] \in SUBSET Wallets /\ s[2] \in 1 .. 2
    BY DEF Shapes
  <2>2. Newest \in 1 .. MaxRecords
    BY <1>1 DEF Create, EvidenceLive, Enabled, Newest
  <2>3. [evidence |-> Newest, paid |-> paid, wallets |-> s[1], quantity |-> s[2]]
          \in [evidence : 1 .. MaxRecords, paid : BOOLEAN, wallets : SUBSET Wallets, quantity : 1 .. 2]
    BY <2>1, <2>2
  <2> QED
    BY <1>1, <2>3 DEF Create, runVars, Newest
<1>2. CASE RecordSimulations(c) \/ SimulationsAge(c) \/ Approve(c)
  BY <1>2 DEF RecordSimulations, SimulationsAge, Approve, ownerVars, runVars, Newest
<1> QED
  BY <1>1, <1>2

\* And the steps of a run, which touch its stage, its money and its transactions.
Holds == [Campaigns -> [Wallets -> {"none", "reserved", "settled", "released"}]]
Transactions == [Campaigns -> [Wallets ->
  {"none", "gated", "sent", "mined", "reverted", "final", "finalReverted", "refused"}]]

LEMMA RunTypes ==
  ASSUME TypeOK, NEW c \in Campaigns,
         \/ Arm(c) \/ ExecuteCheck(c) \/ Admit(c) \/ EngineStart(c)
         \/ \E w \in Wallets : Gate(c, w) \/ Sign(c, w) \/ Mine(c, w) \/ RecordFinal(c, w) \/ Settle(c, w)
  PROVE  TypeOK'
<1> DEFINE Kept == UNCHANGED <<chain, ownerVars, planVars>>
           Typed == run' \in [Campaigns -> Stages] /\ hold' \in Holds /\ tx' \in Transactions
<1>0. run \in [Campaigns -> Stages] /\ hold \in Holds /\ tx \in Transactions
  BY DEF TypeOK, Holds, Transactions
<1> USE <1>0 DEF Stage, Stages
<1>1. ASSUME Arm(c) \/ ExecuteCheck(c) PROVE Kept /\ Typed
  BY <1>1 DEF Arm, ExecuteCheck
<1>2. ASSUME Admit(c) PROVE Kept /\ Typed
  <2>1. ASSUME NEW W PROVE [hold EXCEPT ![c] = [w \in Wallets |-> IF w \in W THEN "reserved" ELSE @[w]]] \in Holds
    BY DEF Holds
  <2>2. hold' \in Holds
    BY <1>2, <2>1 DEF Admit
  <2> QED
    BY <1>2, <2>2 DEF Admit
<1>3. ASSUME EngineStart(c) PROVE Kept /\ Typed
  <2>1. [hold EXCEPT ![c] = [w \in Wallets |-> IF @[w] = "reserved" THEN "released" ELSE @[w]]] \in Holds
    BY DEF Holds
  <2>2. hold' \in Holds
    BY <1>3, <2>1 DEF EngineStart
  <2> QED
    BY <1>3, <2>2 DEF EngineStart
<1>4. ASSUME NEW w \in Wallets, Gate(c, w) PROVE Kept /\ Typed
  <2>1. [tx EXCEPT ![c][w] = "gated"] \in Transactions /\ [tx EXCEPT ![c][w] = "refused"] \in Transactions
    BY DEF Transactions
  <2>2. [hold EXCEPT ![c][w] = IF @ = "reserved" THEN "released" ELSE @] \in Holds
    BY DEF Holds
  <2> QED
    BY <1>4, <2>1, <2>2 DEF Gate
<1>5. ASSUME NEW w \in Wallets, Sign(c, w) \/ Mine(c, w) \/ RecordFinal(c, w) PROVE Kept /\ Typed
  BY <1>5 DEF Sign, Mine, RecordFinal, Transactions
<1>6. ASSUME NEW w \in Wallets, Settle(c, w) PROVE Kept /\ Typed
  BY <1>6 DEF Settle, Holds
<1>7. Kept /\ Typed
  BY <1>1, <1>2, <1>3, <1>4, <1>5, <1>6
<1> USE DEF TypeOK, ownerVars, planVars, Newest
<1>8. (chain \in Chains /\ proven \in BOOLEAN /\ profile \in BOOLEAN /\ probe \in BOOLEAN)'
  BY <1>7
<1>9. records' = records /\ expected' = expected /\ policy' = policy /\ campaign' = campaign /\ sims' = sims
  BY <1>7
<1>10. run' \in [Campaigns -> Stages] /\ hold' \in Holds /\ tx' \in Transactions
  BY <1>7
<1> QED
  BY <1>8, <1>9, <1>10 DEF Holds, Transactions

LEMMA TypeStep == TypeOK /\ [Next]_vars => TypeOK'
<1>1. TypeOK /\ UNCHANGED vars => TypeOK'
  BY DEF TypeOK, vars, ownerVars, planVars, runVars, Newest
<1> SUFFICES ASSUME TypeOK, Next PROVE TypeOK'
  BY <1>1
<1>2. CASE \/ RecordProof \/ RevokeBegin \/ RevokeCommit \/ Expire \/ DisableIfNotEnabled
           \/ RecordReadiness \/ ReadinessAges \/ \E paid, permanent \in BOOLEAN : Enable(paid, permanent)
  BY <1>2, OwnerTypes
<1>3. ASSUME NEW c \in Campaigns,
             \/ \E paid \in BOOLEAN, s \in Shapes : Create(c, paid, s[1], s[2])
             \/ RecordSimulations(c) \/ SimulationsAge(c) \/ Approve(c)
      PROVE  TypeOK'
  BY <1>3, PlanTypes
<1>4. ASSUME NEW c \in Campaigns,
             \/ Arm(c) \/ ExecuteCheck(c) \/ Admit(c) \/ EngineStart(c)
             \/ \E w \in Wallets : Gate(c, w) \/ Sign(c, w) \/ Mine(c, w) \/ RecordFinal(c, w) \/ Settle(c, w)
      PROVE  TypeOK'
  BY <1>4, RunTypes
<1> QED
  BY <1>2, <1>3, <1>4 DEF Next

-----------------------------------------------------------------------------
(* What a step changes                                                     *)

\* A step of a run that is about one of its wallets.
WalletMoves(c, w) == Gate(c, w) \/ Sign(c, w) \/ Mine(c, w) \/ RecordFinal(c, w) \/ Settle(c, w)
RunMoves(c) == Arm(c) \/ ExecuteCheck(c) \/ Admit(c) \/ EngineStart(c) \/ \E w \in Wallets : WalletMoves(c, w)

\* The owner and the preparation leave runs, money and transactions alone and
\* never change a campaign that is recorded.
Quiet == /\ UNCHANGED <<chain, runVars>>
         /\ \A c \in Campaigns : campaign[c] # None => campaign'[c] = campaign[c]

LEMMA NextMoves ==
  ASSUME TypeOK, Next
  PROVE  Quiet \/ \E c \in Campaigns : RunMoves(c) /\ UNCHANGED <<chain, ownerVars, planVars>>
<1>1. CASE \/ RecordProof \/ RevokeBegin \/ RevokeCommit \/ Expire \/ DisableIfNotEnabled
           \/ RecordReadiness \/ ReadinessAges \/ \E paid, permanent \in BOOLEAN : Enable(paid, permanent)
  BY <1>1 DEF Quiet, RecordProof, RevokeBegin, RevokeCommit, Expire, DisableIfNotEnabled,
              RecordReadiness, ReadinessAges, Enable, planVars
<1>2. ASSUME NEW c \in Campaigns,
             \/ \E paid \in BOOLEAN, s \in Shapes : Create(c, paid, s[1], s[2])
             \/ RecordSimulations(c) \/ SimulationsAge(c) \/ Approve(c)
      PROVE  Quiet
  BY <1>2 DEF Quiet, Create, RecordSimulations, SimulationsAge, Approve, TypeOK
<1>3. ASSUME NEW c \in Campaigns, RunMoves(c)
      PROVE  UNCHANGED <<chain, ownerVars, planVars>>
  BY <1>3 DEF RunMoves, WalletMoves, Arm, ExecuteCheck, Admit, EngineStart, Gate, Sign, Mine, RecordFinal, Settle
<1> QED
  BY <1>1, <1>2, <1>3 DEF Next, RunMoves, WalletMoves

LEMMA RevokedStep ==
  ASSUME TypeOK, RevokedIsOff, Next
  PROVE  RevokedIsOff'
<1> USE DEF RevokedIsOff, NewestRevoked, Newest, L2
<1>0. records \in Seq(Record) /\ Len(records) \in Nat
  BY DEF TypeOK, Record, Standings
<1>1. CASE UNCHANGED <<chain, records>> /\ policy' = policy /\ (profile' = profile \/ profile' = FALSE)
  BY <1>1
<1>2. CASE RevokeCommit
  <2>1. CASE expected = Newest /\ Revoked(Newest)
    BY <1>2, <2>1 DEF RevokeCommit, Revoked
  <2> QED
    BY <1>1, <1>2, <2>1 DEF RevokeCommit
<1>3. CASE Expire
  <2>1. Newest \in 1 .. Len(records)
    BY <1>3, <1>0 DEF Expire
  <2>2. Len(records') = Len(records) /\ records'[Newest].standing = "expired"
    BY <2>1, <1>3, <1>0, RestampType DEF Expire, Standings, Record
  <2> QED
    BY <2>2
<1>4. ASSUME NEW paid \in BOOLEAN, NEW permanent \in BOOLEAN, Enable(paid, permanent)
      PROVE  RevokedIsOff'
  <2> DEFINE new == [paid |-> paid, standing |-> IF permanent THEN "permanent" ELSE "dated"]
  <2>1. new \in Record
    BY DEF Record, Standings
  <2>2. Len(records') = Len(records) + 1 /\ records'[Len(records) + 1] = new
    BY <2>1, <1>4, <1>0, AppendProperties DEF Enable
  <2> QED
    BY <2>2
<1>5. ASSUME NEW c \in Campaigns, NEW paid \in BOOLEAN, NEW s \in Shapes, Create(c, paid, s[1], s[2])
      PROVE  RevokedIsOff'
  BY <1>5 DEF Create, EvidenceLive, Enabled
<1>6. ASSUME NEW c \in Campaigns, RunMoves(c) \/ RecordSimulations(c) \/ SimulationsAge(c) \/ Approve(c)
      PROVE  UNCHANGED <<chain, ownerVars>>
  BY <1>6 DEF RunMoves, WalletMoves, Arm, ExecuteCheck, Admit, EngineStart, Gate, Sign, Mine, RecordFinal,
              Settle, RecordSimulations, SimulationsAge, Approve
<1>7. CASE RecordProof \/ RevokeBegin \/ DisableIfNotEnabled \/ RecordReadiness \/ ReadinessAges
  BY <1>1, <1>7 DEF RecordProof, RevokeBegin, DisableIfNotEnabled, RecordReadiness, ReadinessAges, ownerVars
<1> QED
  BY <1>1, <1>2, <1>3, <1>4, <1>5, <1>6, <1>7 DEF Next, RunMoves, WalletMoves, ownerVars

\* Changing one wallet of one campaign leaves the others as they are.
LEMMA OneCell ==
  ASSUME NEW S, NEW f \in [Campaigns -> [Wallets -> S]], NEW c \in Campaigns, NEW w \in Wallets, NEW e
  PROVE  LET g == [f EXCEPT ![c][w] = e] IN
         /\ g[c][w] = e
         /\ \A d \in Campaigns, v \in Wallets : d # c \/ v # w => g[d][v] = f[d][v]
OBVIOUS

\* What a step of one wallet does to it, and that it does nothing to the others.
Others(c, w) == \A d \in Campaigns, v \in Wallets :
                  d # c \/ v # w => hold'[d][v] = hold[d][v] /\ tx'[d][v] = tx[d][v]

LEMMA WalletFacts ==
  ASSUME TypeOK, NEW c \in Campaigns, NEW w \in Wallets, WalletMoves(c, w)
  PROVE  /\ run' = run /\ Others(c, w)
         /\ \/ /\ run[c] = "engine" /\ tx[c][w] = "none" /\ tx'[c][w] \in {"gated", "refused"}
               /\ hold'[c][w] \in {hold[c][w], "released"}
            \/ /\ tx[c][w] \in {"gated", "sent", "mined", "reverted"} /\ tx'[c][w] # "none"
               /\ hold'[c][w] = hold[c][w]
            \/ /\ hold[c][w] = "reserved" /\ hold'[c][w] = "settled"
               /\ tx'[c][w] = tx[c][w] /\ (L2 => Final(c, w))
<1> USE DEF Others
<1>0. hold \in Holds /\ tx \in Transactions
  BY DEF TypeOK, Holds, Transactions
<1>1. CASE Gate(c, w)
  <2>1. CASE GateOpen(c, w)
    BY <1>0, <1>1, <2>1, OneCell DEF Gate, Transactions
  <2>2. CASE ~GateOpen(c, w)
    <3>1. tx' = [tx EXCEPT ![c][w] = "refused"] /\ run' = run /\ run[c] = "engine" /\ tx[c][w] = "none"
      BY <1>1, <2>2 DEF Gate
    <3>2. hold' = [hold EXCEPT ![c][w] = IF hold[c][w] = "reserved" THEN "released" ELSE hold[c][w]]
      BY <1>1, <2>2 DEF Gate
    <3>3. tx'[c][w] = "refused" /\ \A d \in Campaigns, v \in Wallets : d # c \/ v # w => tx'[d][v] = tx[d][v]
      BY <1>0, <3>1, OneCell DEF Transactions
    <3>4. /\ hold'[c][w] = IF hold[c][w] = "reserved" THEN "released" ELSE hold[c][w]
          /\ \A d \in Campaigns, v \in Wallets : d # c \/ v # w => hold'[d][v] = hold[d][v]
      BY <1>0, <3>2, OneCell DEF Holds
    <3> QED
      BY <3>1, <3>3, <3>4
  <2> QED
    BY <2>1, <2>2
<1>2. CASE Sign(c, w)
  BY <1>0, <1>2, OneCell DEF Sign, Transactions
<1>3. CASE Mine(c, w)
  <2>1. PICK r \in {"mined", "reverted"} : tx' = [tx EXCEPT ![c][w] = r]
    BY <1>3 DEF Mine
  <2>2. tx'[c][w] = r /\ \A d \in Campaigns, v \in Wallets : d # c \/ v # w => tx'[d][v] = tx[d][v]
    BY <1>0, <2>1, OneCell DEF Transactions
  <2> QED
    BY <1>3, <2>2 DEF Mine
<1>4. CASE RecordFinal(c, w)
  <2> DEFINE r == IF tx[c][w] = "mined" THEN "final" ELSE "finalReverted"
  <2>1. tx' = [tx EXCEPT ![c][w] = r]
    BY <1>4 DEF RecordFinal
  <2>2. tx'[c][w] = r /\ \A d \in Campaigns, v \in Wallets : d # c \/ v # w => tx'[d][v] = tx[d][v]
    BY <1>0, <2>1, OneCell DEF Transactions
  <2> QED
    BY <1>4, <2>2 DEF RecordFinal
<1>5. CASE Settle(c, w)
  BY <1>0, <1>5, OneCell DEF Settle, Holds
<1> QED
  BY <1>1, <1>2, <1>3, <1>4, <1>5 DEF WalletMoves

\* What the steps of a run as a whole do to its stage, its money and its sends.
LEMMA StageFacts ==
  ASSUME TypeOK, NEW c \in Campaigns, Arm(c) \/ ExecuteCheck(c) \/ Admit(c) \/ EngineStart(c)
  PROVE  /\ tx' = tx /\ \A d \in Campaigns : d # c => run'[d] = run[d] /\ hold'[d] = hold[d]
         /\ \/ run[c] \in Early /\ run'[c] \in Early /\ hold'[c] = hold[c]
            \/ /\ run[c] = "checked" /\ run'[c] = "admitted"
               /\ \A w \in Wallets : hold'[c][w] = IF w \in campaign[c].wallets THEN "reserved" ELSE hold[c][w]
            \/ /\ run[c] = "admitted" /\ run'[c] \in {"engine", "over"}
               /\ \A w \in Wallets : \/ hold'[c][w] = hold[c][w]
                                     \/ hold[c][w] = "reserved" /\ hold'[c][w] = "released"
         /\ run[c] = "none" => campaign[c] # None
<1> USE DEF Stage, Early
<1>0. run \in [Campaigns -> Stages] /\ hold \in Holds
  BY DEF TypeOK, Holds
<1>1. CASE Arm(c)
  BY <1>0, <1>1 DEF Arm, Evidenced, EvidenceLive, Enabled, None
<1>2. CASE ExecuteCheck(c)
  BY <1>0, <1>2 DEF ExecuteCheck
<1>3. CASE Admit(c)
  BY <1>0, <1>3 DEF Admit, Holds
<1>4. CASE EngineStart(c)
  BY <1>0, <1>4 DEF EngineStart, Holds
<1> QED
  BY <1>1, <1>2, <1>3, <1>4

-----------------------------------------------------------------------------
(* Money and transactions follow the stages of the run                     *)

\* A run holds no money and sends nothing before it is admitted, and it is armed
\* only with a recorded campaign.
LEMMA EarlyStep ==
  ASSUME TypeOK, NothingHeldEarly, RunHasCampaign, Next
  PROVE  NothingHeldEarly' /\ RunHasCampaign'
<1> USE DEF NothingHeldEarly, RunHasCampaign, Early
<1>1. CASE Quiet
  BY <1>1 DEF Quiet, runVars
<1>2. ASSUME NEW c \in Campaigns, RunMoves(c), UNCHANGED <<chain, ownerVars, planVars>>
      PROVE  NothingHeldEarly' /\ RunHasCampaign'
  <2>0. campaign' = campaign
    BY <1>2 DEF planVars
  <2>1. CASE Arm(c) \/ ExecuteCheck(c) \/ Admit(c) \/ EngineStart(c)
    <3>1. \A d \in Campaigns : run'[d] # "none" => campaign[d] # None
      BY <2>1, StageFacts
    <3>2. \A d \in Campaigns, w \in Wallets : run'[d] \in Early => hold'[d][w] = "none" /\ tx'[d][w] = "none"
      BY <2>1, StageFacts
    <3> QED
      BY <2>0, <3>1, <3>2
  <2>2. ASSUME NEW w \in Wallets, WalletMoves(c, w)
        PROVE  NothingHeldEarly' /\ RunHasCampaign'
    BY <2>0, <2>2, WalletFacts DEF Others
  <2> QED
    BY <1>2, <2>1, <2>2 DEF RunMoves
<1> QED
  BY <1>1, <1>2, NextMoves

\* On an L2 money that was settled stays settled against a final receipt.
LEMMA FinalStep ==
  ASSUME TypeOK, NothingHeldEarly, SettledIsFinal, Next
  PROVE  SettledIsFinal'
<1> USE DEF SettledIsFinal, Final, L2
<1>1. CASE Quiet
  BY <1>1 DEF Quiet, runVars
<1>2. ASSUME NEW c \in Campaigns, RunMoves(c), chain' = chain
      PROVE  SettledIsFinal'
  <2>1. CASE Arm(c) \/ ExecuteCheck(c) \/ Admit(c) \/ EngineStart(c)
    BY <1>2, <2>1, StageFacts
  <2>2. ASSUME NEW w \in Wallets, WalletMoves(c, w)
        PROVE  SettledIsFinal'
    BY <1>2, <2>2, WalletFacts DEF Others
  <2> QED
    BY <1>2, <2>1, <2>2 DEF RunMoves
<1> QED
  BY <1>1, <1>2, NextMoves DEF Quiet

\* The first Base mint stays final and settled.
LEMMA RehearsalStays ==
  ASSUME TypeOK, NothingHeldEarly, RehearsalDone, Next
  PROVE  RehearsalDone'
<1>1. PICK c \in Campaigns, w \in Wallets : tx[c][w] = "final" /\ hold[c][w] = "settled"
  BY DEF RehearsalDone
<1>2. CASE Quiet
  BY <1>1, <1>2 DEF Quiet, runVars, RehearsalDone
<1>3. ASSUME NEW d \in Campaigns, RunMoves(d)
      PROVE  tx'[c][w] = "final" /\ hold'[c][w] = "settled"
  <2>0. run[c] \notin Early
    BY <1>1 DEF NothingHeldEarly
  <2>1. CASE Arm(d) \/ ExecuteCheck(d) \/ Admit(d) \/ EngineStart(d)
    BY <1>1, <2>0, <2>1, StageFacts DEF Early
  <2>2. ASSUME NEW v \in Wallets, WalletMoves(d, v)
        PROVE  tx'[c][w] = "final" /\ hold'[c][w] = "settled"
    BY <1>1, <2>2, WalletFacts DEF Others
  <2> QED
    BY <1>3, <2>1, <2>2 DEF RunMoves
<1> QED
  BY <1>2, <1>3, NextMoves DEF RehearsalDone

\* Until the first Base mint is settled, a wallet is admitted only when nothing
\* is held, and then alone and for one NFT.
LEMMA OpenStep ==
  ASSUME GatesInv, Next
  PROVE  OneOpen'
<1> USE DEF GatesInv
<1>0. ASSUME chain = "base", ~RehearsalDone'
      PROVE  /\ ~RehearsalDone
             /\ \A c, d \in Campaigns, v, w \in Wallets :
                  hold[c][v] = "reserved" /\ hold[d][w] = "reserved" => c = d /\ v = w /\ campaign[c].quantity = 1
  BY <1>0, RehearsalStays DEF OneOpen
<1>1. \A c \in Campaigns, w \in Wallets : hold[c][w] = "reserved" => campaign[c] # None
  BY DEF NothingHeldEarly, RunHasCampaign, Early
<1>2. CASE Quiet
  BY <1>0, <1>1, <1>2 DEF Quiet, runVars, OneOpen
<1>3. ASSUME NEW c \in Campaigns, RunMoves(c), UNCHANGED <<chain, ownerVars, planVars>>
      PROVE  OneOpen'
  <2>0. campaign' = campaign /\ chain' = chain
    BY <1>3 DEF planVars
  <2>1. CASE \A d \in Campaigns, w \in Wallets : hold'[d][w] = "reserved" => hold[d][w] = "reserved"
    BY <1>0, <2>0, <2>1 DEF OneOpen
  <2>2. CASE Admit(c) /\ run'[c] = "admitted" /\ chain = "base" /\ ~RehearsalDone'
    <3>1. FirstRehearsal(c)
      BY <2>2 DEF Admit, Stage, TypeOK
    <3>2. \A d \in Campaigns, w \in Wallets : hold[d][w] # "reserved"
      BY <1>0, <2>2, <3>1 DEF FirstRehearsal, Outstanding
    <3>3. Cardinality(campaign[c].wallets) = 1 /\ campaign[c].quantity = 1
      BY <1>0, <2>2, <3>1 DEF FirstRehearsal
    <3>4. campaign[c].wallets \in SUBSET Wallets
      BY <2>2 DEF TypeOK, Admit, RunHasCampaign, None
    <3>5. IsFiniteSet(campaign[c].wallets)
      BY <3>4, GatesAssumption, FS_Subset
    <3>6. PICK u : campaign[c].wallets = {u}
      BY <3>3, <3>5, FS_Singleton
    <3>7. \A d \in Campaigns, w \in Wallets : hold'[d][w] = "reserved" => d = c /\ w = u
      BY <2>2, <3>2, <3>6, StageFacts DEF Early
    <3> QED
      BY <2>0, <3>3, <3>7 DEF OneOpen
  <2>3. CASE Arm(c) \/ ExecuteCheck(c) \/ Admit(c) \/ EngineStart(c)
    <3>1. run'[c] # "admitted" => \A d \in Campaigns, w \in Wallets : hold'[d][w] = "reserved" => hold[d][w] = "reserved"
      BY <2>3, StageFacts DEF Early
    <3>2. run'[c] = "admitted" => Admit(c)
      BY <2>3, StageFacts DEF Arm, ExecuteCheck, EngineStart, Stage, TypeOK
    <3>3. ~(chain = "base" /\ ~RehearsalDone') => OneOpen'
      BY <2>0 DEF OneOpen
    <3> QED
      BY <2>1, <2>2, <3>1, <3>2, <3>3
  <2>4. ASSUME NEW w \in Wallets, WalletMoves(c, w)
        PROVE  OneOpen'
    BY <2>1, <2>4, WalletFacts DEF Others
  <2> QED
    BY <1>3, <2>3, <2>4 DEF RunMoves
<1> QED
  BY <1>2, <1>3, NextMoves

-----------------------------------------------------------------------------
(* The theorems                                                            *)

LEMMA GatesStart == Init => GatesInv
<1> SUFFICES ASSUME Init PROVE GatesInv
  OBVIOUS
<1>0. records \in Seq(Record) /\ (Len(records) = 0 \/ Len(records) = 1)
      /\ (Len(records) = 1 => records[1].standing = "dated")
  <2>1. CASE records = <<>>
    BY <2>1, EmptySeq
  <2>2. CASE records = <<[paid |-> FALSE, standing |-> "dated"]>>
    <3>1. [paid |-> FALSE, standing |-> "dated"] \in Record
      BY DEF Record, Standings
    <3>2. records \in Seq(Record)
      BY <2>2, <3>1
    <3>3. Len(records) = 1 /\ records[1].standing = "dated"
      BY <2>2
    <3> QED
      BY <2>2, <3>2, <3>3
  <2> QED
    BY <2>1, <2>2 DEF Init
<1>1. Len(records) <= MaxRecords /\ expected \in 0 .. Newest
  <2>1. expected = 0
    BY DEF Init
  <2>2. MaxRecords \in Nat /\ MaxRecords >= 1
    BY GatesAssumption
  <2>3. Len(records) \in 0 .. 1
    BY <1>0
  <2>4. \A n \in 0 .. 1 : n <= MaxRecords /\ 0 \in 0 .. n
    BY <2>2
  <2> QED
    BY <2>1, <2>3, <2>4 DEF Newest
<1>2. TypeOK
  <2>1. /\ run \in [Campaigns -> Stages] /\ sims \in [Campaigns -> {"none", "fresh", "approved", "old"}]
        /\ hold \in Holds /\ tx \in Transactions
    BY DEF Init, Stages, Holds, Transactions
  <2>2. profile \in BOOLEAN /\ proven \in BOOLEAN /\ probe \in BOOLEAN /\ chain \in Chains
    BY Zenon DEF Init
  <2>3. policy \in {"none", "free", "paid"} /\ campaign \in [Campaigns -> {None}]
    BY DEF Init
  <2> QED
    BY <1>0, <1>1, <2>1, <2>2, <2>3 DEF TypeOK, Record, Standings, Holds, Transactions
<1>3. RevokedIsOff
  BY <1>0 DEF RevokedIsOff, NewestRevoked, Newest
<1>4. NothingHeldEarly /\ RunHasCampaign /\ SettledIsFinal /\ OneOpen
  BY DEF Init, NothingHeldEarly, RunHasCampaign, SettledIsFinal, OneOpen
<1> QED
  BY <1>2, <1>3, <1>4 DEF GatesInv

LEMMA GatesStep == GatesInv /\ [Next]_vars => GatesInv'
<1>1. GatesInv /\ UNCHANGED vars => GatesInv'
  <2> SUFFICES ASSUME GatesInv, UNCHANGED vars PROVE GatesInv'
    OBVIOUS
  <2>1. TypeOK'
    BY TypeStep DEF GatesInv
  <2> QED
    BY <2>1 DEF GatesInv, vars, ownerVars, planVars, runVars, RevokedIsOff, NewestRevoked, Newest, L2,
                NothingHeldEarly, RunHasCampaign, SettledIsFinal, Final, OneOpen, RehearsalDone
<1>2. GatesInv /\ Next => GatesInv'
  BY TypeStep, RevokedStep, EarlyStep, FinalStep, OpenStep DEF GatesInv
<1> QED
  BY <1>1, <1>2

\* Counting what OneOpen says: a set in which all elements are the same has at
\* most one.
LEMMA AtMostOne ==
  ASSUME NEW S, \A x, y \in S : x = y
  PROVE  Cardinality(S) <= 1
<1>1. CASE S = {}
  BY <1>1, FS_EmptySet
<1>2. ASSUME NEW x \in S PROVE Cardinality(S) <= 1
  <2>1. S = {x}
    OBVIOUS
  <2> QED
    BY <2>1, FS_Singleton
<1> QED
  BY <1>1, <1>2

LEMMA OneOpenCounts == GatesInv => FirstRehearsalAlone
<1> SUFFICES ASSUME GatesInv, chain = "base", ~RehearsalDone
             PROVE  LET open == {p \in Campaigns \X Wallets : Outstanding(p[1], p[2])} IN
                    Cardinality(open) <= 1 /\ \A p \in open : campaign[p[1]].quantity = 1
  BY DEF FirstRehearsalAlone
<1> DEFINE open == {p \in Campaigns \X Wallets : Outstanding(p[1], p[2])}
<1>1. \A p \in open : p[1] \in Campaigns /\ p[2] \in Wallets /\ hold[p[1]][p[2]] = "reserved" /\ p = <<p[1], p[2]>>
  BY DEF Outstanding, GatesInv, SettledIsFinal, L2
<1>2. \A p, q \in open : p = q /\ campaign[p[1]].quantity = 1
  BY <1>1 DEF GatesInv, OneOpen
<1> HIDE DEF open
<1>3. Cardinality(open) <= 1
  BY <1>2, AtMostOne
<1> QED
  BY <1>2, <1>3 DEF open

\* Every variable of the gates keeps its type (LiveGates.tla TypeOK), on each of
\* the three chains and for any number of campaigns, wallets and records.
THEOREM GatesTypeCorrect == Spec => []TypeOK
<1>1. Init => TypeOK
  BY GatesStart DEF GatesInv
<1> QED
  BY <1>1, TypeStep, PTL DEF Spec

\* The gates are safe: the types, a revoked chain is off and allows no paid mint,
\* and before the first Base mint is final and settled at most one wallet of one
\* NFT is outstanding over all runs (base-enablement.ts
\* assertBaseFirstRehearsal, repositories.ts revokeEnablement).
THEOREM GatesSafe == Spec => []Safety
<1>1. GatesInv => Safety
  BY OneOpenCounts DEF GatesInv, Safety
<1> QED
  BY <1>1, GatesStart, GatesStep, PTL DEF Spec

-----------------------------------------------------------------------------
(* What a step may never do                                                *)

\* A step that lets a run on, or a wallet through its gate, has read the owner's
\* record as it is now.
LEMMA OffStep ==
  ASSUME TypeOK, Next, NEW c \in Campaigns, L2, ~Allowed(campaign[c].paid)
  PROVE  /\ run'[c] \in {"checked", "admitted", "engine"} => run[c] = run'[c]
         /\ \A w \in Wallets : tx'[c][w] = "gated" => tx[c][w] = "gated"
<1>1. CASE Quiet
  BY <1>1 DEF Quiet, runVars
<1>2. ASSUME NEW d \in Campaigns, RunMoves(d)
      PROVE  /\ run'[c] \in {"checked", "admitted", "engine"} => run[c] = run'[c]
             /\ \A w \in Wallets : tx'[c][w] = "gated" => tx[c][w] = "gated"
  <2>1. CASE Arm(d) \/ ExecuteCheck(d) \/ Admit(d) \/ EngineStart(d)
    <3>1. tx' = tx /\ (d # c => run'[c] = run[c])
      BY <2>1, StageFacts
    <3>2. d = c => run'[c] \notin {"checked", "admitted", "engine"}
      BY <2>1 DEF Arm, ExecuteCheck, Admit, EngineStart, ProfileAllows, Stage, TypeOK
    <3> QED
      BY <3>1, <3>2
  <2>2. ASSUME NEW w \in Wallets, WalletMoves(d, w)
        PROVE  /\ run' = run
               /\ \A v \in Wallets : tx'[c][v] = "gated" => tx[c][v] = "gated"
    <3>1. run' = run /\ Others(d, w)
      BY <2>2, WalletFacts
    <3>2. d = c => ~GateOpen(c, w)
      BY DEF GateOpen
    <3>3. d = c => tx'[c][w] # "gated" \/ tx'[c][w] = tx[c][w]
      BY <2>2, <3>2 DEF WalletMoves, Gate, Sign, Mine, RecordFinal, Settle, TypeOK
    <3> QED
      BY <3>1, <3>3 DEF Others
  <2> QED
    BY <1>2, <2>1, <2>2 DEF RunMoves
<1> QED
  BY <1>1, <1>2, NextMoves

\* Evidence that does not count now does not count after the step: the chain is
\* switched on only by a record of its own, and no record stands again.
LEMMA EvidenceStep ==
  ASSUME TypeOK, Next, NEW e \in DOMAIN records, ~EvidenceLive(e)
  PROVE  ~EvidenceLive(e)'
<1> USE DEF EvidenceLive, Enabled, Newest
<1>0. records \in Seq(Record) /\ Len(records) \in Nat /\ e \in 1 .. Len(records)
  BY DEF TypeOK, Record, Standings
<1>1. CASE records' = records /\ (profile' = profile \/ profile' = FALSE)
  BY <1>1
<1>2. CASE RevokeCommit
  <2>1. CASE expected = Newest /\ Revoked(Newest)
    BY <2>1 DEF Revoked
  <2> QED
    BY <1>1, <1>2, <2>1 DEF RevokeCommit
<1>3. CASE Expire
  <2>1. Newest \in 1 .. Len(records)
    BY <1>3, <1>0 DEF Expire
  <2>2. Len(records') = Len(records) /\ records'[Newest].standing = "expired"
    BY <2>1, <1>3, <1>0, RestampType, SMTT(30) DEF Expire, Standings, Record
  <2> QED
    BY <2>2
<1>4. ASSUME NEW paid \in BOOLEAN, NEW permanent \in BOOLEAN, Enable(paid, permanent)
      PROVE  ~EvidenceLive(e)'
  <2>1. [paid |-> paid, standing |-> IF permanent THEN "permanent" ELSE "dated"] \in Record
    BY DEF Record, Standings
  <2>2. Len(records') = Len(records) + 1
    BY <2>1, <1>4, <1>0, AppendProperties DEF Enable
  <2> QED
    BY <1>0, <2>2
<1>5. CASE RecordProof \/ RevokeBegin \/ DisableIfNotEnabled \/ RecordReadiness \/ ReadinessAges
  BY <1>1, <1>5 DEF RecordProof, RevokeBegin, DisableIfNotEnabled, RecordReadiness, ReadinessAges, ownerVars
<1>6. ASSUME NEW c \in Campaigns,
             \/ \E paid \in BOOLEAN, s \in Shapes : Create(c, paid, s[1], s[2])
             \/ RunMoves(c) \/ RecordSimulations(c) \/ SimulationsAge(c) \/ Approve(c)
      PROVE  records' = records /\ profile' = profile
  BY <1>6 DEF RunMoves, WalletMoves, Arm, ExecuteCheck, Admit, EngineStart, Gate, Sign, Mine, RecordFinal,
              Settle, Create, RecordSimulations, SimulationsAge, Approve, ownerVars
<1> QED
  BY <1>1, <1>2, <1>3, <1>4, <1>5, <1>6 DEF Next, RunMoves, WalletMoves

\* While the owner's record does not allow it, no run is started, admitted or let
\* through its gate, whatever it was granted earlier (engine-adapter.ts
\* preSignReservationGate).
THEOREM OffStaysOff == Spec => OffMeansOff
<1>1. TypeOK /\ [Next]_vars =>
        [\A c \in Campaigns :
           L2 /\ ~Allowed(campaign[c].paid) =>
             /\ run'[c] \in {"checked", "admitted", "engine"} => run[c] = run'[c]
             /\ \A w \in Wallets : tx'[c][w] = "gated" => tx[c][w] = "gated"]_vars
  BY OffStep
<1> QED
  BY <1>1, GatesTypeCorrect, PTL DEF Spec, OffMeansOff

\* Evidence that stopped counting never counts again, so a campaign prepared under
\* a revoked record stays refused after the next one (canonical-store.ts
\* readChainEvidence).
THEOREM EvidenceStaysOff == Spec => EvidenceNeverReturns
<1>1. TypeOK /\ [Next]_vars =>
        [\A e \in DOMAIN records : ~EvidenceLive(e) => ~EvidenceLive(e)']_vars
  BY EvidenceStep
<1> QED
  BY <1>1, GatesTypeCorrect, PTL DEF Spec, EvidenceNeverReturns

-----------------------------------------------------------------------------
(* FireRequests                                                            *)

\* The rows and the pipelines.
Schedule == [state : {"absent", "open", "started", "expired", "cancelled"}, campaign : Targets \cup {NoTarget}, from : 0 .. Lead, until : 0 .. 2 * Lead]
Request == [state : {"absent", "waiting", "started", "expired", "cancelled"}, campaign : Targets \cup {NoTarget},
            fired : BOOLEAN, left : 0 .. Life, hold : 0 .. Hold, run : {"absent", "Armed", "Active", "Completed", "Failed"},
            recent : 0 .. Hold, result : BOOLEAN]
Pipe == [pc : {"idle", "checking", "simulating", "approving", "asking", "consenting"}, campaign : Targets \cup {NoTarget}, left : 0 .. Life]

\* A pipeline that holds its campaign.
InPipeline(o) == pipe[o].pc \in {"simulating", "approving"}

\* Who is in a pipeline has no request yet, and what is absent is empty.
OneRequestEach ==
  /\ \A o \in Askers : pipe[o].pc # "idle" => request[o].state = "absent"
  /\ \A o \in Askers : request[o].state = "absent" => request[o] = NoRequest
  /\ \A o \in Askers : pipe[o].pc = "checking" => o \in Schedules
  /\ \A o \in Askers : pipe[o].pc \in {"asking", "consenting"} => o \in Commands

\* Two pipelines do not hold the same campaign.
CampaignsHeld ==
  /\ \A o \in Askers : InPipeline(o) => pipe[o].campaign \in inFlight
  /\ \A o, p \in Askers : InPipeline(o) /\ InPipeline(p) /\ pipe[o].campaign = pipe[p].campaign => o = p

\* The order in which rows were stored has each of them; a schedule that was stored is for a campaign.
RowsInOrder ==
  /\ ToSet(rows) = {o \in Askers : request[o].state # "absent"}
  /\ ToSet(booked) = {s \in Schedules : schedule[s].state # "absent"}
  /\ \A s \in Schedules : schedule[s].state # "absent" => schedule[s].campaign \in Targets

\* A pass works on rows that were stored.
PassesRead ==
  /\ tick.todo \subseteq ToSet(booked) /\ (tick.pc # "idle" => tick.todo # {})
  /\ pass.todo \subseteq ToSet(rows) /\ (pass.pc # "idle" => pass.todo # {})

\* Who waits has no result and no run.
NoResultYet == \A o \in Askers : request[o].state = "waiting" => ~request[o].result /\ request[o].run = "absent"

\* The request that the processor has claimed is started and has no result; those it still has
\* to claim are not started.
ClaimedByThisPass ==
  /\ pass.pc \in {"arming", "running", "recording"} => request[AtHand].state = "started" /\ ~request[AtHand].result
  /\ pass.pc = "running" => request[AtHand].run = "Armed"
  /\ \A o \in pass.todo : pass.pc = "next" \/ o # AtHand => request[o].state # "started"
  /\ ~alive => pass = NoPass

\* While a pipeline holds a campaign no other request it fired for the campaign is live.
NobodyElseLive ==
  \A o \in Askers : InPipeline(o) =>
    \A p \in Askers \ {o} : request[p].campaign = pipe[o].campaign /\ request[p].fired => ~Live(p)

FireInv ==
  FireSafety /\ OneRequestEach /\ CampaignsHeld /\ RowsInOrder /\ PassesRead /\ NoResultYet /\ ClaimedByThisPass /\ NobodyElseLive

---------------------------------------------------------------------------
(* What is oldest                                                          *)

\* What a pass works on next is one of the rows it has left to work on.
LEMMA OldestIsOne ==
  ASSUME NEW A, NEW order \in Seq(A), NEW S, S # {}, S \subseteq ToSet(order)
  PROVE  Oldest(order, S) \in S
<1> DEFINE T == {i \in DOMAIN order : order[i] \in S}
           First(i) == order[i] \in S /\ \A j \in 1 .. i - 1 : order[j] \notin S
<1>1. DOMAIN order = 1 .. Len(order) /\ Len(order) \in Nat
  OBVIOUS
<1>2. T \in SUBSET Nat /\ T # {}
  BY <1>1 DEF ToSet
<1>3. PICK i \in T : \A j \in T : i <= j
  <2> HIDE DEF T
  <2> QED
    BY <1>2, LeastOf
<1>4. i \in DOMAIN order /\ First(i)
  BY <1>1, <1>3
<1>5. First(CHOOSE k \in DOMAIN order : First(k))
  <2> HIDE DEF First
  <2> QED
    BY <1>4
<1> QED
  BY <1>5 DEF Oldest

\* A row stored meanwhile does not change it.
LEMMA OldestStays ==
  ASSUME NEW A, NEW order \in Seq(A), NEW e \in A, NEW S, S # {}, S \subseteq ToSet(order)
  PROVE  Oldest(Append(order, e), S) = Oldest(order, S)
<1> DEFINE T == {i \in DOMAIN order : order[i] \in S}
           more == Append(order, e)
           First(s, i) == s[i] \in S /\ \A j \in 1 .. i - 1 : s[j] \notin S
<1>1. /\ Len(order) \in Nat /\ DOMAIN order = 1 .. Len(order) /\ DOMAIN more = 1 .. Len(order) + 1
      /\ \A i \in 1 .. Len(order) : more[i] = order[i]
  OBVIOUS
<1>2. T \in SUBSET Nat /\ T # {}
  BY <1>1 DEF ToSet
<1>3. PICK i \in T : \A j \in T : i <= j
  <2> HIDE DEF T
  <2> QED
    BY <1>2, LeastOf
<1> HIDE DEF more
<1>4. i \in DOMAIN order /\ i \in DOMAIN more /\ First(order, i) /\ First(more, i) /\ more[i] = order[i]
  BY <1>1, <1>3
<1>5. \A k \in DOMAIN order : First(order, k) => k = i
  BY <1>1, <1>4
<1>6. \A k \in DOMAIN more : First(more, k) => k = i
  BY <1>1, <1>4
<1>7. (CHOOSE k \in DOMAIN order : First(order, k)) = i /\ (CHOOSE k \in DOMAIN more : First(more, k)) = i
  <2> HIDE DEF First
  <2> QED
    BY <1>4, <1>5, <1>6
<1> QED
  BY <1>4, <1>7 DEF Oldest, more

\* One more row that was not stored before.
LEMMA RowStored ==
  ASSUME NEW A, NEW order \in Seq(A), IsInjective(order), NEW e \in A, e \notin ToSet(order)
  PROVE  Append(order, e) \in Seq(A) /\ IsInjective(Append(order, e)) /\ ToSet(Append(order, e)) = ToSet(order) \cup {e}
<1> DEFINE more == Append(order, e)
           n == Len(order)
<1>1. n \in Nat /\ DOMAIN order = 1 .. n
  OBVIOUS
<1>2. more \in Seq(A) /\ DOMAIN more = 1 .. n + 1 /\ more[n + 1] = e /\ \A i \in 1 .. n : more[i] = order[i]
  BY <1>1
<1> HIDE DEF more, n
<1>3. /\ \A i \in 1 .. n + 1 : i \in 1 .. n \/ i = n + 1
      /\ n + 1 \in 1 .. n + 1 /\ \A i \in 1 .. n : i \in 1 .. n + 1
  BY <1>1
<1>4. ToSet(more) = ToSet(order) \cup {e}
  BY <1>1, <1>2, <1>3 DEF ToSet
<1>5. \A i \in 1 .. n : order[i] \in ToSet(order)
  BY <1>1 DEF ToSet
<1>6. IsInjective(more)
  BY <1>1, <1>2, <1>3, <1>5 DEF IsInjective
<1> QED
  BY <1>2, <1>4, <1>6 DEF more

---------------------------------------------------------------------------
(* What the invariant says of a state                                      *)

\* The types by name, and that what is at hand is one of the rows of the pass.
LEMMA FireFacts ==
  ASSUME FireInv
  PROVE  /\ alive \in BOOLEAN /\ killed \in BOOLEAN /\ killing \in BOOLEAN /\ faults \in 0 .. Faults /\ late \subseteq Askers
         /\ schedule \in [Schedules -> Schedule] /\ request \in [Askers -> Request] /\ pipe \in [Askers -> Pipe]
         /\ rows \in Seq(Askers) /\ IsInjective(rows) /\ booked \in Seq(Schedules) /\ IsInjective(booked)
         /\ tick.todo \subseteq Schedules /\ pass.todo \subseteq Askers
         /\ tick.todo \subseteq ToSet(booked) /\ (tick.pc # "idle" => tick.todo # {})
         /\ pass.todo \subseteq ToSet(rows) /\ (pass.pc # "idle" => pass.todo # {})
         /\ (tick.todo # {} => Due \in tick.todo) /\ (pass.todo # {} => AtHand \in pass.todo)
<1>1. FireTypeOK /\ PassesRead
  BY DEF FireInv, FireSafety
<1>2. rows \in Seq(Askers) /\ pass.todo \subseteq ToSet(rows) /\ booked \in Seq(Schedules) /\ tick.todo \subseteq ToSet(booked)
  BY <1>1 DEF FireTypeOK, PassesRead
<1>3. (tick.todo # {} => Due \in tick.todo) /\ (pass.todo # {} => AtHand \in pass.todo)
  BY <1>2, OldestIsOne DEF Due, AtHand
<1> QED
  BY <1>1, <1>3 DEF FireTypeOK, PassesRead, Schedule, Request, Pipe

\* What changes of a row or a pipeline leaves it one.
LEMMA RowShapes ==
  /\ NoSchedule \in Schedule /\ NoRequest \in Request /\ NoPipe \in Pipe
  /\ \A s \in Schedule, state \in {"open", "started", "expired", "cancelled"} : [s EXCEPT !.state = state] \in Schedule
  /\ \A r \in Request :
       /\ \A state \in {"started", "expired", "cancelled"} : [r EXCEPT !.state = state] \in Request
       /\ \A end \in {"Armed", "Active", "Completed", "Failed"} : [r EXCEPT !.run = end] \in Request
       /\ [r EXCEPT !.result = TRUE] \in Request
       /\ [r EXCEPT !.hold = Hold] \in Request /\ [r EXCEPT !.recent = Hold] \in Request
  /\ \A p \in Pipe :
       /\ \A pc \in {"checking", "approving"} : [p EXCEPT !.pc = pc] \in Pipe
       /\ [p EXCEPT !.left = Life] \in Pipe
<1>1. {Life, Hold, Lead} \subseteq Nat \ {0}
  BY TimesAssumption
<1>2. 0 \in 0 .. Lead /\ 0 \in 0 .. 2 * Lead /\ 0 \in 0 .. Life /\ 0 \in 0 .. Hold /\ Hold \in 0 .. Hold /\ Life \in 0 .. Life
  BY <1>1
<1>3. NoSchedule \in Schedule /\ NoRequest \in Request /\ NoPipe \in Pipe
  BY <1>2 DEF NoSchedule, NoRequest, NoPipe, NoTarget, Schedule, Request, Pipe
<1>4. \A s \in Schedule, state \in {"open", "started", "expired", "cancelled"} : [s EXCEPT !.state = state] \in Schedule
  BY DEF Schedule
<1>5. \A r \in Request :
       /\ \A state \in {"started", "expired", "cancelled"} : [r EXCEPT !.state = state] \in Request
       /\ \A end \in {"Armed", "Active", "Completed", "Failed"} : [r EXCEPT !.run = end] \in Request
       /\ [r EXCEPT !.result = TRUE] \in Request
       /\ [r EXCEPT !.hold = Hold] \in Request /\ [r EXCEPT !.recent = Hold] \in Request
  BY <1>2 DEF Request
<1>6. \A p \in Pipe :
       /\ \A pc \in {"checking", "approving"} : [p EXCEPT !.pc = pc] \in Pipe
       /\ [p EXCEPT !.left = Life] \in Pipe
  BY <1>2 DEF Pipe
<1> QED
  BY <1>3, <1>4, <1>5, <1>6

\* A request that was stored meanwhile does not change which one is at hand.
LEMMA SameAtHand ==
  ASSUME FireInv, pass'.todo = pass.todo, pass.todo # {}, rows' = rows \/ \E o \in Askers : rows' = Append(rows, o)
  PROVE  AtHand' = AtHand
<1>1. rows \in Seq(Askers) /\ pass.todo \subseteq ToSet(rows)
  BY FireFacts
<1>2. CASE rows' = rows
  BY <1>2 DEF AtHand
<1>3. CASE \E o \in Askers : rows' = Append(rows, o)
  <2>1. PICK o \in Askers : rows' = Append(rows, o)
    BY <1>3
  <2>2. Oldest(Append(rows, o), pass.todo) = Oldest(rows, pass.todo)
    BY <1>1, OldestStays
  <2> QED
    BY <2>1, <2>2 DEF AtHand
<1> QED
  BY <1>2, <1>3

\* Which request is at hand next is one of those the next pass has left.
LEMMA NextAtHand ==
  ASSUME FireInv, rows' = rows, pass'.todo \subseteq ToSet(rows), pass'.todo # {}
  PROVE  AtHand' \in pass'.todo
<1>1. rows \in Seq(Askers)
  BY FireFacts
<1>2. Oldest(rows, pass'.todo) \in pass'.todo
  BY <1>1, OldestIsOne
<1> QED
  BY <1>2 DEF AtHand

TickType == [todo : SUBSET Schedules, seen : [Schedules -> {"before", "inside", "past"}] \cup {<<>>}, pc : {"idle", "next", "reading", "firing"}]
PassType == [todo : SUBSET Askers, pc : {"idle", "next", "arming", "running", "recording"}]

\* How the scheduler's pass goes on.
LEMMA TickMoves ==
  ASSUME FireInv
  PROVE  /\ NoTick \in TickType /\ tick \in TickType
         /\ \A pc \in {"next", "reading", "firing"} : [tick EXCEPT !.pc = pc] \in TickType
         /\ tick.pc # "idle" /\ Onward =>
              tick' \in TickType /\ tick'.todo \subseteq tick.todo /\ (tick'.pc # "idle" => tick'.todo # {})
<1>1. tick \in TickType /\ NoTick \in TickType
  BY DEF FireInv, FireSafety, FireTypeOK, TickType, NoTick
<1>2. \A pc \in {"next", "reading", "firing"} : [tick EXCEPT !.pc = pc] \in TickType
  BY <1>1 DEF TickType
<1>3. ASSUME tick.pc # "idle", Onward
      PROVE  tick' \in TickType /\ tick'.todo \subseteq tick.todo /\ (tick'.pc # "idle" => tick'.todo # {})
  <2>1. tick.todo # {}
    BY <1>3, FireFacts
  <2>2. CASE tick.todo = {Due}
    BY <1>1, <1>3, <2>2 DEF Onward, NoTick
  <2>3. CASE tick.todo # {Due}
    BY <1>1, <1>3, <2>1, <2>3 DEF Onward, TickType
  <2> QED
    BY <2>2, <2>3
<1> QED
  BY <1>1, <1>2, <1>3

\* A step that moves the scheduler's pass and gives outcomes to schedules other than started ones,
\* or that turns the kill switch.
LEMMA OnSchedules ==
  ASSUME FireInv, UNCHANGED <<alive, request, booked, rows, pipe, inFlight, pass, late>>,
         killed' \in BOOLEAN, killing' \in BOOLEAN, faults' \in 0 .. Faults,
         tick' \in TickType, tick'.todo \subseteq ToSet(booked), tick'.pc # "idle" => tick'.todo # {},
         schedule' \in [Schedules -> Schedule],
         \A s \in Schedules : /\ schedule'[s].campaign = schedule[s].campaign
                              /\ schedule'[s].state = "absent" <=> schedule[s].state = "absent"
                              /\ schedule[s].state = "started" => schedule'[s].state = "started"
  PROVE  FireInv'
<1>1. FireTypeOK'
  <2>1. tick'.todo \subseteq Schedules
    BY DEF TickType
  <2> QED
    BY <2>1 DEF FireInv, FireSafety, FireTypeOK, Schedule, TickType
<1>2. OnlyStartedFire'
  BY DEF FireInv, FireSafety, OnlyStartedFire
<1>3. OneRequestEach' /\ CampaignsHeld'
  BY DEF FireInv, OneRequestEach, CampaignsHeld, InPipeline
<1>4. RowsInOrder' /\ PassesRead'
  BY DEF FireInv, RowsInOrder, PassesRead
<1>5. AtHand' = AtHand
  BY DEF AtHand
<1>6. ClaimedByThisPass' /\ NobodyElseLive'
  BY <1>5 DEF FireInv, ClaimedByThisPass, NobodyElseLive, InPipeline, Live, InTime, RunOpen
<1>7. NoResultYet'
  BY DEF FireInv, NoResultYet
<1> QED
  BY <1>1, <1>2, <1>3, <1>4, <1>6, <1>7 DEF FireInv, FireSafety

\* A step that moves requests that are stored, or the processor's pass, and brings none to life.
LEMMA OnRequests ==
  ASSUME FireInv, UNCHANGED <<killed, schedule, booked, rows, pipe, inFlight, tick, killing>>,
         alive' \in BOOLEAN, faults' \in 0 .. Faults, late' \subseteq Askers,
         pass' \in PassType, pass'.todo \subseteq ToSet(rows), pass'.pc # "idle" => pass'.todo # {},
         request' \in [Askers -> Request],
         \A o \in Askers : /\ request'[o].campaign = request[o].campaign /\ request'[o].fired = request[o].fired
                           /\ request'[o].state = "absent" <=> request[o].state = "absent"
                           /\ request[o].state = "absent" => request'[o] = request[o]
                           /\ request'[o].state = "waiting" => request'[o] = request[o]
                           /\ Live(o)' => Live(o),
         ClaimedByThisPass'
  PROVE  FireInv'
<1>1. FireTypeOK'
  BY DEF FireInv, FireSafety, FireTypeOK, Request, PassType
<1>2. OnlyStartedFire'
  BY DEF FireInv, FireSafety, OnlyStartedFire, Askers
<1>3. OneRequestEach' /\ CampaignsHeld'
  BY DEF FireInv, OneRequestEach, CampaignsHeld, InPipeline
<1>4. RowsInOrder' /\ PassesRead'
  BY DEF FireInv, RowsInOrder, PassesRead
<1>6. NobodyElseLive'
  BY DEF FireInv, NobodyElseLive, InPipeline
<1>7. NoResultYet'
  BY DEF FireInv, NoResultYet
<1> QED
  BY <1>1, <1>2, <1>3, <1>4, <1>6, <1>7 DEF FireInv, FireSafety

---------------------------------------------------------------------------
(* The scheduler's pass, the owner's cancel and the kill                   *)

LEMMA TickBeginKeeps == FireInv /\ TickBegin => FireInv'
<1> SUFFICES ASSUME FireInv, TickBegin PROVE FireInv'
  OBVIOUS
<1>1. \A s \in Schedules : schedule[s].state = "open" => s \in ToSet(booked)
  BY DEF FireInv, RowsInOrder
<1>2. tick' \in TickType /\ tick'.todo \subseteq ToSet(booked) /\ (tick'.pc # "idle" => tick'.todo # {})
  BY <1>1 DEF TickBegin, TickType
<1> QED
  BY <1>2, FireFacts, OnSchedules DEF TickBegin, stored

\* Whatever the outcome, a claim leaves the schedules that are no longer open alone.
LEMMA ClaimKeeps ==
  ASSUME FireInv, NEW s \in Schedules, NEW outcome \in {"started", "expired", "cancelled"}, Claim(s, outcome)
  PROVE  /\ schedule' \in [Schedules -> Schedule]
         /\ \A t \in Schedules : /\ schedule'[t].campaign = schedule[t].campaign
                                 /\ schedule'[t].state = "absent" <=> schedule[t].state = "absent"
                                 /\ schedule[t].state = "started" => schedule'[t].state = "started"
                                 /\ schedule'[t].state = "started" => schedule[t].state = "started" \/ t = s
<1>1. schedule \in [Schedules -> Schedule]
  BY FireFacts
<1>2. schedule' = [schedule EXCEPT ![s] = IF schedule[s].state = "open" THEN [schedule[s] EXCEPT !.state = outcome] ELSE schedule[s]]
  <2>1. schedule[s] \in Schedule
    BY <1>1
  <2>2. [schedule[s] EXCEPT !.state = schedule[s].state] = schedule[s]
    BY <2>1 DEF Schedule
  <2> QED
    BY <1>1, <2>2 DEF Claim
<1>3. [schedule[s] EXCEPT !.state = outcome] \in Schedule
  BY <1>1, RowShapes
<1>4. [schedule[s] EXCEPT !.state = outcome].campaign = schedule[s].campaign /\ [schedule[s] EXCEPT !.state = outcome].state = outcome
  BY <1>1 DEF Schedule
<1> QED
  BY <1>1, <1>2, <1>3, <1>4

LEMMA TickNextKeeps == FireInv /\ TickNext => FireInv'
<1> SUFFICES ASSUME FireInv, TickNext PROVE FireInv'
  OBVIOUS
<1>1. tick.pc # "idle" /\ Due \in Schedules
  BY FireFacts DEF TickNext
<1>2. UNCHANGED schedule \/ Claim(Due, "expired")
  BY DEF TickNext
<1>3. Onward \/ tick' = [tick EXCEPT !.pc = "reading"]
  BY DEF TickNext
<1>4. tick' \in TickType /\ tick'.todo \subseteq ToSet(booked) /\ (tick'.pc # "idle" => tick'.todo # {})
  <2>1. CASE Onward
    BY <1>1, <2>1, TickMoves, FireFacts
  <2>2. CASE tick' = [tick EXCEPT !.pc = "reading"]
    BY <1>1, <2>2, TickMoves, FireFacts DEF TickType
  <2> QED
    BY <1>3, <2>1, <2>2
<1>5. /\ schedule' \in [Schedules -> Schedule]
      /\ \A t \in Schedules : /\ schedule'[t].campaign = schedule[t].campaign
                              /\ schedule'[t].state = "absent" <=> schedule[t].state = "absent"
                              /\ schedule[t].state = "started" => schedule'[t].state = "started"
  BY <1>1, <1>2, ClaimKeeps, FireFacts
<1> QED
  BY <1>4, <1>5, FireFacts, OnSchedules DEF TickNext

\* A schedule that the pass has claimed goes into the pipeline and it alone.
LEMMA TickStateKeeps == FireInv /\ TickState => FireInv'
<1> SUFFICES ASSUME FireInv, TickState PROVE FireInv'
  OBVIOUS
<1>1. tick.pc = "reading" /\ tick.todo # {} /\ Due \in Schedules /\ Due \in Askers
  BY FireFacts DEF TickState, Askers
<1>2. CASE Onward /\ UNCHANGED pipe /\ (Claim(Due, "expired") \/ UNCHANGED schedule)
  <2>1. tick' \in TickType /\ tick'.todo \subseteq ToSet(booked) /\ (tick'.pc # "idle" => tick'.todo # {})
    BY <1>1, <1>2, TickMoves, FireFacts
  <2>2. /\ schedule' \in [Schedules -> Schedule]
        /\ \A t \in Schedules : /\ schedule'[t].campaign = schedule[t].campaign
                                /\ schedule'[t].state = "absent" <=> schedule[t].state = "absent"
                                /\ schedule[t].state = "started" => schedule'[t].state = "started"
    BY <1>1, <1>2, ClaimKeeps, FireFacts
  <2> QED
    BY <1>2, <2>1, <2>2, FireFacts, OnSchedules DEF TickState
<1>3. CASE Won(Due) /\ Claim(Due, "started") /\ tick' = [tick EXCEPT !.pc = "firing"] /\ pipe' = [pipe EXCEPT ![Due].pc = "checking"]
  <2>1. tick' \in TickType /\ tick'.todo = tick.todo
    BY <1>3, TickMoves DEF TickType
  <2>2. schedule[Due].state = "open" /\ request[Due].state = "absent" /\ pipe[Due].pc = "idle"
    BY <1>1, <1>3 DEF Won, FireInv, FireSafety, OnlyStartedFire
  <2>3. /\ schedule' \in [Schedules -> Schedule]
        /\ \A t \in Schedules : /\ schedule'[t].campaign = schedule[t].campaign
                                /\ schedule'[t].state = "absent" <=> schedule[t].state = "absent"
                                /\ schedule[t].state = "started" => schedule'[t].state = "started"
        /\ schedule'[Due].state = "started"
    <3>1. schedule'[Due].state = "started"
      BY <1>1, <1>3, <2>2, FireFacts DEF Claim
    <3> QED
      BY <1>1, <1>3, <3>1, ClaimKeeps
  <2>4. pipe' \in [Askers -> Pipe] /\ pipe'[Due].pc = "checking" /\ \A o \in Askers \ {Due} : pipe'[o] = pipe[o]
    <3>1. [pipe[Due] EXCEPT !.pc = "checking"] \in Pipe
      BY <1>1, RowShapes, FireFacts
    <3>2. [pipe[Due] EXCEPT !.pc = "checking"].pc = "checking"
      BY <1>1, FireFacts DEF Pipe
    <3> QED
      BY <1>1, <1>3, <3>1, <3>2, FireFacts
  <2>5. UNCHANGED <<alive, killed, request, booked, rows, inFlight, pass, killing, faults, late>>
    BY DEF TickState
  <2>6. FireTypeOK'
    <3>1. tick'.todo \subseteq Schedules
      BY <2>1 DEF TickType
    <3> QED
      BY <2>1, <2>3, <2>4, <2>5, <3>1 DEF FireInv, FireSafety, FireTypeOK, Schedule, Pipe, TickType
  <2>7. OnlyStartedFire'
    BY <2>2, <2>3, <2>4, <2>5 DEF FireInv, FireSafety, OnlyStartedFire, Askers
  <2>8. OneRequestEach' /\ CampaignsHeld'
    BY <1>1, <2>2, <2>4, <2>5 DEF FireInv, OneRequestEach, CampaignsHeld, InPipeline
  <2>9. RowsInOrder' /\ PassesRead'
    BY <1>1, <2>1, <2>3, <2>5 DEF FireInv, RowsInOrder, PassesRead
  <2>10. AtHand' = AtHand
    BY <2>5 DEF AtHand
  <2>11. ClaimedByThisPass' /\ NobodyElseLive'
    BY <2>4, <2>5, <2>10 DEF FireInv, ClaimedByThisPass, NobodyElseLive, InPipeline, Live, InTime, RunOpen
  <2>12. NoResultYet'
    BY <2>5 DEF FireInv, NoResultYet
  <2> QED
    BY <2>6, <2>7, <2>8, <2>9, <2>11, <2>12 DEF FireInv, FireSafety
<1> QED
  BY <1>2, <1>3 DEF TickState

LEMMA TickFiredKeeps == FireInv /\ TickFired => FireInv'
<1> SUFFICES ASSUME FireInv, TickFired PROVE FireInv'
  OBVIOUS
<1>1. tick' \in TickType /\ tick'.todo \subseteq ToSet(booked) /\ (tick'.pc # "idle" => tick'.todo # {})
  BY TickMoves, FireFacts DEF TickFired
<1> QED
  BY <1>1, FireFacts, OnSchedules DEF TickFired, stored

LEMMA CancelScheduleKeeps == \A s \in Schedules : FireInv /\ CancelSchedule(s) => FireInv'
<1> SUFFICES ASSUME NEW s \in Schedules, FireInv, CancelSchedule(s) PROVE FireInv'
  OBVIOUS
<1>1. /\ schedule' \in [Schedules -> Schedule]
      /\ \A t \in Schedules : /\ schedule'[t].campaign = schedule[t].campaign
                              /\ schedule'[t].state = "absent" <=> schedule[t].state = "absent"
                              /\ schedule[t].state = "started" => schedule'[t].state = "started"
  BY ClaimKeeps DEF CancelSchedule
<1>2. tick' \in TickType
  BY TickMoves DEF CancelSchedule, memory
<1> QED
  BY <1>1, <1>2, FireFacts, OnSchedules DEF CancelSchedule, memory

LEMMA KillCancelsKeeps == FireInv /\ KillCancels => FireInv'
<1> SUFFICES ASSUME FireInv, KillCancels PROVE FireInv'
  OBVIOUS
<1>1. \A s \in Schedules : [schedule[s] EXCEPT !.state = "cancelled"] \in Schedule
  BY RowShapes, FireFacts
<1>2. \A s \in Schedules : /\ [schedule[s] EXCEPT !.state = "cancelled"].campaign = schedule[s].campaign
                           /\ [schedule[s] EXCEPT !.state = "cancelled"].state = "cancelled"
  BY FireFacts DEF Schedule
<1>3. /\ schedule' \in [Schedules -> Schedule]
      /\ \A t \in Schedules : /\ schedule'[t].campaign = schedule[t].campaign
                              /\ schedule'[t].state = "absent" <=> schedule[t].state = "absent"
                              /\ schedule[t].state = "started" => schedule'[t].state = "started"
  BY <1>1, <1>2, FireFacts DEF KillCancels, Open
<1>4. tick' \in TickType
  BY TickMoves DEF KillCancels
<1> QED
  BY <1>3, <1>4, FireFacts, OnSchedules DEF KillCancels

LEMMA SwitchKeeps == FireInv /\ (Kill \/ Release) => FireInv'
<1> SUFFICES ASSUME FireInv, Kill \/ Release PROVE FireInv'
  OBVIOUS
<1>0. alive \in BOOLEAN /\ killing \in BOOLEAN /\ faults \in 0 .. Faults /\ Faults \in Nat
  BY FireFacts, TimesAssumption
<1>1. killed' \in BOOLEAN /\ killing' \in BOOLEAN /\ faults' \in 0 .. Faults
  <2>1. killed' \in BOOLEAN
    BY DEF Kill, Release
  <2>2. killing' \in {FALSE, alive, killing}
    BY DEF Kill, Release, memory
  <2>3. killing' \in BOOLEAN
    BY <1>0, <2>2
  <2>4. faults' = faults \/ (faults > 0 /\ faults' = faults - 1)
    BY DEF Kill, Release
  <2>5. faults' \in 0 .. Faults
    BY <1>0, <2>4
  <2> QED
    BY <2>1, <2>3, <2>5
<1>2. tick' \in TickType
  BY TickMoves DEF Kill, Release, memory
<1> QED
  BY <1>1, <1>2, FireFacts, OnSchedules DEF Kill, Release, stored, memory

---------------------------------------------------------------------------
(* The processor's pass and the requests it works on                       *)

LEMMA PassBeginKeeps == FireInv /\ PassBegin => FireInv'
<1> SUFFICES ASSUME FireInv, PassBegin PROVE FireInv'
  OBVIOUS
<1> DEFINE waiting == {o \in Askers : request[o].state = "waiting"}
<1>1. pass' = [todo |-> waiting, pc |-> "next"] /\ waiting # {} /\ alive
  BY DEF PassBegin
<1>2. waiting \subseteq ToSet(rows)
  BY DEF FireInv, RowsInOrder
<1>3. pass' \in PassType /\ pass'.todo \subseteq ToSet(rows) /\ (pass'.pc # "idle" => pass'.todo # {})
  BY <1>1, <1>2 DEF PassType
<1>4. AtHand' \in waiting
  BY <1>1, <1>2, NextAtHand DEF PassBegin, stored
<1>5. \A o \in Askers : Live(o)' => Live(o)
  BY <1>1, <1>4 DEF PassBegin, Live, InTime, RunOpen, stored
<1>6. ClaimedByThisPass'
  BY <1>1 DEF PassBegin, ClaimedByThisPass, stored
<1>7. UNCHANGED <<alive, killed, schedule, request, booked, rows, pipe, inFlight, tick, killing, faults, late>>
  BY DEF PassBegin, stored
<1>8. alive \in BOOLEAN /\ faults \in 0 .. Faults /\ late \subseteq Askers /\ request \in [Askers -> Request]
  BY FireFacts
<1> HIDE DEF waiting
<1> QED
  BY <1>3, <1>5, <1>6, <1>7, <1>8, OnRequests

\* How the processor's pass goes on to its next request.
LEMMA PassMoves ==
  ASSUME FireInv, pass.pc # "idle"
  PROVE  /\ NoPass \in PassType /\ pass \in PassType /\ AtHand \in pass.todo /\ AtHand \in Askers
         /\ pass.todo \subseteq ToSet(rows)
         /\ \A pc \in {"arming", "running", "recording"} :
              At(pc) => pass' \in PassType /\ pass'.todo = pass.todo /\ pass'.pc = pc
         /\ Forward => /\ pass' \in PassType /\ pass'.todo = pass.todo \ {AtHand}
                       /\ pass'.pc = IF pass'.todo = {} THEN "idle" ELSE "next"
<1>1. pass \in PassType /\ NoPass \in PassType
  BY DEF FireInv, FireSafety, FireTypeOK, PassType, NoPass
<1>2. AtHand \in pass.todo /\ pass.todo \subseteq Askers /\ pass.todo \subseteq ToSet(rows)
  BY FireFacts
<1>3. \A pc \in {"arming", "running", "recording"} :
        At(pc) => pass' \in PassType /\ pass'.todo = pass.todo /\ pass'.pc = pc
  BY <1>1 DEF At, PassType
<1>4. ASSUME Forward
      PROVE  /\ pass' \in PassType /\ pass'.todo = pass.todo \ {AtHand}
             /\ pass'.pc = IF pass'.todo = {} THEN "idle" ELSE "next"
  <2>1. CASE pass.todo = {AtHand}
    BY <1>1, <1>4, <2>1 DEF Forward, NoPass
  <2>2. CASE pass.todo # {AtHand}
    BY <1>1, <1>2, <1>4, <2>2 DEF Forward, PassType
  <2> QED
    BY <2>1, <2>2
<1> QED
  BY <1>1, <1>2, <1>3, <1>4

\* While there is a pass the process is alive.
LEMMA PassIsAlive ==
  ASSUME FireInv, pass.pc # "idle", alive' = alive
  PROVE  alive' = TRUE
<1>1. alive
  BY DEF FireInv, ClaimedByThisPass, NoPass
<1>2. alive \in BOOLEAN
  BY FireFacts
<1> QED
  BY <1>1, <1>2

\* One field of one request changes.
LEMMA OneRequestMoves ==
  ASSUME FireInv, NEW o \in Askers, NEW r \in Request, request' = [request EXCEPT ![o] = r],
         r.campaign = request[o].campaign, r.fired = request[o].fired, request[o].state # "absent", r.state \notin {"absent", "waiting"}
  PROVE  /\ request' \in [Askers -> Request] /\ request'[o] = r /\ \A p \in Askers \ {o} : request'[p] = request[p]
         /\ \A p \in Askers : /\ request'[p].campaign = request[p].campaign /\ request'[p].fired = request[p].fired
                              /\ request'[p].state = "absent" <=> request[p].state = "absent"
                              /\ request[p].state = "absent" => request'[p] = request[p]
                              /\ request'[p].state = "waiting" => request'[p] = request[p]
                              /\ request'[p].state = "waiting" => request'[p] = request[p]
BY FireFacts

LEMMA PassClaimKeeps == FireInv /\ PassClaim => FireInv'
<1> SUFFICES ASSUME FireInv, PassClaim PROVE FireInv'
  OBVIOUS
<1> DEFINE o == AtHand
<1>0. pass.pc = "next" /\ pass.pc # "idle" /\ UNCHANGED <<alive, killed, schedule, booked, rows, pipe, inFlight, tick, killing, late, faults>>
  BY DEF PassClaim
<1>1. o \in pass.todo /\ o \in Askers /\ pass.todo \subseteq Askers /\ pass.todo \subseteq ToSet(rows) /\ request \in [Askers -> Request] /\ request[o] \in Request
  BY <1>0, PassMoves, FireFacts
<1>2. \A p \in pass.todo : request[p].state # "started"
  BY <1>0 DEF FireInv, ClaimedByThisPass
<1>3. request[o].state # "absent"
  BY <1>1 DEF FireInv, RowsInOrder
<1>4. alive' = TRUE
  BY <1>0, PassIsAlive
\* On to the next request, with the one at hand as it was or expired.
<1>5. CASE Forward /\ (UNCHANGED request \/ request' = [request EXCEPT ![o].state = "expired", ![o].result = TRUE])
  <2>1. pass' \in PassType /\ pass'.todo = pass.todo \ {o} /\ pass'.pc = IF pass'.todo = {} THEN "idle" ELSE "next"
    BY <1>0, <1>5, PassMoves
  <2>2. /\ request' \in [Askers -> Request] /\ \A p \in Askers \ {o} : request'[p] = request[p]
        /\ \A p \in Askers : /\ request'[p].campaign = request[p].campaign /\ request'[p].fired = request[p].fired
                             /\ request'[p].state = "absent" <=> request[p].state = "absent"
                             /\ request[p].state = "absent" => request'[p] = request[p]
                             /\ request'[p].state = "waiting" => request'[p] = request[p]
        /\ request'[o].run = request[o].run /\ request'[o].left = request[o].left
        /\ request'[o].state \in {request[o].state, "expired"}
    <3> DEFINE r == [request[o] EXCEPT !.state = "expired", !.result = TRUE]
    <3>1. /\ r \in Request /\ r.campaign = request[o].campaign /\ r.fired = request[o].fired /\ r.state = "expired"
          /\ r.run = request[o].run /\ r.left = request[o].left
      BY <1>1 DEF Request
    <3>2. UNCHANGED request \/ request' = [request EXCEPT ![o] = r]
      BY <1>1, <1>5
    <3> HIDE DEF r, o
    <3> QED
      BY <1>1, <1>3, <3>1, <3>2
  <2>3. pass'.todo # {} => AtHand' \in pass'.todo
    BY <1>0, <1>1, <2>1, NextAtHand
  <2>4. ASSUME NEW p \in Askers PROVE Live(p)' => Live(p)
    <3>1. AtHand' = p /\ pass'.todo # {} => request'[p].state # "started"
      BY <1>2, <2>1, <2>2, <2>3
    <3> HIDE DEF o
    <3> QED
      BY <1>0, <2>2, <3>1 DEF Live, InTime, RunOpen
  <2>5. ClaimedByThisPass'
    <3>1. pass'.pc \in {"idle", "next"}
      BY <2>1
    <3>2. ASSUME NEW p \in pass'.todo PROVE request'[p].state # "started"
      BY <1>1, <1>2, <2>1, <2>2
    <3> HIDE DEF o
    <3> QED
      BY <1>4, <3>1, <3>2 DEF ClaimedByThisPass
  <2> HIDE DEF o
  <2> QED
    BY <1>0, <1>1, <2>1, <2>2, <2>4, <2>5, FireFacts, OnRequests
\* The request is claimed.
<1>6. CASE request[o].state = "waiting" /\ InTime(o) /\ request' = [request EXCEPT ![o].state = "started", ![o].hold = Hold] /\ At("arming")
  <2>1. pass' \in PassType /\ pass'.todo = pass.todo /\ pass'.pc = "arming" /\ AtHand' = o
    BY <1>0, <1>1, <1>6, PassMoves, SameAtHand
  <2>2. /\ request' \in [Askers -> Request] /\ \A p \in Askers \ {o} : request'[p] = request[p]
        /\ \A p \in Askers : /\ request'[p].campaign = request[p].campaign /\ request'[p].fired = request[p].fired
                             /\ request'[p].state = "absent" <=> request[p].state = "absent"
                             /\ request[p].state = "absent" => request'[p] = request[p]
                             /\ request'[p].state = "waiting" => request'[p] = request[p]
        /\ request'[o].state = "started" /\ request'[o].result = request[o].result
    <3> DEFINE r == [request[o] EXCEPT !.state = "started", !.hold = Hold]
    <3>1. /\ r \in Request /\ r.campaign = request[o].campaign /\ r.fired = request[o].fired /\ r.state = "started"
          /\ r.result = request[o].result
      <4>1. Hold \in 0 .. Hold
        BY TimesAssumption
      <4> QED
        BY <1>1, <4>1 DEF Request
    <3>2. request' = [request EXCEPT ![o] = r]
      BY <1>1, <1>6
    <3> HIDE DEF r, o
    <3> QED
      BY <1>1, <1>3, <3>1, <3>2
  <2>3. ~request[o].result
    BY <1>1, <1>6 DEF FireInv, NoResultYet
  <2>4. ASSUME NEW p \in Askers PROVE Live(p)' => Live(p)
    <3>1. CASE p = o
      BY <1>6, <3>1 DEF Live
    <3>2. CASE p # o
      BY <1>0, <2>1, <2>2, <3>2 DEF Live, InTime, RunOpen
    <3> QED
      BY <3>1, <3>2
  <2>5. ClaimedByThisPass'
    <3>1. pass'.pc = "arming" /\ AtHand' = o /\ request'[o].state = "started" /\ ~request'[o].result
      BY <2>1, <2>2, <2>3
    <3>2. ASSUME NEW p \in pass'.todo, p # o PROVE request'[p].state # "started"
      BY <1>1, <1>2, <2>1, <2>2, <3>2
    <3> HIDE DEF o
    <3> QED
      BY <1>4, <3>1, <3>2 DEF ClaimedByThisPass
  <2> HIDE DEF o
  <2> QED
    BY <1>0, <1>1, <2>1, <2>2, <2>4, <2>5, FireFacts, OnRequests
<1> QED
  BY <1>5, <1>6 DEF PassClaim

LEMMA PassArmKeeps == FireInv /\ PassArm => FireInv'
<1> SUFFICES ASSUME FireInv, PassArm PROVE FireInv'
  OBVIOUS
<1> DEFINE o == AtHand
<1>0. pass.pc = "arming" /\ pass.pc # "idle" /\ UNCHANGED <<alive, killed, schedule, booked, rows, pipe, inFlight, tick, killing, faults>>
  BY DEF PassArm
<1>1. o \in pass.todo /\ o \in Askers /\ pass.todo \subseteq Askers /\ pass.todo \subseteq ToSet(rows) /\ request \in [Askers -> Request] /\ request[o] \in Request
  BY <1>0, PassMoves, FireFacts
<1>2. /\ request[o].state = "started" /\ ~request[o].result
      /\ \A p \in pass.todo : p # o => request[p].state # "started"
  BY <1>0 DEF FireInv, ClaimedByThisPass
<1>3. alive' = TRUE
  BY <1>0, PassIsAlive
<1>4. CASE At("recording") /\ UNCHANGED <<request, late>>
  <2>1. pass' \in PassType /\ pass'.todo = pass.todo /\ pass'.pc = "recording" /\ AtHand' = o
    BY <1>0, <1>1, <1>4, PassMoves, SameAtHand
  <2>2. \A p \in Askers : Live(p)' => Live(p)
    BY <1>0, <1>4, <2>1 DEF Live, InTime, RunOpen
  <2>3. ClaimedByThisPass'
    BY <1>2, <1>3, <1>4, <2>1 DEF ClaimedByThisPass
  <2> HIDE DEF o
  <2> QED
    BY <1>0, <1>1, <1>4, <2>1, <2>2, <2>3, FireFacts, OnRequests
<1>5. CASE request' = [request EXCEPT ![o].run = "Armed"] /\ At("running") /\ late' = IF request[o].hold = 0 THEN late \cup {o} ELSE late
  <2>1. pass' \in PassType /\ pass'.todo = pass.todo /\ pass'.pc = "running" /\ AtHand' = o
    BY <1>0, <1>1, <1>5, PassMoves, SameAtHand
  <2>2. /\ request' \in [Askers -> Request] /\ \A p \in Askers \ {o} : request'[p] = request[p]
        /\ \A p \in Askers : /\ request'[p].campaign = request[p].campaign /\ request'[p].fired = request[p].fired
                             /\ request'[p].state = "absent" <=> request[p].state = "absent"
                             /\ request[p].state = "absent" => request'[p] = request[p]
                             /\ request'[p].state = "waiting" => request'[p] = request[p]
        /\ request'[o].state = "started" /\ ~request'[o].result /\ request'[o].hold = request[o].hold /\ request'[o].run = "Armed"
        /\ late' \subseteq Askers /\ late \subseteq late' /\ (o \notin late' => request[o].hold # 0)
    <3> DEFINE r == [request[o] EXCEPT !.run = "Armed"]
    <3>1. /\ r \in Request /\ r.campaign = request[o].campaign /\ r.fired = request[o].fired /\ r.state = request[o].state
          /\ r.result = request[o].result /\ r.hold = request[o].hold /\ r.run = "Armed"
      BY <1>1 DEF Request
    <3>2. request' = [request EXCEPT ![o] = r]
      BY <1>1, <1>5
    <3>3. late' \subseteq Askers /\ late \subseteq late' /\ (o \notin late' => request[o].hold # 0)
      BY <1>1, <1>5, FireFacts
    <3> HIDE DEF r, o
    <3> QED
      BY <1>1, <1>2, <3>1, <3>2, <3>3
  <2>3. ASSUME NEW p \in Askers PROVE Live(p)' => Live(p)
    <3>1. CASE p = o
      <4>1. request[o].hold # 0 => request[o].hold > 0
        BY <1>1, TimesAssumption DEF Request
      <4> QED
        BY <1>1, <1>2, <2>1, <2>2, <3>1, <4>1 DEF Live, InTime, RunOpen
    <3>2. CASE p # o
      BY <1>0, <2>1, <2>2, <3>2 DEF Live, InTime, RunOpen
    <3> QED
      BY <3>1, <3>2
  <2>4. ClaimedByThisPass'
    <3>1. ASSUME NEW p \in pass'.todo, p # o PROVE request'[p].state # "started"
      BY <1>1, <1>2, <2>1, <2>2, <3>1
    <3> HIDE DEF o
    <3> QED
      BY <1>3, <2>1, <2>2, <3>1 DEF ClaimedByThisPass
  <2> HIDE DEF o
  <2> QED
    BY <1>0, <1>1, <2>1, <2>2, <2>3, <2>4, FireFacts, OnRequests
<1> QED
  BY <1>4, <1>5 DEF PassArm

LEMMA PassRunKeeps == FireInv /\ PassRun => FireInv'
<1> SUFFICES ASSUME FireInv, PassRun PROVE FireInv'
  OBVIOUS
<1> DEFINE o == AtHand
<1>0. pass.pc = "running" /\ pass.pc # "idle" /\ UNCHANGED <<alive, killed, schedule, booked, rows, pipe, inFlight, tick, killing, late, faults>>
  BY DEF PassRun
<1>1. o \in pass.todo /\ o \in Askers /\ pass.todo \subseteq Askers /\ pass.todo \subseteq ToSet(rows) /\ request \in [Askers -> Request] /\ request[o] \in Request
  BY <1>0, PassMoves, FireFacts
<1>2. /\ request[o].state = "started" /\ ~request[o].result /\ request[o].run = "Armed"
      /\ \A p \in pass.todo : p # o => request[p].state # "started"
  BY <1>0 DEF FireInv, ClaimedByThisPass
<1>3. alive' = TRUE
  BY <1>0, PassIsAlive
<1>4. pass' \in PassType /\ pass'.todo = pass.todo /\ pass'.pc = "recording" /\ AtHand' = o
  BY <1>0, <1>1, PassMoves, SameAtHand DEF PassRun
<1>5. PICK end \in {"Completed", "Active", "Failed"} :
        request' = [request EXCEPT ![o].run = end, ![o].recent = IF end = "Completed" THEN Hold ELSE @]
  BY DEF PassRun
<1> DEFINE recent == IF end = "Completed" THEN Hold ELSE request[o].recent
           n == [request[o] EXCEPT !.run = end, !.recent = recent]
<1>6. /\ n \in Request /\ n.run = end /\ n.state = request[o].state /\ n.campaign = request[o].campaign /\ n.fired = request[o].fired
      /\ n.left = request[o].left /\ n.hold = request[o].hold /\ n.result = request[o].result
  <2>1. recent \in 0 .. Hold
    BY <1>1, TimesAssumption DEF Request
  <2> HIDE DEF recent, o
  <2> QED
    BY <1>1, <2>1 DEF Request
<1>7. request' = [request EXCEPT ![o] = n]
  BY <1>1, <1>5
<1> HIDE DEF n, o
<1>8. /\ request' \in [Askers -> Request] /\ request'[o] = n /\ \A p \in Askers \ {o} : request'[p] = request[p]
      /\ \A p \in Askers : /\ request'[p].campaign = request[p].campaign /\ request'[p].fired = request[p].fired
                           /\ request'[p].state = "absent" <=> request[p].state = "absent"
                           /\ request[p].state = "absent" => request'[p] = request[p]
                           /\ request'[p].state = "waiting" => request'[p] = request[p]
  BY <1>1, <1>2, <1>6, <1>7
<1>9. ASSUME NEW p \in Askers PROVE Live(p)' => Live(p)
  <2>1. CASE p = o
    BY <1>0, <1>1, <1>2, <1>6, <1>8, <2>1 DEF Live, InTime, RunOpen, o
  <2>2. CASE p # o
    BY <1>0, <1>4, <1>8, <2>2 DEF Live, InTime, RunOpen, o
  <2> QED
    BY <2>1, <2>2
<1>10. ClaimedByThisPass'
  <2>1. ASSUME NEW p \in pass'.todo, p # o PROVE request'[p].state # "started"
    BY <1>1, <1>2, <1>4, <1>8, <2>1
  <2> QED
    BY <1>2, <1>3, <1>4, <1>6, <1>8, <2>1 DEF ClaimedByThisPass
<1> QED
  BY <1>0, <1>1, <1>4, <1>8, <1>9, <1>10, FireFacts, OnRequests

\* A result that is stored, or one that is lost with the pass.
LEMMA PassRecordKeeps == FireInv /\ PassRecord => FireInv'
<1> SUFFICES ASSUME FireInv, PassRecord PROVE FireInv'
  OBVIOUS
<1> DEFINE o == AtHand
<1>0. pass.pc = "recording" /\ pass.pc # "idle" /\ UNCHANGED <<alive, killed, schedule, booked, rows, pipe, inFlight, tick, killing, late>>
  BY DEF PassRecord
<1>1. o \in pass.todo /\ o \in Askers /\ pass.todo \subseteq Askers /\ pass.todo \subseteq ToSet(rows) /\ request \in [Askers -> Request] /\ request[o] \in Request
  BY <1>0, PassMoves, FireFacts
<1>2. /\ request[o].state = "started" /\ ~request[o].result
      /\ \A p \in pass.todo : p # o => request[p].state # "started"
  BY <1>0 DEF FireInv, ClaimedByThisPass
<1>3. alive' = TRUE
  BY <1>0, PassIsAlive
<1>4. CASE request' = [request EXCEPT ![o].result = TRUE] /\ Forward /\ UNCHANGED faults
  <2>1. pass' \in PassType /\ pass'.todo = pass.todo \ {o} /\ pass'.pc = IF pass'.todo = {} THEN "idle" ELSE "next"
    BY <1>0, <1>4, PassMoves
  <2>2. /\ request' \in [Askers -> Request] /\ \A p \in Askers \ {o} : request'[p] = request[p]
        /\ \A p \in Askers : /\ request'[p].campaign = request[p].campaign /\ request'[p].fired = request[p].fired
                             /\ request'[p].state = "absent" <=> request[p].state = "absent"
                             /\ request[p].state = "absent" => request'[p] = request[p]
                             /\ request'[p].state = "waiting" => request'[p] = request[p]
        /\ request'[o].state = "started" /\ request'[o].result = TRUE /\ request'[o].run = request[o].run
    <3> DEFINE r == [request[o] EXCEPT !.result = TRUE]
    <3>1. /\ r \in Request /\ r.campaign = request[o].campaign /\ r.fired = request[o].fired /\ r.state = request[o].state
          /\ r.result = TRUE /\ r.run = request[o].run
      BY <1>1 DEF Request
    <3>2. request' = [request EXCEPT ![o] = r]
      BY <1>1, <1>4
    <3> HIDE DEF r, o
    <3> QED
      BY <1>1, <1>2, <3>1, <3>2
  <2>3. pass'.todo # {} => AtHand' \in pass'.todo
    BY <1>0, <1>1, <2>1, NextAtHand
  <2>4. ASSUME NEW p \in pass'.todo PROVE request'[p].state # "started"
    BY <1>1, <1>2, <2>1, <2>2
  <2>5. ASSUME NEW p \in Askers PROVE Live(p)' => Live(p)
    <3>1. AtHand' = p /\ pass'.todo # {} => request'[p].state # "started"
      BY <2>3, <2>4
    <3> HIDE DEF o
    <3> QED
      BY <1>0, <1>1, <1>2, <2>2, <3>1 DEF Live, InTime, RunOpen
  <2>6. ClaimedByThisPass'
    <3>1. pass'.pc \in {"idle", "next"}
      BY <2>1
    <3> HIDE DEF o
    <3> QED
      BY <1>3, <3>1, <2>4 DEF ClaimedByThisPass
  <2> HIDE DEF o
  <2> QED
    BY <1>0, <1>1, <1>4, <2>1, <2>2, <2>5, <2>6, FireFacts, OnRequests
<1>5. CASE faults > 0 /\ faults' = faults - 1 /\ pass' = NoPass /\ UNCHANGED request
  <2>1. faults' \in 0 .. Faults
    BY <1>5, FireFacts, TimesAssumption
  <2>2. pass' \in PassType /\ pass'.todo = {} /\ pass'.pc = "idle"
    BY <1>5 DEF PassType, NoPass
  <2>3. \A p \in Askers : Live(p)' => Live(p)
    BY <1>0, <1>5, <2>2 DEF Live, InTime, RunOpen
  <2>4. ClaimedByThisPass'
    BY <1>3, <2>2 DEF ClaimedByThisPass
  <2> HIDE DEF o
  <2> QED
    BY <1>0, <1>1, <1>5, <2>1, <2>2, <2>3, <2>4, FireFacts, OnRequests
<1> QED
  BY <1>4, <1>5 DEF PassRecord

\* A run that was sent is not the one the pass is at.
LEMMA ReconciledKeeps == \A o \in Askers : FireInv /\ Reconciled(o) => FireInv'
<1> SUFFICES ASSUME NEW o \in Askers, FireInv, Reconciled(o) PROVE FireInv'
  OBVIOUS
<1>0. request[o].run = "Active" /\ alive' = TRUE /\ UNCHANGED <<killed, schedule, booked, rows, pipe, inFlight, tick, pass, killing, late, faults>>
  <2>1. alive /\ alive \in BOOLEAN /\ alive' = alive
    BY FireFacts DEF Reconciled
  <2> QED
    BY <2>1 DEF Reconciled, memory
<1>1. request \in [Askers -> Request] /\ request[o] \in Request /\ request[o].state \notin {"absent", "waiting"}
  <2>1. request[o].state # "waiting"
    BY <1>0 DEF FireInv, NoResultYet
  <2>2. request[o].state # "absent"
    BY <1>0 DEF FireInv, OneRequestEach, NoRequest
  <2> QED
    BY <2>1, <2>2, FireFacts
<1>2. PICK end \in {"Completed", "Failed"} :
        request' = [request EXCEPT ![o].run = end, ![o].recent = IF end = "Completed" THEN Hold ELSE @]
  BY DEF Reconciled
<1> DEFINE recent == IF end = "Completed" THEN Hold ELSE request[o].recent
           n == [request[o] EXCEPT !.run = end, !.recent = recent]
<1>3. /\ n \in Request /\ n.run = end /\ n.state = request[o].state /\ n.campaign = request[o].campaign /\ n.fired = request[o].fired
      /\ n.left = request[o].left /\ n.hold = request[o].hold /\ n.result = request[o].result
  <2>1. recent \in 0 .. Hold
    BY <1>1, TimesAssumption DEF Request
  <2> HIDE DEF recent
  <2> QED
    BY <1>1, <2>1 DEF Request
<1>4. request' = [request EXCEPT ![o] = n]
  BY <1>1, <1>2
<1> HIDE DEF n
<1>5. /\ request' \in [Askers -> Request] /\ request'[o] = n /\ \A p \in Askers \ {o} : request'[p] = request[p]
      /\ \A p \in Askers : /\ request'[p].campaign = request[p].campaign /\ request'[p].fired = request[p].fired
                           /\ request'[p].state = "absent" <=> request[p].state = "absent"
                           /\ request[p].state = "absent" => request'[p] = request[p]
                           /\ request'[p].state = "waiting" => request'[p] = request[p]
  BY <1>1, <1>3, <1>4
<1>6. AtHand' = AtHand
  BY <1>0 DEF AtHand
<1>7. \A p \in Askers : Live(p)' => Live(p)
  BY <1>0, <1>3, <1>5, <1>6 DEF Live, InTime, RunOpen
<1>8. ClaimedByThisPass'
  <2>1. \A p \in Askers : /\ request'[p].state = request[p].state /\ request'[p].result = request[p].result
                          /\ request[p].run = "Armed" => request'[p].run = "Armed"
    BY <1>0, <1>3, <1>5
  <2>2. pass.todo \subseteq Askers /\ (pass.pc # "idle" => AtHand \in Askers)
    BY FireFacts
  <2> QED
    BY <1>0, <1>6, <2>1, <2>2 DEF FireInv, ClaimedByThisPass
<1>9. pass' \in PassType /\ pass'.todo \subseteq ToSet(rows) /\ (pass'.pc # "idle" => pass'.todo # {})
  <2>1. pass \in PassType
    BY DEF FireInv, FireSafety, FireTypeOK, PassType
  <2> QED
    BY <1>0, <2>1, FireFacts
<1> QED
  BY <1>0, <1>5, <1>7, <1>8, <1>9, FireFacts, OnRequests

LEMMA CancelRequestKeeps == \A o \in Askers : FireInv /\ CancelRequest(o) => FireInv'
<1> SUFFICES ASSUME NEW o \in Askers, FireInv, CancelRequest(o) PROVE FireInv'
  OBVIOUS
<1>0. request[o].state = "waiting" /\ UNCHANGED <<alive, killed, schedule, booked, rows, pipe, inFlight, tick, pass, killing, late, faults>>
  BY DEF CancelRequest, memory
<1> DEFINE n == [request[o] EXCEPT !.state = "cancelled", !.left = 0]
<1>1. /\ request \in [Askers -> Request] /\ request' = [request EXCEPT ![o] = n]
      /\ n \in Request /\ n.state = "cancelled" /\ n.campaign = request[o].campaign /\ n.fired = request[o].fired
      /\ n.run = request[o].run /\ n.result = request[o].result
  <2>1. request[o] \in Request /\ request \in [Askers -> Request] /\ 0 \in 0 .. Life
    BY FireFacts, TimesAssumption
  <2> QED
    BY <2>1 DEF Request, CancelRequest
<1> HIDE DEF n
<1>2. /\ request' \in [Askers -> Request] /\ request'[o] = n /\ \A p \in Askers \ {o} : request'[p] = request[p]
      /\ \A p \in Askers : /\ request'[p].campaign = request[p].campaign /\ request'[p].fired = request[p].fired
                           /\ request'[p].state = "absent" <=> request[p].state = "absent"
                           /\ request[p].state = "absent" => request'[p] = request[p]
                           /\ request'[p].state = "waiting" => request'[p] = request[p]
  BY <1>0, <1>1
<1>3. AtHand' = AtHand
  BY <1>0 DEF AtHand
<1>4. \A p \in Askers : Live(p)' => Live(p)
  BY <1>0, <1>1, <1>2, <1>3 DEF Live, InTime, RunOpen
<1>5. ClaimedByThisPass'
  <2>1. pass.todo \subseteq Askers /\ (pass.pc # "idle" => AtHand \in Askers)
    BY FireFacts
  <2> QED
    BY <1>0, <1>1, <1>2, <1>3, <2>1 DEF FireInv, ClaimedByThisPass
<1>6. pass' \in PassType /\ pass'.todo \subseteq ToSet(rows) /\ (pass'.pc # "idle" => pass'.todo # {})
  <2>1. pass \in PassType
    BY DEF FireInv, FireSafety, FireTypeOK, PassType
  <2> QED
    BY <1>0, <2>1, FireFacts
<1> QED
  BY <1>0, <1>2, <1>4, <1>5, <1>6, FireFacts, OnRequests

\* The start closes runs; there is no pass yet.
LEMMA RestartKeeps == FireInv /\ Restart => FireInv'
<1> SUFFICES ASSUME FireInv, Restart PROVE FireInv'
  OBVIOUS
<1>0. alive' = TRUE /\ pass = NoPass /\ UNCHANGED <<killed, schedule, booked, rows, pipe, inFlight, tick, pass, killing, late, faults>>
  BY DEF Restart, memory, FireInv, ClaimedByThisPass
<1>1. PICK unsent \in SUBSET {o \in Askers : request[o].run = "Active"} :
        request' = [o \in Askers |-> IF request[o].run = "Armed" \/ o \in unsent THEN [request[o] EXCEPT !.run = "Failed"] ELSE request[o]]
  BY DEF Restart
<1>2. ASSUME NEW p \in Askers
      PROVE  /\ request'[p] \in Request
             /\ request'[p].campaign = request[p].campaign /\ request'[p].fired = request[p].fired
             /\ request'[p].state = request[p].state /\ request'[p].left = request[p].left
             /\ request[p].state \in {"absent", "waiting"} => request'[p] = request[p]
             /\ request'[p].run = request[p].run \/ request'[p].run = "Failed"
  <2> DEFINE n == [request[p] EXCEPT !.run = "Failed"]
  <2>1. request[p] \in Request
    BY FireFacts
  <2>2. n \in Request /\ n.campaign = request[p].campaign /\ n.fired = request[p].fired /\ n.state = request[p].state /\ n.left = request[p].left /\ n.run = "Failed"
    BY <2>1 DEF Request
  <2>3. request'[p] = n \/ request'[p] = request[p]
    BY <1>1
  <2>4. request[p].state \in {"absent", "waiting"} => request[p].run = "absent"
    BY DEF FireInv, NoResultYet, OneRequestEach, NoRequest
  <2>5. request[p].state \in {"absent", "waiting"} => request'[p] = request[p]
    BY <1>1, <2>4
  <2> HIDE DEF n
  <2> QED
    BY <2>1, <2>2, <2>3, <2>5
<1>3. request' \in [Askers -> Request]
  <2>1. request' = [p \in Askers |-> request'[p]]
    BY <1>1
  <2> QED
    BY <1>2, <2>1
<1>4. pass' \in PassType /\ pass'.todo = {} /\ pass'.pc = "idle"
  BY <1>0 DEF PassType, NoPass
<1>5. \A p \in Askers : Live(p)' => Live(p)
  BY <1>0, <1>2, <1>4 DEF Live, InTime, RunOpen
<1>6. ClaimedByThisPass'
  BY <1>0, <1>4 DEF ClaimedByThisPass
<1> QED
  BY <1>0, <1>2, <1>3, <1>4, <1>5, <1>6, FireFacts, OnRequests

---------------------------------------------------------------------------
(* Time and crashes                                                        *)

LEMMA TimePasses == FireInv /\ Tick => FireInv'
<1> SUFFICES ASSUME FireInv, Tick PROVE FireInv'
  OBVIOUS
<1>0. UNCHANGED <<alive, killed, booked, rows, inFlight, tick, pass, killing, late, faults>>
  BY DEF Tick
<1>1. \A n, m \in Nat : n \in 0 .. m => Down(n) \in 0 .. m /\ (Down(n) > 0 => n > 0)
  BY DEF Down
<1>2. {Life, Hold, Lead, 2 * Lead} \subseteq Nat /\ Down(0) = 0
  BY TimesAssumption DEF Down
<1> DEFINE q(o) == [request[o] EXCEPT !.left = Down(@), !.hold = Down(@), !.recent = Down(@)]
           b(s) == [schedule[s] EXCEPT !.from = Down(@), !.until = Down(@)]
           m(o) == [pipe[o] EXCEPT !.left = Down(@)]
<1>3. ASSUME NEW o \in Askers
      PROVE  /\ q(o) \in Request /\ q(o).state = request[o].state /\ q(o).campaign = request[o].campaign /\ q(o).fired = request[o].fired
             /\ q(o).run = request[o].run /\ q(o).result = request[o].result
             /\ q(o).left > 0 => request[o].left > 0
             /\ q(o).hold > 0 => request[o].hold > 0
             /\ request[o] = NoRequest => q(o) = NoRequest
  <2>1. request[o] \in Request
    BY FireFacts
  <2>2. request[o].left \in 0 .. Life /\ request[o].hold \in 0 .. Hold /\ request[o].recent \in 0 .. Hold
    BY <2>1 DEF Request
  <2> DEFINE l == Down(request[o].left)
             h == Down(request[o].hold)
             r == Down(request[o].recent)
  <2>3. /\ l \in 0 .. Life /\ h \in 0 .. Hold /\ r \in 0 .. Hold
        /\ (l > 0 => request[o].left > 0) /\ (h > 0 => request[o].hold > 0)
    BY <1>1, <1>2, <2>2
  <2>4. q(o) = [request[o] EXCEPT !.left = l, !.hold = h, !.recent = r]
    BY <2>1
  <2>5. request[o] = NoRequest => l = 0 /\ h = 0 /\ r = 0
    BY <1>2 DEF NoRequest
  <2> HIDE DEF l, h, r, q
  <2>6. ASSUME request[o] = NoRequest PROVE q(o) = NoRequest
    <3>1. q(o) = [NoRequest EXCEPT !.left = 0, !.hold = 0, !.recent = 0]
      BY <2>4, <2>5, <2>6
    <3>2. NoRequest \in Request /\ NoRequest.left = 0 /\ NoRequest.hold = 0 /\ NoRequest.recent = 0
      BY RowShapes DEF NoRequest
    <3>3. [NoRequest EXCEPT !.left = 0, !.hold = 0, !.recent = 0] = NoRequest
      BY <3>2 DEF Request
    <3> QED
      BY <3>1, <3>3
  <2> QED
    BY <2>1, <2>3, <2>4, <2>6 DEF Request
<1>4. ASSUME NEW s \in Schedules
      PROVE  b(s) \in Schedule /\ b(s).state = schedule[s].state /\ b(s).campaign = schedule[s].campaign
  <2>1. schedule[s] \in Schedule
    BY FireFacts
  <2>2. schedule[s].from \in 0 .. Lead /\ schedule[s].until \in 0 .. 2 * Lead
    BY <2>1 DEF Schedule
  <2> DEFINE f == Down(schedule[s].from)
             u == Down(schedule[s].until)
  <2>3. f \in 0 .. Lead /\ u \in 0 .. 2 * Lead
    BY <1>1, <1>2, <2>2
  <2>4. b(s) = [schedule[s] EXCEPT !.from = f, !.until = u]
    BY <2>1
  <2> HIDE DEF f, u, b
  <2> QED
    BY <2>1, <2>3, <2>4 DEF Schedule
<1>5. ASSUME NEW o \in Askers
      PROVE  m(o) \in Pipe /\ m(o).pc = pipe[o].pc /\ m(o).campaign = pipe[o].campaign
  <2>1. pipe[o] \in Pipe
    BY FireFacts
  <2>2. pipe[o].left \in 0 .. Life
    BY <2>1 DEF Pipe
  <2> DEFINE l == Down(pipe[o].left)
  <2>3. l \in 0 .. Life
    BY <1>1, <1>2, <2>2
  <2>4. m(o) = [pipe[o] EXCEPT !.left = l]
    BY <2>1
  <2> HIDE DEF l, m
  <2> QED
    BY <2>1, <2>3, <2>4 DEF Pipe
<1>6. request' = [o \in Askers |-> q(o)] /\ schedule' = [s \in Schedules |-> b(s)] /\ pipe' = [o \in Askers |-> m(o)]
  BY DEF Tick
<1> HIDE DEF q, b, m
<1>7. AtHand' = AtHand
  BY <1>0 DEF AtHand
<1>8. FireTypeOK'
  <2>1. request' \in [Askers -> Request] /\ schedule' \in [Schedules -> Schedule] /\ pipe' \in [Askers -> Pipe]
    BY <1>3, <1>4, <1>5, <1>6
  <2> QED
    BY <1>0, <2>1 DEF FireInv, FireSafety, FireTypeOK, Request, Schedule, Pipe
<1>9. OnlyStartedFire' /\ OneRequestEach'
  BY <1>3, <1>4, <1>5, <1>6 DEF FireInv, FireSafety, OnlyStartedFire, OneRequestEach, Askers
<1>10. CampaignsHeld' /\ NoResultYet'
  BY <1>0, <1>3, <1>5, <1>6 DEF FireInv, CampaignsHeld, InPipeline, NoResultYet
<1>11. RowsInOrder' /\ PassesRead'
  BY <1>0, <1>3, <1>4, <1>6 DEF FireInv, RowsInOrder, PassesRead
<1>12. ClaimedByThisPass'
  <2>1. pass.todo \subseteq Askers /\ (pass.pc # "idle" => AtHand \in Askers)
    BY FireFacts
  <2> QED
    BY <1>0, <1>3, <1>6, <1>7, <2>1 DEF FireInv, ClaimedByThisPass
<1>13. \A p \in Askers : Live(p)' => Live(p)
  BY <1>0, <1>3, <1>6, <1>7 DEF Live, InTime, RunOpen
<1>14. NobodyElseLive'
  BY <1>3, <1>5, <1>6, <1>13 DEF FireInv, NobodyElseLive, InPipeline
<1> QED
  BY <1>8, <1>9, <1>10, <1>11, <1>12, <1>14 DEF FireInv, FireSafety

\* The memory is lost with the process.
LEMMA CrashKeeps == FireInv /\ Crash => FireInv'
<1> SUFFICES ASSUME FireInv, Crash PROVE FireInv'
  OBVIOUS
<1>0. /\ alive' = FALSE /\ faults > 0 /\ faults' = faults - 1 /\ killing' = FALSE /\ UNCHANGED <<killed, schedule, request, booked, rows, late>>
      /\ pipe' = [o \in Askers |-> IF pipe[o].pc = "consenting" THEN pipe[o] ELSE NoPipe] /\ inFlight' = {} /\ tick' = NoTick /\ pass' = NoPass
  BY DEF Crash, stored
<1>1. faults' \in 0 .. Faults
  BY <1>0, FireFacts, TimesAssumption
<1>2. \A o \in Askers : pipe'[o].pc = "idle" \/ (pipe'[o] = pipe[o] /\ pipe[o].pc = "consenting")
  BY <1>0 DEF NoPipe
<1>3. tick' \in TickType /\ tick'.todo = {} /\ tick'.pc = "idle" /\ pass' \in PassType /\ pass'.todo = {} /\ pass'.pc = "idle"
  BY <1>0 DEF TickType, PassType, NoTick, NoPass
<1>4. FireTypeOK'
  <2>1. pipe' \in [Askers -> Pipe]
    BY <1>0, RowShapes, FireFacts
  <2> QED
    BY <1>0, <1>1, <1>3, <2>1 DEF FireInv, FireSafety, FireTypeOK, Pipe, TickType, PassType
<1>5. OnlyStartedFire' /\ OneRequestEach' /\ CampaignsHeld' /\ NoResultYet' /\ NobodyElseLive'
  BY <1>0, <1>2 DEF FireInv, FireSafety, OnlyStartedFire, OneRequestEach, CampaignsHeld, NoResultYet, NobodyElseLive, InPipeline, Askers
<1>6. RowsInOrder' /\ PassesRead' /\ ClaimedByThisPass'
  BY <1>0, <1>3 DEF FireInv, RowsInOrder, PassesRead, ClaimedByThisPass
<1> QED
  BY <1>4, <1>5, <1>6 DEF FireInv, FireSafety

---------------------------------------------------------------------------
(* The pipeline                                                            *)

\* Who finds no conflict finds nothing that fires for the campaign.
LEMMA EnterAlone ==
  ASSUME FireInv, NEW c, NEW ignored, ~Conflict(c, ignored)
  PROVE  \A p \in Askers : request[p].campaign = c => ~Live(p)
BY DEF Conflict, Live, InTime

\* Taking hold of a campaign that nobody holds.
LEMMA Hung ==
  ASSUME FireInv, NEW o \in Askers, NEW c \in Targets, NEW ignored, Enter(o, c, ignored), Hang(o, c),
         request[o].state = "absent", o \in Schedules => schedule[o].state = "started",
         UNCHANGED <<alive, killed, stored, tick, pass, killing, faults, late>>
  PROVE  FireInv'
<1> DEFINE n == [pc |-> "simulating", campaign |-> c, left |-> 0]
<1>0. UNCHANGED <<alive, killed, schedule, request, booked, rows, tick, pass, killing, faults, late>> /\ inFlight' = inFlight \cup {c}
  BY DEF stored, Hang
<1>1. n \in Pipe /\ n.pc = "simulating" /\ n.campaign = c
  BY TimesAssumption DEF Pipe
<1>2. pipe' = [pipe EXCEPT ![o] = n]
  BY DEF Hang
<1> HIDE DEF n
<1>3. pipe' \in [Askers -> Pipe] /\ pipe'[o] = n /\ \A p \in Askers \ {o} : pipe'[p] = pipe[p]
  BY <1>1, <1>2, FireFacts
<1>4. AtHand' = AtHand
  BY <1>0 DEF AtHand
<1>5. FireTypeOK'
  BY <1>0, <1>3 DEF FireInv, FireSafety, FireTypeOK, Pipe
<1>6. OnlyStartedFire' /\ OneRequestEach'
  BY <1>0, <1>1, <1>3 DEF FireInv, FireSafety, OnlyStartedFire, OneRequestEach, Askers
<1>7. CampaignsHeld'
  <2>1. c \notin inFlight
    BY DEF Enter
  <2> QED
    BY <1>0, <1>1, <1>3, <2>1 DEF FireInv, CampaignsHeld, InPipeline
<1>8. RowsInOrder' /\ PassesRead' /\ ClaimedByThisPass' /\ NoResultYet'
  BY <1>0, <1>4 DEF FireInv, RowsInOrder, PassesRead, ClaimedByThisPass, NoResultYet
<1>9. \A p \in Askers : Live(p)' <=> Live(p)
  BY <1>0, <1>4 DEF Live, InTime, RunOpen
<1>10. \A p \in Askers : request[p].campaign = c => ~Live(p)
  BY EnterAlone DEF Enter
<1>11. NobodyElseLive'
  BY <1>0, <1>1, <1>3, <1>9, <1>10 DEF FireInv, NobodyElseLive, InPipeline
<1> QED
  BY <1>5, <1>6, <1>7, <1>8, <1>11 DEF FireInv, FireSafety

\* Leaving the pipeline, with or without the campaign.
LEMMA Dropped ==
  ASSUME FireInv, NEW o \in Askers, pipe' = [pipe EXCEPT ![o] = NoPipe],
         inFlight' = inFlight \/ inFlight' = inFlight \ {pipe[o].campaign}, InPipeline(o) \/ inFlight' = inFlight,
         UNCHANGED <<alive, killed, schedule, request, booked, rows, tick, pass, killing, faults, late>>
  PROVE  FireInv'
<1>1. NoPipe \in Pipe /\ NoPipe.pc = "idle"
  BY RowShapes DEF NoPipe
<1>2. pipe' \in [Askers -> Pipe] /\ pipe'[o] = NoPipe /\ \A p \in Askers \ {o} : pipe'[p] = pipe[p]
  BY <1>1, FireFacts
<1>3. AtHand' = AtHand
  BY DEF AtHand
<1>4. FireTypeOK'
  BY <1>2 DEF FireInv, FireSafety, FireTypeOK, Pipe
<1>5. OnlyStartedFire' /\ OneRequestEach'
  BY <1>1, <1>2 DEF FireInv, FireSafety, OnlyStartedFire, OneRequestEach, Askers
<1>6. CampaignsHeld'
  BY <1>1, <1>2 DEF FireInv, CampaignsHeld, InPipeline
<1>7. RowsInOrder' /\ PassesRead' /\ ClaimedByThisPass' /\ NoResultYet'
  BY <1>3 DEF FireInv, RowsInOrder, PassesRead, ClaimedByThisPass, NoResultYet
<1>8. \A p \in Askers : Live(p)' <=> Live(p)
  BY <1>3 DEF Live, InTime, RunOpen
<1>9. NobodyElseLive'
  BY <1>1, <1>2, <1>8 DEF FireInv, NobodyElseLive, InPipeline
<1> QED
  BY <1>4, <1>5, <1>6, <1>7, <1>9 DEF FireInv, FireSafety

LEMMA FireNowKeeps == \A o \in Commands, c \in Targets : FireInv /\ FireNow(o, c) => FireInv'
<1> SUFFICES ASSUME NEW o \in Commands, NEW c \in Targets, FireInv, FireNow(o, c) PROVE FireInv'
  OBVIOUS
<1>1. o \in Askers /\ o \notin Schedules
  BY AskersAssumption DEF Askers
<1> QED
  BY <1>1, Hung DEF FireNow

LEMMA FireScheduledKeeps == \A s \in Schedules : FireInv /\ FireScheduled(s) => FireInv'
<1> SUFFICES ASSUME NEW s \in Schedules, FireInv, FireScheduled(s) PROVE FireInv'
  OBVIOUS
<1>1. s \in Askers /\ request[s].state = "absent" /\ schedule[s].state = "started" /\ schedule[s].campaign \in Targets /\ ~InPipeline(s)
  BY DEF Askers, FireScheduled, FireInv, FireSafety, OneRequestEach, OnlyStartedFire, RowsInOrder, InPipeline
<1>2. CASE Enter(s, schedule[s].campaign, s) /\ Hang(s, schedule[s].campaign)
  BY <1>1, <1>2, Hung DEF FireScheduled
<1>3. CASE pipe' = [pipe EXCEPT ![s] = NoPipe] /\ UNCHANGED inFlight
  BY <1>1, <1>3, Dropped DEF FireScheduled, stored
<1> QED
  BY <1>2, <1>3 DEF FireScheduled

LEMMA SimulatedKeeps == \A o \in Askers : FireInv /\ Simulated(o) => FireInv'
<1> SUFFICES ASSUME NEW o \in Askers, FireInv, Simulated(o) PROVE FireInv'
  OBVIOUS
<1>0. pipe[o].pc = "simulating" /\ UNCHANGED <<alive, killed, schedule, request, booked, rows, tick, pass, killing, faults, late>>
  BY DEF Simulated, stored
<1>1. CASE Drop(o)
  BY <1>0, <1>1, Dropped DEF Drop, InPipeline
<1>2. CASE pipe' = [pipe EXCEPT ![o].pc = "approving", ![o].left = Life] /\ UNCHANGED inFlight
  <2> DEFINE n == [pipe[o] EXCEPT !.pc = "approving", !.left = Life]
  <2>1. n \in Pipe /\ n.pc = "approving" /\ n.campaign = pipe[o].campaign
    <3>1. pipe[o] \in Pipe /\ Life \in 0 .. Life
      BY FireFacts, TimesAssumption
    <3> QED
      BY <3>1 DEF Pipe
  <2>2. pipe' = [pipe EXCEPT ![o] = n]
    BY <1>2, FireFacts
  <2> HIDE DEF n
  <2>3. pipe' \in [Askers -> Pipe] /\ pipe'[o] = n /\ \A p \in Askers \ {o} : pipe'[p] = pipe[p]
    BY <2>1, <2>2, FireFacts
  <2>4. AtHand' = AtHand
    BY <1>0 DEF AtHand
  <2>5. FireTypeOK'
    BY <1>0, <1>2, <2>3 DEF FireInv, FireSafety, FireTypeOK, Pipe
  <2>6. OnlyStartedFire' /\ OneRequestEach'
    BY <1>0, <2>1, <2>3 DEF FireInv, FireSafety, OnlyStartedFire, OneRequestEach, Askers
  <2>7. \A p \in Askers : (InPipeline(p)' <=> InPipeline(p)) /\ pipe'[p].campaign = pipe[p].campaign
    BY <1>0, <2>1, <2>3 DEF InPipeline
  <2>8. CampaignsHeld'
    BY <1>0, <1>2, <2>1, <2>3 DEF FireInv, CampaignsHeld, InPipeline
  <2>9. RowsInOrder' /\ PassesRead' /\ ClaimedByThisPass' /\ NoResultYet'
    BY <1>0, <2>4 DEF FireInv, RowsInOrder, PassesRead, ClaimedByThisPass, NoResultYet
  <2>10. \A p \in Askers : Live(p)' <=> Live(p)
    BY <1>0, <2>4 DEF Live, InTime, RunOpen
  <2>11. NobodyElseLive'
    BY <1>0, <2>7, <2>10 DEF FireInv, NobodyElseLive
  <2> QED
    BY <2>5, <2>6, <2>8, <2>9, <2>11 DEF FireInv, FireSafety
<1> QED
  BY <1>1, <1>2 DEF Simulated

\* A request comes to be stored: by a pipeline that lets its campaign go, or directly.
LEMMA StoreKeeps ==
  ASSUME FireInv, NEW o \in Askers, NEW c \in Targets \cup {NoTarget}, NEW fired \in BOOLEAN, NEW left \in 0 .. Life, Store(o, c, fired, left),
         request[o].state = "absent", o \in Schedules => schedule[o].state = "started",
         UNCHANGED <<alive, killed, schedule, tick, pass, killing, faults, late>>,
         \/ ~fired /\ pipe[o].pc = "consenting" /\ pipe' = [pipe EXCEPT ![o] = NoPipe] /\ UNCHANGED inFlight
         \/ InPipeline(o) /\ c = pipe[o].campaign /\ Drop(o)
  PROVE  FireInv'
<1> DEFINE n == [NoRequest EXCEPT !.state = "waiting", !.campaign = c, !.fired = fired, !.left = left]
<1>1. /\ n \in Request /\ n.state = "waiting" /\ n.campaign = c /\ n.fired = fired /\ n.run = "absent" /\ n.result = FALSE
      /\ request' = [request EXCEPT ![o] = n] /\ rows' = Append(rows, o) /\ booked' = booked
  <2>1. left \in 0 .. Life /\ 0 \in 0 .. Hold
    BY TimesAssumption
  <2> QED
    BY <2>1 DEF Request, Store, NoRequest
<1> HIDE DEF n
<1>2. request' \in [Askers -> Request] /\ request'[o] = n /\ \A p \in Askers \ {o} : request'[p] = request[p]
  BY <1>1, FireFacts
<1>3. /\ pipe' \in [Askers -> Pipe] /\ pipe'[o].pc = "idle" /\ (\A p \in Askers \ {o} : pipe'[p] = pipe[p])
      /\ inFlight' = inFlight \/ inFlight' = inFlight \ {pipe[o].campaign}
      /\ InPipeline(o) \/ inFlight' = inFlight
  <2>1. NoPipe \in Pipe /\ NoPipe.pc = "idle"
    BY RowShapes DEF NoPipe
  <2> QED
    BY <2>1, FireFacts DEF Drop
<1>4. o \notin ToSet(rows) /\ rows \in Seq(Askers) /\ IsInjective(rows) /\ pass.todo \subseteq ToSet(rows)
  BY FireFacts DEF FireInv, RowsInOrder
<1>5. rows' \in Seq(Askers) /\ IsInjective(rows)' /\ ToSet(rows)' = ToSet(rows) \cup {o}
  <2>1. Append(rows, o) \in Seq(Askers) /\ IsInjective(Append(rows, o)) /\ ToSet(Append(rows, o)) = ToSet(rows) \cup {o}
    BY <1>4, RowStored
  <2> QED
    BY <1>1, <2>1
<1>6. pass.todo # {} => AtHand' = AtHand /\ AtHand \in pass.todo /\ AtHand # o
  <2>1. pass.todo # {} => AtHand' = AtHand
    BY <1>1, SameAtHand
  <2> QED
    BY <1>4, <2>1, FireFacts
<1>7. FireTypeOK'
  BY <1>1, <1>2, <1>3, <1>5 DEF FireInv, FireSafety, FireTypeOK, Pipe, Request
<1>8. OnlyStartedFire' /\ OneRequestEach'
  BY <1>1, <1>2, <1>3 DEF FireInv, FireSafety, OnlyStartedFire, OneRequestEach, Askers
<1>9. CampaignsHeld' /\ NoResultYet'
  BY <1>1, <1>2, <1>3 DEF FireInv, CampaignsHeld, NoResultYet, InPipeline
<1>10. RowsInOrder' /\ PassesRead'
  BY <1>1, <1>2, <1>5 DEF FireInv, RowsInOrder, PassesRead
<1>11. ClaimedByThisPass'
  <2>1. pass.pc # "idle" => pass.todo # {}
    BY FireFacts
  <2>2. pass.todo \subseteq Askers \ {o}
    BY <1>4, FireFacts
  <2> QED
    BY <1>2, <1>6, <2>1, <2>2 DEF FireInv, ClaimedByThisPass
<1>12. \A p \in Askers \ {o} : Live(p)' => Live(p)
  BY <1>2, <1>6 DEF Live, InTime, RunOpen
<1>13. NobodyElseLive'
  <2> SUFFICES ASSUME NEW h \in Askers, InPipeline(h)', NEW p \in Askers \ {h}, request'[p].campaign = pipe'[h].campaign, request'[p].fired
               PROVE  ~Live(p)'
    BY DEF NobodyElseLive
  <2>1. h # o /\ pipe'[h] = pipe[h] /\ InPipeline(h)
    BY <1>3 DEF InPipeline
  <2>2. p # o
    BY <1>1, <1>2, <2>1 DEF FireInv, CampaignsHeld
  <2> QED
    BY <1>2, <1>12, <2>1, <2>2 DEF FireInv, NobodyElseLive
<1> QED
  BY <1>7, <1>8, <1>9, <1>10, <1>11, <1>13 DEF FireInv, FireSafety

LEMMA ApprovedKeeps == \A o \in Askers : FireInv /\ Approved(o) => FireInv'
<1> SUFFICES ASSUME NEW o \in Askers, FireInv, Approved(o) PROVE FireInv'
  OBVIOUS
<1>0. InPipeline(o) /\ Drop(o) /\ UNCHANGED <<alive, killed, schedule, tick, pass, killing, faults, late>>
  BY DEF Approved, InPipeline
<1>1. request[o].state = "absent" /\ (o \in Schedules => schedule[o].state = "started")
  BY <1>0 DEF InPipeline, FireInv, FireSafety, OneRequestEach, OnlyStartedFire
<1>2. pipe[o].campaign \in Targets \cup {NoTarget} /\ pipe[o].left \in 0 .. Life
  BY FireFacts DEF Pipe
<1>3. CASE Store(o, pipe[o].campaign, TRUE, pipe[o].left)
  BY <1>0, <1>1, <1>2, <1>3, StoreKeeps
<1>4. CASE UNCHANGED <<request, booked, rows>>
  BY <1>0, <1>4, Dropped DEF Drop
<1> QED
  BY <1>3, <1>4 DEF Approved

\* A direct request that has stored nothing yet holds nothing.
LEMMA BeginKeeps ==
  ASSUME FireInv, NEW o \in Commands, NEW c \in Targets \cup {NoTarget}, NEW pc \in {"asking", "consenting"}, NEW left \in 0 .. Life,
         request[o].state = "absent", ~InPipeline(o), Begin(o, c, pc, left),
         UNCHANGED <<alive, killed, stored, inFlight, tick, pass, killing, faults, late>>
  PROVE  FireInv'
<1> DEFINE n == [pc |-> pc, campaign |-> c, left |-> left]
<1>0. o \in Askers /\ o \notin Schedules
  BY AskersAssumption DEF Askers
<1>1. n \in Pipe /\ n.pc = pc /\ pipe' = [pipe EXCEPT ![o] = n]
  BY DEF Pipe, Begin
<1> HIDE DEF n
<1>2. pipe' \in [Askers -> Pipe] /\ pipe'[o].pc = pc /\ \A p \in Askers \ {o} : pipe'[p] = pipe[p]
  BY <1>0, <1>1, FireFacts
<1>3. UNCHANGED <<alive, killed, schedule, request, booked, rows, inFlight, tick, pass, killing, faults, late>> /\ AtHand' = AtHand
  BY DEF stored, AtHand
<1>4. FireTypeOK'
  BY <1>2, <1>3 DEF FireInv, FireSafety, FireTypeOK, Pipe
<1>5. OnlyStartedFire' /\ OneRequestEach'
  BY <1>0, <1>2, <1>3 DEF FireInv, FireSafety, OnlyStartedFire, OneRequestEach, Askers
<1>6. \A p \in Askers : (InPipeline(p)' => InPipeline(p)) /\ (InPipeline(p)' => pipe'[p] = pipe[p])
  BY <1>2 DEF InPipeline
<1>7. CampaignsHeld' /\ RowsInOrder' /\ PassesRead' /\ ClaimedByThisPass' /\ NoResultYet'
  BY <1>3, <1>6 DEF FireInv, CampaignsHeld, RowsInOrder, PassesRead, ClaimedByThisPass, NoResultYet
<1>8. \A p \in Askers : Live(p)' <=> Live(p)
  BY <1>3 DEF Live, InTime, RunOpen
<1>9. NobodyElseLive'
  BY <1>3, <1>6, <1>8 DEF FireInv, NobodyElseLive
<1> QED
  BY <1>4, <1>5, <1>7, <1>9 DEF FireInv, FireSafety

LEMMA DirectKeeps == \A o \in Commands, c \in Targets : FireInv /\ Direct(o, c) => FireInv'
<1> SUFFICES ASSUME NEW o \in Commands, NEW c \in Targets, FireInv, Direct(o, c) PROVE FireInv'
  OBVIOUS
<1>1. Life \in 0 .. Life /\ 0 \in 0 .. Life /\ ~InPipeline(o) /\ request[o].state = "absent"
  BY TimesAssumption DEF Direct, InPipeline
<1>2. CASE Begin(o, c, "asking", 0)
  BY <1>1, <1>2, BeginKeeps DEF Direct
<1>3. CASE Begin(o, c, "consenting", Life)
  BY <1>1, <1>3, BeginKeeps DEF Direct
<1> QED
  BY <1>2, <1>3 DEF Direct

LEMMA AskedKeeps == \A o \in Askers : FireInv /\ Asked(o) => FireInv'
<1> SUFFICES ASSUME NEW o \in Askers, FireInv, Asked(o) PROVE FireInv'
  OBVIOUS
<1>1. o \in Commands /\ o \notin Schedules /\ request[o].state = "absent" /\ ~InPipeline(o)
  BY AskersAssumption DEF Asked, InPipeline, FireInv, OneRequestEach
<1>2. pipe[o].campaign \in Targets \cup {NoTarget} /\ Life \in 0 .. Life
  BY FireFacts, TimesAssumption DEF Pipe
<1>3. CASE Begin(o, pipe[o].campaign, "consenting", Life)
  BY <1>1, <1>2, <1>3, BeginKeeps DEF Asked
<1>4. CASE pipe' = [pipe EXCEPT ![o] = NoPipe]
  BY <1>1, <1>4, Dropped DEF Asked, stored
<1> QED
  BY <1>3, <1>4 DEF Asked

LEMMA ConsentedKeeps == \A o \in Askers : FireInv /\ Consented(o) => FireInv'
<1> SUFFICES ASSUME NEW o \in Askers, FireInv, Consented(o) PROVE FireInv'
  OBVIOUS
<1>1. o \notin Schedules /\ request[o].state = "absent" /\ ~InPipeline(o)
  BY AskersAssumption DEF Consented, InPipeline, FireInv, OneRequestEach
<1>2. pipe[o].campaign \in Targets \cup {NoTarget} /\ pipe[o].left \in 0 .. Life
  BY FireFacts DEF Pipe
<1>3. CASE Store(o, pipe[o].campaign, FALSE, pipe[o].left)
  BY <1>1, <1>2, <1>3, StoreKeeps DEF Consented
<1>4. CASE UNCHANGED <<request, booked, rows>>
  BY <1>1, <1>4, Dropped DEF Consented
<1> QED
  BY <1>3, <1>4 DEF Consented

LEMMA ScheduleCreateKeeps ==
  \A s \in Schedules, c \in Targets, from \in 0 .. Lead, until \in 1 .. 2 * Lead : FireInv /\ ScheduleCreate(s, c, from, until) => FireInv'
<1> SUFFICES ASSUME NEW s \in Schedules, NEW c \in Targets, NEW from \in 0 .. Lead, NEW until \in 1 .. 2 * Lead,
                    FireInv, ScheduleCreate(s, c, from, until)
             PROVE  FireInv'
  OBVIOUS
<1> DEFINE n == [state |-> "open", campaign |-> c, from |-> from, until |-> until]
<1>0. /\ schedule[s].state = "absent" /\ schedule' = [schedule EXCEPT ![s] = n] /\ booked' = Append(booked, s)
      /\ UNCHANGED <<alive, killed, request, rows, pipe, inFlight, tick, pass, killing, faults, late>>
  BY DEF ScheduleCreate, memory
<1>1. n \in Schedule /\ n.state = "open" /\ n.campaign = c
  <2>1. until \in 0 .. 2 * Lead
    BY TimesAssumption
  <2> QED
    BY <2>1 DEF Schedule
<1> HIDE DEF n
<1>2. schedule' \in [Schedules -> Schedule] /\ schedule'[s] = n /\ \A t \in Schedules \ {s} : schedule'[t] = schedule[t]
  BY <1>0, <1>1, FireFacts
<1>3. s \notin ToSet(booked) /\ booked \in Seq(Schedules) /\ IsInjective(booked) /\ tick.todo \subseteq ToSet(booked)
  BY <1>0, FireFacts DEF FireInv, RowsInOrder
<1>4. booked' \in Seq(Schedules) /\ IsInjective(booked)' /\ ToSet(booked)' = ToSet(booked) \cup {s}
  <2>1. Append(booked, s) \in Seq(Schedules) /\ IsInjective(Append(booked, s)) /\ ToSet(Append(booked, s)) = ToSet(booked) \cup {s}
    BY <1>3, RowStored
  <2> QED
    BY <1>0, <2>1
<1>5. AtHand' = AtHand
  BY <1>0 DEF AtHand
<1>6. FireTypeOK'
  BY <1>0, <1>2, <1>4 DEF FireInv, FireSafety, FireTypeOK, Schedule
<1>7. OnlyStartedFire' /\ OneRequestEach'
  BY <1>0, <1>1, <1>2 DEF FireInv, FireSafety, OnlyStartedFire, OneRequestEach
<1>8. RowsInOrder' /\ PassesRead'
  BY <1>0, <1>1, <1>2, <1>4 DEF FireInv, RowsInOrder, PassesRead
<1>9. CampaignsHeld' /\ NoResultYet' /\ ClaimedByThisPass' /\ NobodyElseLive'
  BY <1>0, <1>5 DEF FireInv, CampaignsHeld, NoResultYet, ClaimedByThisPass, NobodyElseLive, InPipeline, Live, InTime, RunOpen
<1> QED
  BY <1>6, <1>7, <1>8, <1>9 DEF FireInv, FireSafety

---------------------------------------------------------------------------
(* The results                                                             *)

LEMMA FireInvInit == FireInit => FireInv
<1> SUFFICES ASSUME FireInit PROVE FireInv
  OBVIOUS
<1>1. /\ \A o \in Askers : pipe[o] = NoPipe /\ pipe[o].pc = "idle" /\ request[o] = NoRequest /\ request[o].state = "absent"
      /\ \A s \in Schedules : schedule[s].state = "absent"
      /\ alive = TRUE /\ pass = NoPass /\ pass.pc = "idle" /\ pass.todo = {} /\ tick.pc = "idle" /\ tick.todo = {}
  BY DEF FireInit, NoPipe, NoRequest, NoSchedule, NoPass, NoTick
<1>2. FireTypeOK
  <2>1. request \in [Askers -> Request] /\ schedule \in [Schedules -> Schedule] /\ pipe \in [Askers -> Pipe]
    BY RowShapes DEF FireInit
  <2>2. <<>> \in Seq(Askers) /\ <<>> \in Seq(Schedules) /\ IsInjective(<<>>)
    BY DEF IsInjective
  <2>3. tick \in TickType /\ pass \in PassType
    BY DEF FireInit, TickType, PassType, NoTick, NoPass
  <2>4. Faults \in 0 .. Faults
    BY TimesAssumption
  <2> QED
    BY <2>1, <2>2, <2>3, <2>4 DEF FireInit, FireTypeOK, Request, Schedule, Pipe, TickType, PassType
<1>3. ToSet(rows) = {} /\ ToSet(booked) = {}
  BY DEF FireInit, ToSet
<1>4. OnlyStartedFire /\ OneRequestEach /\ CampaignsHeld /\ NoResultYet /\ NobodyElseLive
  BY <1>1 DEF OnlyStartedFire, OneRequestEach, CampaignsHeld, NoResultYet, NobodyElseLive, InPipeline, Askers
<1>5. RowsInOrder /\ PassesRead /\ ClaimedByThisPass
  BY <1>1, <1>3 DEF RowsInOrder, PassesRead, ClaimedByThisPass
<1> QED
  BY <1>2, <1>4, <1>5 DEF FireInv, FireSafety

LEMMA FireInvNext == FireInv /\ [FireNext]_fireVars => FireInv'
<1> SUFFICES ASSUME FireInv, [FireNext]_fireVars PROVE FireInv'
  OBVIOUS
<1>1. CASE Scheduler
  BY <1>1, TickBeginKeeps, TickNextKeeps, TickStateKeeps, TickFiredKeeps DEF Scheduler
<1>2. CASE Processor
  BY <1>2, PassBeginKeeps, PassClaimKeeps, PassArmKeeps, PassRunKeeps, PassRecordKeeps DEF Processor
<1>3. CASE \E o \in Askers : Pipeline(o) \/ Reconciled(o)
  BY <1>3, SimulatedKeeps, ApprovedKeeps, AskedKeeps, ConsentedKeeps, FireScheduledKeeps, ReconciledKeeps DEF Pipeline
<1>4. CASE Owner
  <2>1. CASE \E o \in Askers : Ask(o)
    BY <2>1, FireNowKeeps, DirectKeeps, ScheduleCreateKeeps DEF Ask
  <2>2. CASE \E s \in Schedules : CancelSchedule(s)
    BY <2>2, CancelScheduleKeeps
  <2>3. CASE \E o \in Askers : CancelRequest(o)
    BY <2>3, CancelRequestKeeps
  <2> QED
    BY <1>4, <2>1, <2>2, <2>3 DEF Owner
<1>5. CASE Kill \/ KillCancels \/ Release
  BY <1>5, SwitchKeeps, KillCancelsKeeps
<1>6. CASE Tick \/ Crash \/ Restart
  BY <1>6, TimePasses, CrashKeeps, RestartKeeps
<1>7. CASE UNCHANGED fireVars
  <2>1. UNCHANGED <<alive, killed, schedule, request, booked, rows, pipe, inFlight, tick, pass, killing, faults, late>>
    BY <1>7 DEF fireVars, stored, memory
  <2>2. tick' \in TickType
    BY <2>1, TickMoves
  <2> QED
    BY <2>1, <2>2, FireFacts, OnSchedules
<1> QED
  BY <1>1, <1>2, <1>3, <1>4, <1>5, <1>6, <1>7 DEF FireNext

LEMMA FireInvHolds == FireSpec => []FireInv
BY FireInvInit, FireInvNext, PTL DEF FireSpec

\* The types, and that a schedule that was cancelled, or that ended, has no request and is in no
\* pipeline, however its claim raced with the scheduler's pass.
THEOREM ScheduleFiresOnce == FireSpec => []FireSafety
<1>1. FireInv => FireSafety
  BY DEF FireInv
<1> QED
  BY <1>1, FireInvHolds, PTL

\* A request comes to wait when it is stored, at an approval: a pipeline's or a direct request's.
LEMMA StoredByWhom ==
  ASSUME FireInv, [FireNext]_fireVars, NEW o \in Askers, request[o].state # "waiting", request'[o].state = "waiting"
  PROVE  Approved(o) \/ Consented(o)
<1>0. request \in [Askers -> Request] /\ request[o] \in Request
  BY FireFacts
<1>1. CASE UNCHANGED request
  BY <1>1
<1>2. CASE PassClaim \/ PassArm \/ PassRun \/ PassRecord
  <2>1. AtHand \in Askers
    BY <1>2, FireFacts DEF PassClaim, PassArm, PassRun, PassRecord
  <2>2. request[AtHand] \in Request
    BY <1>0, <2>1
  <2>3. CASE PassClaim
    BY <1>0, <2>1, <2>2, <2>3 DEF PassClaim, Request
  <2>4. CASE PassArm \/ PassRun
    BY <1>0, <2>1, <2>2, <2>4 DEF PassArm, PassRun, Request
  <2>5. CASE PassRecord
    BY <1>0, <2>1, <2>2, <2>5 DEF PassRecord, Request
  <2> QED
    BY <1>2, <2>3, <2>4, <2>5
<1>3. ASSUME NEW p \in Askers, CancelRequest(p) \/ Reconciled(p) PROVE FALSE
  <2>1. request[p] \in Request
    BY <1>0
  <2> QED
    BY <1>0, <1>3, <2>1 DEF CancelRequest, Reconciled, Request
<1>4. ASSUME Restart \/ Tick PROVE FALSE
  <2>1. ASSUME Tick PROVE FALSE
    <3>1. request'[o] = [request[o] EXCEPT !.left = Down(@), !.hold = Down(@), !.recent = Down(@)]
      BY <2>1 DEF Tick
    <3> QED
      BY <1>0, <3>1 DEF Request
  <2>2. ASSUME Restart PROVE FALSE
    <3>1. request'[o] = request[o] \/ request'[o] = [request[o] EXCEPT !.run = "Failed"]
      BY <2>2 DEF Restart
    <3> QED
      BY <1>0, <3>1 DEF Request
  <2> QED
    BY <1>4, <2>1, <2>2
<1>5. ASSUME NEW p \in Askers, Approved(p) \/ Consented(p)
      PROVE  Approved(o) \/ Consented(o)
  <2>1. request'[o] # request[o]
    OBVIOUS
  <2>2. UNCHANGED request \/ \E n : request' = [request EXCEPT ![p] = n]
    BY <1>5 DEF Approved, Consented, Store
  <2>3. p = o
    BY <1>0, <2>1, <2>2
  <2> QED
    BY <1>5, <2>3
<1>6. CASE Scheduler \/ PassBegin \/ (\E p \in Askers : Simulated(p) \/ Asked(p) \/ (p \in Schedules /\ FireScheduled(p))) \/ (\E s \in Schedules : CancelSchedule(s))
           \/ Kill \/ KillCancels \/ Release \/ Crash \/ UNCHANGED fireVars
  BY <1>1, <1>6 DEF Scheduler, TickBegin, TickNext, TickState, TickFired, PassBegin, Simulated, Asked, FireScheduled, CancelSchedule,
     Kill, KillCancels, Release, Crash, fireVars, stored
<1>7. CASE \E p \in Askers : Ask(p)
  BY <1>1, <1>7 DEF Ask, FireNow, Direct, ScheduleCreate, stored
<1> QED
  BY <1>2, <1>3, <1>4, <1>5, <1>6, <1>7 DEF FireNext, Processor, Owner, Pipeline

\* FiredAlone: when the pipeline stores a request, no other that it stored for the campaign is live.
\* The pipeline has held the campaign since it found no conflict, and until it lets go nothing that
\* was fired for the campaign comes to life (NobodyElseLive).
THEOREM FiresAlone == FireSpec => FiredAlone
<1> DEFINE Alone == \A o \in Askers :
       request[o].state = "absent" /\ request'[o].state = "waiting" /\ request'[o].fired =>
         \A p \in Askers \ {o} : request[p].campaign = request'[o].campaign /\ request[p].fired => ~Live(p)
<1>1. FireInv /\ [FireNext]_fireVars => Alone
  <2> SUFFICES ASSUME FireInv, [FireNext]_fireVars,
                      NEW o \in Askers, request[o].state = "absent", request'[o].state = "waiting", request'[o].fired
               PROVE  \A p \in Askers \ {o} : request[p].campaign = request'[o].campaign /\ request[p].fired => ~Live(p)
    OBVIOUS
  <2>0. request \in [Askers -> Request]
    BY FireFacts
  <2>1. Approved(o)
    <3>1. ASSUME Consented(o) PROVE FALSE
      BY <2>0, <3>1 DEF Consented, Store, NoRequest
    <3> QED
      BY <3>1, StoredByWhom
  <2>2. InPipeline(o) /\ request'[o].campaign = pipe[o].campaign
    BY <2>0, <2>1 DEF Approved, Store, NoRequest, InPipeline
  <2> QED
    BY <2>2 DEF FireInv, NobodyElseLive
<1>2. Alone => [Alone]_fireVars
  OBVIOUS
<1> QED
  BY <1>1, <1>2, FireInvHolds, PTL DEF FireSpec, FiredAlone

-----------------------------------------------------------------------------
(* ServiceState                                                            *)

\* Why an interrupted run keeps the service from Ready: it is unresolved, and the record has a
\* reason that no lift takes away while it is.  The reason of the stored flag is read with it,
\* so a release that is under way can take away only what was stored before.
KeptBack ==
  interrupted =>
    /\ unresolved
    /\ Read.startup # "Ready"
    /\ killFlag \/ \E reason \in {"IN_PROGRESS", "UNRESOLVED", "KILL_ENGAGED"} : reason \in reasons

ServiceInv == ServiceTypeOK /\ OkIsRestorable /\ KeptBack

\* What is read is a record that may be stored.
LEMMA ReadType == ServiceTypeOK => Read.startup \in Startup /\ Read.reasons \subseteq Reasons
BY DEF ServiceTypeOK, Read, Startup, Reasons

\* Storing a record leaves what is read of it afterwards, also if it was not stored for want of a change.
LEMMA Stores ==
  ASSUME ServiceTypeOK, NEW s \in Startup, NEW r \in SUBSET Reasons, NEW d \in [Dependencies -> BOOLEAN],
         StoreRecord(s, r, d), killFlag' = killFlag
  PROVE  /\ startup' \in Startup /\ reasons' \subseteq Reasons /\ deps' \in [Dependencies -> BOOLEAN]
         /\ ~killFlag => startup' = s /\ reasons' = r
         /\ killFlag => Read.startup' = "Blocked"
         /\ ~killFlag => Read.startup' = s
<1>1. startup \in Startup /\ reasons \subseteq Reasons /\ deps \in [Dependencies -> BOOLEAN]
  BY DEF ServiceTypeOK
<1>2. ~killFlag => Read.startup = startup /\ Read.reasons = reasons
  BY DEF Read
<1>3. CASE UNCHANGED <<startup, reasons, deps>> /\ s = Read.startup /\ r = Read.reasons
  BY <1>1, <1>2, <1>3 DEF Read
<1>4. CASE startup' = s /\ reasons' = r /\ deps' = d
  BY <1>4 DEF Read
<1> QED
  BY <1>3, <1>4 DEF StoreRecord

\* A record that is stored while the flags of the kill stay as they are.
LEMMA StoredKeeps ==
  ASSUME ServiceInv, NEW s \in Startup, NEW r \in SUBSET Reasons, NEW d \in [Dependencies -> BOOLEAN],
         StoreRecord(s, r, d), killFlag' = killFlag, unresolved' = unresolved, interrupted' => unresolved,
         interrupted' /\ ~killFlag => s # "Ready" /\ \E reason \in {"IN_PROGRESS", "UNRESOLVED", "KILL_ENGAGED"} : reason \in r
  PROVE  KeptBack' /\ startup' \in Startup /\ reasons' \subseteq Reasons /\ deps' \in [Dependencies -> BOOLEAN]
<1>1. /\ startup' \in Startup /\ reasons' \subseteq Reasons /\ deps' \in [Dependencies -> BOOLEAN]
      /\ ~killFlag => startup' = s /\ reasons' = r
      /\ killFlag => Read.startup' = "Blocked"
      /\ ~killFlag => Read.startup' = s
  BY Stores DEF ServiceInv
<1>2. CASE killFlag
  BY <1>1, <1>2 DEF KeptBack
<1>3. CASE ~killFlag
  BY <1>1, <1>3 DEF KeptBack
<1> QED
  BY <1>2, <1>3

\* Who starts or ends a start replaces all reasons; the end leaves Blocked while a run is unresolved.
LEMMA StartStores ==
  ASSUME ServiceInv, StartBegin \/ StartEnd \/ StoreRecord("Blocked", {"IN_PROGRESS", "FAILED"}, deps),
         UNCHANGED <<killFlag, unresolved, interrupted>>
  PROVE  KeptBack' /\ startup' \in Startup /\ reasons' \subseteq Reasons /\ deps' \in [Dependencies -> BOOLEAN]
<1>1. deps \in [Dependencies -> BOOLEAN] /\ (interrupted => unresolved)
  BY DEF ServiceInv, ServiceTypeOK, KeptBack
<1>2. CASE StartBegin
  BY <1>1, <1>2, StoredKeeps DEF StartBegin, Startup, Reasons
<1>3. CASE StartEnd /\ unresolved
  BY <1>1, <1>3, StoredKeeps DEF StartEnd, Startup, Reasons
<1>4. CASE StartEnd /\ ~unresolved
  BY <1>1, <1>4, StoredKeeps DEF StartEnd, Startup, Reasons
<1>5. CASE StoreRecord("Blocked", {"IN_PROGRESS", "FAILED"}, deps)
  BY <1>1, <1>5, StoredKeeps DEF Startup, Reasons
<1> QED
  BY <1>2, <1>3, <1>4, <1>5

LEMMA StartsKeep == ServiceInv /\ (Start \/ LoopStartFails \/ CommandStart \/ CommandStarted) => ServiceInv'
<1> SUFFICES ASSUME ServiceInv, Start \/ LoopStartFails \/ CommandStart \/ CommandStarted PROVE ServiceInv'
  OBVIOUS
<1>1. UNCHANGED <<killFlag, killFile, unresolved, interrupted, ticking, flags, failures, release, facts, backup, job, restorable>>
  BY DEF Start, Boot, RuntimeStarted, LoopStarted, LoopStartFails, CommandStart, CommandStarted, world
<1>2. StartBegin \/ StartEnd \/ StoreRecord("Blocked", {"IN_PROGRESS", "FAILED"}, deps)
  BY DEF Start, Boot, RuntimeStarted, LoopStarted, LoopStartFails, CommandStart, CommandStarted
<1>3. KeptBack' /\ startup' \in Startup /\ reasons' \subseteq Reasons /\ deps' \in [Dependencies -> BOOLEAN]
  BY <1>1, <1>2, StartStores
<1>4. boot' \in {"down", "runtime", "loop", "up"} /\ cli' \in {"idle", "starting"}
  BY DEF ServiceInv, ServiceTypeOK, Start, Boot, RuntimeStarted, LoopStarted, LoopStartFails, CommandStart, CommandStarted
<1>5. events' = events \/ (events > 0 /\ events' = events - 1)
  BY DEF Start, Boot, RuntimeStarted, LoopStarted, LoopStartFails, CommandStart, CommandStarted
<1>6. events' \in 0 .. Events
  BY <1>5, EventsAssumption DEF ServiceInv, ServiceTypeOK
<1> QED
  BY <1>1, <1>3, <1>4, <1>6 DEF ServiceInv, ServiceTypeOK, OkIsRestorable

\* A tick or a flags pass that has kept the record well leaves the invariant.
LEMMA LoopsKeep ==
  ASSUME ServiceInv, KeptBack', startup' \in Startup, reasons' \subseteq Reasons, deps' \in [Dependencies -> BOOLEAN],
         ticking' \in [pc : {"idle", "flag", "backup", "probe", "killed", "lift", "again", "unresolved"}, ok : BOOLEAN],
         flags' \in [pc : {"idle", "write", "recheck", "block"}, link : BOOLEAN, notify : BOOLEAN, killed : BOOLEAN],
         failures' \in 0 .. FailuresBeforeOff, interrupted' \in BOOLEAN,
         UNCHANGED <<killFlag, boot, cli, release, events, world>>
  PROVE  ServiceInv'
BY DEF ServiceInv, ServiceTypeOK, OkIsRestorable, world

\* Recording a kill marks the run it interrupts and leaves the reason of the kill.
LEMMA KillRecorded ==
  ASSUME ServiceInv, RecordKill, UNCHANGED <<killFlag, unresolved>>
  PROVE  KeptBack' /\ startup' \in Startup /\ reasons' \subseteq Reasons /\ deps' \in [Dependencies -> BOOLEAN] /\ interrupted' \in BOOLEAN
<1>1. /\ deps \in [Dependencies -> BOOLEAN] /\ (interrupted => unresolved) /\ interrupted \in BOOLEAN /\ unresolved \in BOOLEAN
      /\ "Blocked" \in Startup /\ Read.reasons \cup {"KILL_ENGAGED"} \in SUBSET Reasons
  BY ReadType DEF ServiceInv, ServiceTypeOK, KeptBack, Startup, Reasons
<1>2. interrupted' = (interrupted \/ unresolved)
  BY DEF RecordKill
<1>3. StoreRecord("Blocked", Read.reasons \cup {"KILL_ENGAGED"}, deps)
  BY DEF RecordKill, Block
<1>4. KeptBack' /\ startup' \in Startup /\ reasons' \subseteq Reasons /\ deps' \in [Dependencies -> BOOLEAN]
  BY <1>1, <1>2, <1>3, StoredKeeps
<1>5. interrupted' \in BOOLEAN
  BY <1>1, <1>2
<1> QED
  BY <1>4, <1>5

\* A step of the tick changes nothing but its own place, and what it stores.
LEMMA TickSteps ==
  ASSUME ServiceInv, NEW from, NEW to \in {"idle", "flag", "backup", "probe", "killed", "lift", "again", "unresolved"}, TickStep(from, to)
  PROVE  /\ ticking' \in [pc : {"idle", "flag", "backup", "probe", "killed", "lift", "again", "unresolved"}, ok : BOOLEAN]
         /\ UNCHANGED <<killFlag, boot, cli, flags, failures, release, events, world, unresolved>>
<1>1. ticking \in [pc : {"idle", "flag", "backup", "probe", "killed", "lift", "again", "unresolved"}, ok : BOOLEAN]
  BY DEF ServiceInv, ServiceTypeOK
<1>2. ticking' = [ticking EXCEPT !.pc = to]
  BY DEF TickStep
<1> QED
  BY <1>1, <1>2 DEF TickStep, world

\* A step that leaves the record as it is.
LEMMA RecordRests ==
  ASSUME ServiceInv, UNCHANGED <<killFlag, startup, reasons, deps, unresolved, interrupted>>
  PROVE  KeptBack' /\ startup' \in Startup /\ reasons' \subseteq Reasons /\ deps' \in [Dependencies -> BOOLEAN] /\ interrupted' \in BOOLEAN
BY DEF ServiceInv, ServiceTypeOK, KeptBack, Read

\* Lifting a reason that is not one of those that hold an interrupted run back.
LEMMA LiftKeeps ==
  ASSUME ServiceInv, NEW reason, Lifted(reason, Read.startup), UNCHANGED <<killFlag, unresolved, interrupted>>,
         reason = "BACKUP" \/ (reason = "UNRESOLVED" /\ ~unresolved)
  PROVE  KeptBack' /\ startup' \in Startup /\ reasons' \subseteq Reasons /\ deps' \in [Dependencies -> BOOLEAN] /\ interrupted' \in BOOLEAN
<1> DEFINE left == Read.reasons \ {reason}
           s == IF left = {} THEN "Ready" ELSE Read.startup
<1>1. s \in Startup /\ left \in SUBSET Reasons /\ deps \in [Dependencies -> BOOLEAN] /\ (interrupted => unresolved) /\ interrupted \in BOOLEAN
  BY ReadType DEF ServiceInv, ServiceTypeOK, KeptBack, Startup
<1>2. interrupted /\ ~killFlag => s # "Ready" /\ \E r \in {"IN_PROGRESS", "UNRESOLVED", "KILL_ENGAGED"} : r \in left
  BY DEF ServiceInv, KeptBack, Read
<1>3. StoreRecord(s, left, deps)
  BY DEF Lifted
<1> HIDE DEF s, left
<1> QED
  BY <1>1, <1>2, <1>3, StoredKeeps

LEMMA TicksKeep == ServiceInv /\ SchedulerTick => ServiceInv'
<1> SUFFICES ASSUME ServiceInv, SchedulerTick PROVE ServiceInv'
  OBVIOUS
<1> DEFINE Kept == KeptBack' /\ startup' \in Startup /\ reasons' \subseteq Reasons /\ deps' \in [Dependencies -> BOOLEAN] /\ interrupted' \in BOOLEAN
           Moved == /\ ticking' \in [pc : {"idle", "flag", "backup", "probe", "killed", "lift", "again", "unresolved"}, ok : BOOLEAN]
                    /\ UNCHANGED <<killFlag, boot, cli, flags, failures, release, events, world, unresolved>>
<1>0. /\ deps \in [Dependencies -> BOOLEAN] /\ ticking.ok \in BOOLEAN /\ BackupReady \in BOOLEAN
      /\ Read.startup \in Startup /\ Read.reasons \subseteq Reasons
      /\ (interrupted => unresolved) /\ interrupted \in BOOLEAN
      /\ flags \in [pc : {"idle", "write", "recheck", "block"}, link : BOOLEAN, notify : BOOLEAN, killed : BOOLEAN]
      /\ failures \in 0 .. FailuresBeforeOff
  BY ReadType DEF ServiceInv, ServiceTypeOK, KeptBack, BackupReady
<1>1. CASE TickObserve
  <2>1. Kept
    BY <1>1, RecordRests DEF TickObserve, world
  <2>2. Moved
    BY <1>0, <1>1 DEF TickObserve, world
  <2> QED
    BY <1>0, <2>1, <2>2, LoopsKeep
<1>2. ASSUME NEW from, NEW to \in {"idle", "flag", "backup", "probe", "killed", "lift", "again", "unresolved"}, TickStep(from, to), Kept
      PROVE  ServiceInv'
  BY <1>0, <1>2, TickSteps, LoopsKeep
<1>3. CASE TickFlag
  <2>1. TickStep("flag", "backup") /\ UNCHANGED <<killFlag, unresolved, interrupted>>
    BY <1>3 DEF TickFlag, TickStep, world
  <2> DEFINE d == [deps EXCEPT !["backup"] = ticking.ok]
  <2>2. d \in [Dependencies -> BOOLEAN] /\ StoreRecord(Read.startup, Read.reasons, d)
    BY <1>0, <1>3 DEF TickFlag
  <2>3. interrupted /\ ~killFlag => Read.startup # "Ready" /\ \E r \in {"IN_PROGRESS", "UNRESOLVED", "KILL_ENGAGED"} : r \in Read.reasons
    BY DEF ServiceInv, KeptBack, Read
  <2> HIDE DEF d
  <2>4. Kept
    BY <1>0, <2>1, <2>2, <2>3, StoredKeeps
  <2> QED
    BY <1>2, <2>1, <2>4
<1>4. CASE TickBackupMissing
  <2>1. TickStep("backup", "idle") /\ UNCHANGED <<killFlag, unresolved, interrupted>>
    BY <1>4 DEF TickBackupMissing, TickStep, world
  <2> DEFINE r == Read.reasons \cup {"BACKUP"}
  <2>2. r \in SUBSET Reasons /\ "Blocked" \in Startup /\ StoreRecord("Blocked", r, deps)
    BY <1>0, <1>4 DEF TickBackupMissing, Block, Startup, Reasons
  <2>3. interrupted /\ ~killFlag => \E reason \in {"IN_PROGRESS", "UNRESOLVED", "KILL_ENGAGED"} : reason \in r
    BY DEF ServiceInv, KeptBack, Read
  <2> HIDE DEF r
  <2>4. Kept
    BY <1>0, <2>1, <2>2, <2>3, StoredKeeps
  <2> QED
    BY <1>2, <2>1, <2>4
<1>5. CASE TickBackupReady
  <2>1. TickStep("backup", "probe") /\ UNCHANGED <<killFlag, unresolved, interrupted>>
    BY <1>5 DEF TickBackupReady, TickStep, world
  <2>2. Lifted("BACKUP", Read.startup) \/ UNCHANGED <<startup, reasons, deps>>
    BY <1>5 DEF TickBackupReady
  <2>3. Kept
    BY <2>1, <2>2, LiftKeeps, RecordRests
  <2> QED
    BY <1>2, <2>1, <2>3
<1>6. CASE TickProbe \/ TickNothingToLift
  <2>1. /\ \E from, to \in {"probe", "lift", "killed", "unresolved"} : TickStep(from, to)
        /\ UNCHANGED <<startup, reasons, deps, interrupted>>
    BY <1>6 DEF TickProbe, TickNothingToLift
  <2>2. UNCHANGED <<killFlag, unresolved>>
    BY <2>1 DEF TickStep, world
  <2> QED
    BY <1>2, <2>1, <2>2, RecordRests
<1>7. CASE TickKilled
  <2>1. TickStep("killed", "idle") /\ RecordKill /\ UNCHANGED <<killFlag, unresolved>>
    BY <1>7 DEF TickKilled, TickStep, world
  <2> QED
    BY <1>2, <2>1, KillRecorded
<1>8. CASE TickLift
  <2>1. TickStep("lift", "again") /\ UNCHANGED <<killFlag, unresolved, interrupted>> /\ LiftKill
    BY <1>8 DEF TickLift, TickStep, world
  <2> DEFINE left == (Read.reasons \ {"KILL_ENGAGED"}) \cup (IF unresolved THEN {"UNRESOLVED"} ELSE {})
             s == IF left = {} THEN "Ready" ELSE "Blocked"
  <2>2. UNCHANGED <<startup, reasons, deps>> \/ StoreRecord(s, left, deps)
    BY <2>1 DEF LiftKill
  <2>3. s \in Startup /\ left \in SUBSET Reasons
    BY <1>0 DEF Startup, Reasons
  <2>4. interrupted => s # "Ready" /\ \E reason \in {"IN_PROGRESS", "UNRESOLVED", "KILL_ENGAGED"} : reason \in left
    BY <1>0
  <2> HIDE DEF s, left
  <2>5. Kept
    BY <1>0, <2>1, <2>2, <2>3, <2>4, StoredKeeps, RecordRests
  <2> QED
    BY <1>2, <2>1, <2>5
<1>9. CASE TickAgain
  <2>1. /\ TickStep("again", "idle") \/ TickStep("again", "unresolved")
        /\ RecordKill \/ UNCHANGED <<startup, reasons, deps, interrupted>>
    BY <1>9 DEF TickAgain
  <2>2. UNCHANGED <<killFlag, unresolved>>
    BY <2>1 DEF TickStep, world
  <2> QED
    BY <1>2, <2>1, <2>2, KillRecorded, RecordRests
<1>10. CASE TickUnresolved
  <2>1. TickStep("unresolved", "idle") /\ UNCHANGED <<killFlag, unresolved, interrupted>>
    BY <1>10 DEF TickUnresolved, TickStep, world
  <2>2. (Lifted("UNRESOLVED", Read.startup) /\ ~unresolved) \/ UNCHANGED <<startup, reasons, deps>>
    BY <1>10 DEF TickUnresolved
  <2>3. Kept
    BY <2>1, <2>2, LiftKeeps, RecordRests
  <2> QED
    BY <1>2, <2>1, <2>3
<1> QED
  BY <1>1, <1>3, <1>4, <1>5, <1>6, <1>7, <1>8, <1>9, <1>10 DEF SchedulerTick

\* A step of the flags pass changes nothing but its own place, and what it stores.
LEMMA FlagsSteps ==
  ASSUME ServiceInv, NEW from, NEW to \in {"idle", "write", "recheck", "block"}, FlagsStep(from, to)
  PROVE  /\ flags' \in [pc : {"idle", "write", "recheck", "block"}, link : BOOLEAN, notify : BOOLEAN, killed : BOOLEAN]
         /\ UNCHANGED <<killFlag, boot, cli, ticking, failures, release, events, world, unresolved>>
<1>1. flags \in [pc : {"idle", "write", "recheck", "block"}, link : BOOLEAN, notify : BOOLEAN, killed : BOOLEAN]
  BY DEF ServiceInv, ServiceTypeOK
<1>2. flags' = [flags EXCEPT !.pc = to]
  BY DEF FlagsStep
<1> QED
  BY <1>1, <1>2 DEF FlagsStep, world

\* What the pass writes after its probes: it makes the service Ready only while no run is unresolved.
LEMMA FlagsWriteKeeps == ServiceInv /\ FlagsWrite => ServiceInv'
<1> SUFFICES ASSUME ServiceInv, FlagsWrite PROVE ServiceInv'
  OBVIOUS
<1> DEFINE next == [deps EXCEPT !["link"] = flags.link, !["notify"] = flags.notify]
           others == Read.reasons \ {"DEPENDENCIES"}
           remaining == others \cup (IF killFlag THEN {"KILLED"} ELSE {}) \cup (IF flags.killed THEN {"KILL_ENGAGED"} ELSE {})
           clear == "DEPENDENCIES" \in Read.reasons /\ Read.startup = "Blocked" /\ remaining = {} /\ ~unresolved
           s == IF clear THEN "Ready" ELSE Read.startup
           blocked == others \cup {"DEPENDENCIES"}
<1>1. FlagsStep("write", "recheck") /\ UNCHANGED <<killFlag, unresolved>>
  BY DEF FlagsWrite, FlagsStep, world
<1>2. /\ StoreRecord(s, remaining, next) \/ StoreRecord("Blocked", blocked, next)
      /\ interrupted' = (interrupted \/ (unresolved /\ startup' = "Blocked" /\ "KILL_ENGAGED" \in reasons'))
  BY DEF FlagsWrite
<1>3. /\ deps \in [Dependencies -> BOOLEAN] /\ flags.link \in BOOLEAN /\ flags.notify \in BOOLEAN
      /\ Read.startup \in Startup /\ Read.reasons \subseteq Reasons
      /\ interrupted \in BOOLEAN /\ unresolved \in BOOLEAN
      /\ ticking \in [pc : {"idle", "flag", "backup", "probe", "killed", "lift", "again", "unresolved"}, ok : BOOLEAN]
      /\ failures \in 0 .. FailuresBeforeOff
  BY ReadType DEF ServiceInv, ServiceTypeOK
<1>4. next \in [Dependencies -> BOOLEAN] /\ s \in Startup /\ remaining \in SUBSET Reasons /\ blocked \in SUBSET Reasons /\ "Blocked" \in Startup
  BY <1>3 DEF Startup, Reasons
<1>5. interrupted => unresolved
  BY DEF ServiceInv, KeptBack
<1>6. interrupted /\ ~killFlag =>
        /\ s # "Ready"
        /\ \E r \in {"IN_PROGRESS", "UNRESOLVED", "KILL_ENGAGED"} : r \in remaining
        /\ \E r \in {"IN_PROGRESS", "UNRESOLVED", "KILL_ENGAGED"} : r \in blocked
  BY DEF ServiceInv, KeptBack, Read
<1> HIDE DEF next, s, remaining, blocked, clear, others
<1>7. /\ startup' \in Startup /\ reasons' \subseteq Reasons /\ deps' \in [Dependencies -> BOOLEAN]
      /\ ~killFlag => (startup' = s /\ reasons' = remaining) \/ (startup' = "Blocked" /\ reasons' = blocked)
  BY <1>1, <1>2, <1>4, Stores DEF ServiceInv
<1>8. KeptBack'
  <2>1. CASE killFlag
    BY <1>1, <1>2, <1>5, <2>1 DEF KeptBack, Read
  <2>2. CASE ~killFlag /\ interrupted
    BY <1>1, <1>5, <1>6, <1>7, <2>2 DEF KeptBack, Read
  <2>3. CASE ~killFlag /\ ~interrupted
    BY <1>1, <1>2, <2>3 DEF KeptBack, Read
  <2> QED
    BY <2>1, <2>2, <2>3
<1>9. interrupted' \in BOOLEAN
  BY <1>2, <1>3
<1>10. /\ flags' \in [pc : {"idle", "write", "recheck", "block"}, link : BOOLEAN, notify : BOOLEAN, killed : BOOLEAN]
       /\ UNCHANGED <<killFlag, boot, cli, ticking, failures, release, events, world, unresolved>>
  BY <1>1, FlagsSteps
<1> QED
  BY <1>3, <1>7, <1>8, <1>9, <1>10, LoopsKeep

LEMMA FlagsKeep == ServiceInv /\ Flags => ServiceInv'
<1> SUFFICES ASSUME ServiceInv, Flags PROVE ServiceInv'
  OBVIOUS
<1> DEFINE Kept == KeptBack' /\ startup' \in Startup /\ reasons' \subseteq Reasons /\ deps' \in [Dependencies -> BOOLEAN] /\ interrupted' \in BOOLEAN
<1>0. /\ ticking \in [pc : {"idle", "flag", "backup", "probe", "killed", "lift", "again", "unresolved"}, ok : BOOLEAN]
      /\ failures \in 0 .. FailuresBeforeOff
      /\ facts["link"] \in BOOLEAN /\ facts["notify"] \in BOOLEAN /\ deps["notify"] \in BOOLEAN /\ KillOn \in BOOLEAN
  BY DEF ServiceInv, ServiceTypeOK, Dependencies, KillOn
<1>1. ASSUME NEW from, NEW to \in {"idle", "write", "recheck", "block"}, FlagsStep(from, to), Kept
      PROVE  ServiceInv'
  BY <1>0, <1>1, FlagsSteps, LoopsKeep
<1>2. CASE FlagsProbe
  <2> DEFINE failed == IF facts["notify"] THEN 0 ELSE IF failures < FailuresBeforeOff THEN failures + 1 ELSE failures
             notify == facts["notify"] \/ (deps["notify"] /\ failed < FailuresBeforeOff)
  <2>1. failed \in 0 .. FailuresBeforeOff
    BY <1>0, FailuresAssumption
  <2>2. failures' = failed /\ flags' = [pc |-> "write", link |-> facts["link"], killed |-> KillOn, notify |-> notify]
        /\ UNCHANGED <<killFlag, startup, reasons, deps, boot, cli, ticking, release, events, interrupted, world>>
    BY <1>2 DEF FlagsProbe
  <2>3. Kept
    BY <2>2, RecordRests DEF world
  <2>4. notify \in BOOLEAN
    OBVIOUS
  <2> HIDE DEF failed, notify
  <2>5. flags' \in [pc : {"idle", "write", "recheck", "block"}, link : BOOLEAN, notify : BOOLEAN, killed : BOOLEAN]
    BY <1>0, <2>2, <2>4
  <2> QED
    BY <1>0, <2>1, <2>2, <2>3, <2>5, LoopsKeep
<1>3. CASE FlagsRecheck
  <2>1. /\ \E from, to \in {"recheck", "block", "idle"} : FlagsStep(from, to)
        /\ UNCHANGED <<startup, reasons, deps, interrupted>>
    BY <1>3 DEF FlagsRecheck
  <2>2. UNCHANGED <<killFlag, unresolved>>
    BY <2>1 DEF FlagsStep, world
  <2> QED
    BY <1>1, <2>1, <2>2, RecordRests
<1>4. CASE FlagsBlock
  <2>1. FlagsStep("block", "idle") /\ RecordKill /\ UNCHANGED <<killFlag, unresolved>>
    BY <1>4 DEF FlagsBlock, FlagsStep, world
  <2> QED
    BY <1>1, <2>1, KillRecorded
<1> QED
  BY <1>2, <1>3, <1>4, FlagsWriteKeeps DEF Flags

\* The release is refused while a run is unresolved; what it takes away later was stored before.
LEMMA ReleaseKeeps == ServiceInv /\ (ReleaseFlag \/ ReleaseReason \/ ReleaseFile) => ServiceInv'
<1> SUFFICES ASSUME ServiceInv, ReleaseFlag \/ ReleaseReason \/ ReleaseFile PROVE ServiceInv'
  OBVIOUS
<1>1. CASE ReleaseFlag
  <2>1. ~interrupted
    BY <1>1 DEF ReleaseFlag, ServiceInv, KeptBack
  <2>2. /\ killFlag' = FALSE /\ release' \in {"reason", "file"}
        /\ UNCHANGED <<startup, reasons, deps, boot, cli, ticking, flags, failures, events, interrupted,
                       killFile, unresolved, facts, backup, job, restorable>>
    BY <1>1 DEF ReleaseFlag, world
  <2>3. KeptBack'
    BY <2>1, <2>2 DEF KeptBack
  <2>4. OkIsRestorable'
    BY <2>2 DEF ServiceInv, OkIsRestorable
  <2>5. killFlag' \in BOOLEAN /\ release' \in {"reason", "file"}
        /\ UNCHANGED <<startup, reasons, deps, boot, cli, ticking, flags, failures, events, interrupted,
                       killFile, unresolved, facts, backup, job, restorable>>
    BY <2>2
  <2>6. ServiceTypeOK'
    BY <2>5 DEF ServiceInv, ServiceTypeOK
  <2> QED
    BY <2>3, <2>4, <2>6 DEF ServiceInv
<1>2. CASE ReleaseReason
  <2> DEFINE left == Read.reasons \ {"KILLED"}
  <2>1. StoreRecord(Read.startup, left, deps) /\ release' = "file"
        /\ UNCHANGED <<killFlag, boot, cli, ticking, flags, failures, events, interrupted, world, unresolved>>
    BY <1>2 DEF ReleaseReason, world
  <2>2. Read.startup \in Startup /\ left \in SUBSET Reasons /\ deps \in [Dependencies -> BOOLEAN] /\ (interrupted => unresolved)
    BY ReadType DEF ServiceInv, ServiceTypeOK, KeptBack
  <2>3. interrupted /\ ~killFlag => Read.startup # "Ready" /\ \E r \in {"IN_PROGRESS", "UNRESOLVED", "KILL_ENGAGED"} : r \in left
    BY DEF ServiceInv, KeptBack, Read
  <2> HIDE DEF left
  <2>4. KeptBack' /\ startup' \in Startup /\ reasons' \subseteq Reasons /\ deps' \in [Dependencies -> BOOLEAN]
    BY <2>1, <2>2, <2>3, StoredKeeps
  <2> QED
    BY <2>1, <2>4 DEF ServiceInv, ServiceTypeOK, OkIsRestorable, world
<1>3. CASE ReleaseFile
  <2>1. /\ killFile' \in BOOLEAN /\ release' = "idle"
        /\ UNCHANGED <<killFlag, startup, reasons, deps, boot, cli, ticking, flags, failures, events, interrupted,
                       unresolved, facts, backup, job, restorable>>
    BY <1>3 DEF ReleaseFile
  <2>2. KeptBack'
    BY <2>1, RecordRests
  <2>3. OkIsRestorable'
    BY <2>1 DEF ServiceInv, OkIsRestorable
  <2>4. ServiceTypeOK'
    BY <2>1 DEF ServiceInv, ServiceTypeOK
  <2> QED
    BY <2>2, <2>3, <2>4 DEF ServiceInv
<1> QED
  BY <1>1, <1>2, <1>3

\* The owner's kill is an interruption too, and the stored flag is read as Blocked.
LEMMA KillsKeep == ServiceInv /\ (KillFile \/ CoordinatorKill \/ RemoveFile) => ServiceInv'
<1> SUFFICES ASSUME ServiceInv, KillFile \/ CoordinatorKill \/ RemoveFile PROVE ServiceInv'
  OBVIOUS
<1>1. events' \in 0 .. Events
  <2>1. events' = events \/ (events > 0 /\ events' = events - 1)
    BY DEF KillFile, CoordinatorKill, RemoveFile
  <2> QED
    BY <2>1, EventsAssumption DEF ServiceInv, ServiceTypeOK
<1>2. CASE KillFile \/ RemoveFile
  <2>1. /\ killFile' \in BOOLEAN
        /\ UNCHANGED <<killFlag, startup, reasons, deps, boot, cli, ticking, flags, failures, release, interrupted,
                       unresolved, facts, backup, job, restorable>>
    BY <1>2 DEF KillFile, RemoveFile, loops
  <2>2. KeptBack'
    BY <2>1, RecordRests
  <2>3. OkIsRestorable'
    BY <2>1 DEF ServiceInv, OkIsRestorable
  <2>4. ServiceTypeOK'
    BY <1>1, <2>1 DEF ServiceInv, ServiceTypeOK
  <2> QED
    BY <2>2, <2>3, <2>4 DEF ServiceInv
<1>3. CASE CoordinatorKill
  <2>1. /\ killFlag' = TRUE /\ startup' = "Blocked" /\ reasons' = reasons \cup {"KILLED"} /\ interrupted' = (interrupted \/ unresolved)
        /\ UNCHANGED <<deps, boot, cli, ticking, flags, failures, release, killFile, unresolved, facts, backup, job, restorable>>
    BY <1>3 DEF CoordinatorKill, loops, world
  <2>2. KeptBack'
    BY <2>1 DEF ServiceInv, KeptBack, Read
  <2>3. startup' \in Startup /\ reasons' \subseteq Reasons
    BY <2>1 DEF ServiceInv, ServiceTypeOK, Startup, Reasons
  <2>4. interrupted' \in BOOLEAN
    BY <2>1 DEF ServiceInv, ServiceTypeOK
  <2> QED
    BY <1>1, <2>1, <2>2, <2>3, <2>4 DEF ServiceInv, ServiceTypeOK, OkIsRestorable
<1> QED
  BY <1>2, <1>3

\* The world, the backup job and the crash leave the record alone; a run that is resolved is no longer interrupted.
LEMMA WorldKeeps ==
  ServiceInv /\ (RunStarts \/ RunResolves \/ ProbeFails \/ ProbeRecovers \/ BackupAges \/ BackupFails \/ Backup \/ ProcessCrash) => ServiceInv'
<1> SUFFICES ASSUME ServiceInv, RunStarts \/ RunResolves \/ ProbeFails \/ ProbeRecovers \/ BackupAges \/ BackupFails \/ Backup \/ ProcessCrash
             PROVE  ServiceInv'
  OBVIOUS
<1>1. events' \in 0 .. Events
  <2>1. events' = events \/ (events > 0 /\ events' = events - 1)
    BY DEF RunStarts, RunResolves, ProbeFails, ProbeRecovers, BackupAges, BackupFails, Backup, BackupSnapshot, BackupChecked, BackupOk, BackupQuiet, ProcessCrash
  <2> QED
    BY <2>1, EventsAssumption DEF ServiceInv, ServiceTypeOK
<1>2. CASE RunStarts
  <2>1. ~interrupted
    BY <1>2 DEF RunStarts, ServiceInv, KeptBack
  <2> QED
    BY <1>1, <1>2, <2>1 DEF RunStarts, ServiceInv, ServiceTypeOK, OkIsRestorable, KeptBack, loops
<1>3. CASE RunResolves
  <2>1. /\ unresolved' = FALSE /\ interrupted' = FALSE
        /\ UNCHANGED <<killFlag, killFile, startup, reasons, deps, boot, cli, ticking, flags, failures, release,
                       facts, backup, job, restorable>>
    BY <1>3 DEF RunResolves, loops
  <2>2. KeptBack'
    BY <2>1 DEF KeptBack
  <2>3. OkIsRestorable'
    BY <2>1 DEF ServiceInv, OkIsRestorable
  <2>4. /\ unresolved' \in BOOLEAN /\ interrupted' \in BOOLEAN
        /\ UNCHANGED <<killFlag, killFile, startup, reasons, deps, boot, cli, ticking, flags, failures, release,
                       facts, backup, job, restorable>>
    BY <2>1
  <2>5. ServiceTypeOK'
    BY <1>1, <2>4 DEF ServiceInv, ServiceTypeOK
  <2> QED
    BY <2>2, <2>3, <2>5 DEF ServiceInv
<1>4. CASE ProbeFails \/ ProbeRecovers
  <2>1. facts' \in [{"link", "notify"} -> BOOLEAN]
    BY <1>4 DEF ProbeFails, ProbeRecovers, ServiceInv, ServiceTypeOK
  <2>2. UNCHANGED <<killFlag, killFile, startup, reasons, deps, boot, cli, ticking, flags, failures, release, unresolved, backup, job, interrupted, restorable>>
    BY <1>4 DEF ProbeFails, ProbeRecovers, loops
  <2> QED
    BY <1>1, <2>1, <2>2, RecordRests DEF ServiceInv, ServiceTypeOK, OkIsRestorable
<1>5. CASE BackupAges \/ BackupFails \/ Backup
  <2>1. UNCHANGED <<killFlag, killFile, startup, reasons, deps, boot, cli, ticking, flags, failures, release, unresolved, facts, interrupted>>
    BY <1>5 DEF BackupAges, BackupFails, Backup, BackupSnapshot, BackupChecked, BackupOk, BackupQuiet, loops
  <2>2. /\ backup' \in {"fresh", "due", "stale", "failed"} /\ job' \in {"idle", "snapshot", "checked"} /\ restorable' \in BOOLEAN
        /\ OkIsRestorable'
    BY <1>5 DEF BackupAges, BackupFails, Backup, BackupSnapshot, BackupChecked, BackupOk, ServiceInv, ServiceTypeOK, OkIsRestorable
  <2> QED
    BY <1>1, <2>1, <2>2, RecordRests DEF ServiceInv, ServiceTypeOK
<1>6. CASE ProcessCrash
  <2>1. /\ UNCHANGED <<killFlag, killFile, startup, reasons, deps, unresolved, cli, facts, backup, interrupted, restorable>>
        /\ boot' = "down" /\ failures' = 0 /\ release' = "idle" /\ job' = "idle"
    BY <1>6 DEF ProcessCrash
  <2>2. /\ ticking' \in [pc : {"idle", "flag", "backup", "probe", "killed", "lift", "again", "unresolved"}, ok : BOOLEAN]
        /\ flags' \in [pc : {"idle", "write", "recheck", "block"}, link : BOOLEAN, notify : BOOLEAN, killed : BOOLEAN]
    BY <1>6 DEF ProcessCrash, ServiceInv, ServiceTypeOK
  <2>3. 0 \in 0 .. FailuresBeforeOff
    BY FailuresAssumption
  <2> QED
    BY <1>1, <2>1, <2>2, <2>3, RecordRests DEF ServiceInv, ServiceTypeOK, OkIsRestorable
<1> QED
  BY <1>2, <1>3, <1>4, <1>5, <1>6

LEMMA ServiceInvInit == ServiceInit => ServiceInv
<1> SUFFICES ASSUME ServiceInit PROVE ServiceInv
  OBVIOUS
<1>1. 0 \in 0 .. FailuresBeforeOff /\ Events \in 0 .. Events
  BY FailuresAssumption, EventsAssumption
<1> QED
  BY <1>1 DEF ServiceInit, ServiceInv, ServiceTypeOK, OkIsRestorable, KeptBack, Startup, Reasons

LEMMA ServiceInvNext == ServiceInv /\ [ServiceNext]_serviceVars => ServiceInv'
<1> SUFFICES ASSUME ServiceInv, [ServiceNext]_serviceVars PROVE ServiceInv'
  OBVIOUS
<1>1. CASE UNCHANGED serviceVars
  BY <1>1, RecordRests DEF serviceVars, ServiceInv, ServiceTypeOK, OkIsRestorable
<1> QED
  BY <1>1, StartsKeep, TicksKeep, FlagsKeep, ReleaseKeeps, KillsKeep, WorldKeeps DEF ServiceNext, ReleaseGoesOn

LEMMA ServiceInvSafe == ServiceInv => ServiceSafety
BY DEF ServiceInv, ServiceSafety, KeptBack, InterruptedHolds

\* ServiceSafety: a run that a kill interrupted keeps the service from Ready until it is resolved,
\* whatever the tick, the flags pass, a restart or a second process writes in between, and the
\* backup's status "ok" stands for a snapshot that was restored.
THEOREM ServiceSafe == ServiceSpec => []ServiceSafety
BY ServiceInvSafe, ServiceInvInit, ServiceInvNext, PTL DEF ServiceSpec

-----------------------------------------------------------------------------
(* The two together, as the run checks them                                *)

AllInv == part \in {"record", "requests"} /\ ServiceInv /\ FireInv

\* A step of one part leaves the other where it is.
LEMMA AllInvNext == AllInv /\ [AllNext]_allVars => AllInv'
<1> SUFFICES ASSUME AllInv, [AllNext]_allVars PROVE AllInv'
  OBVIOUS
<1>1. /\ [ServiceNext]_serviceVars
      /\ [FireNext]_fireVars
      /\ part' = part
  BY DEF AllNext, RecordPart, RequestPart, allVars
<1> QED
  BY <1>1, ServiceInvNext, FireInvNext DEF AllInv

\* AllSafety: both of the above hold of the service process, whichever part of it moves.
THEOREM ServiceProcessSafe == AllSpec => []AllSafety
<1>1. AllInit => AllInv
  BY ServiceInvInit, FireInvInit DEF AllInit, AllInv
<1>2. AllInv => AllSafety
  BY ServiceInvSafe DEF AllInv, AllSafety, FireInv
<1> QED
  BY <1>1, <1>2, AllInvNext, PTL DEF AllSpec

=============================================================================
