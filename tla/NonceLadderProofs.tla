-------------------------- MODULE NonceLadderProofs --------------------------
(* The ladder of replacements is safe for every bound on replacements, every  *)
(* first fee, any endpoints and any number of reorganisations: what the       *)
(* chain may mine is stored, paid for by the reservation and watched, and a   *)
(* settlement is final.                                                       *)
EXTENDS NonceLadder, TLAPS

----------------------------------------------------------------------------
(* Fees *)

FeePairs == [fee : Nat, tip : Nat]

\* Raising a fee adds at least ten per cent.
LEMMA RaiseBy ==
  ASSUME NEW v \in Nat
  PROVE  Raise(v) \in Nat /\ 10 * Raise(v) >= 11 * v /\ Raise(v) >= v
BY SMT DEF Raise

\* One replacement raises both fees by ten per cent, and the fee covers the tip.
LEMMA NextStepFacts ==
  ASSUME NEW f \in FeePairs
  PROVE  /\ NextStep(f) \in FeePairs
         /\ 10 * NextStep(f).fee >= 11 * f.fee /\ 10 * NextStep(f).tip >= 11 * f.tip
         /\ NextStep(f).tip > f.tip /\ NextStep(f).tip <= NextStep(f).fee
         /\ Within(f, NextStep(f))
<1>1. Raise(f.fee) \in Nat /\ 10 * Raise(f.fee) >= 11 * f.fee /\ Raise(f.fee) >= f.fee
  BY RaiseBy DEF FeePairs
<1>2. Raise(f.tip) \in Nat /\ 10 * Raise(f.tip) >= 11 * f.tip /\ Raise(f.tip) >= f.tip
  BY RaiseBy DEF FeePairs
<1> QED
  BY <1>1, <1>2 DEF NextStep, Higher, Within, FeePairs

\* The table of fees exists, so it follows its own rule: the replacements of a run are at most
\* five, and the six entries can be written down.
LEMMA StepsDefined ==
  ASSUME NEW f
  PROVE  \A b \in 0..5 : StepsFrom(f)[b] = IF b = 0 THEN f ELSE NextStep(StepsFrom(f)[b - 1])
<1> DEFINE a1 == NextStep(f)
           a2 == NextStep(a1)
           a3 == NextStep(a2)
           a4 == NextStep(a3)
           a5 == NextStep(a4)
           s == [b \in 0..5 |-> IF b = 0 THEN f ELSE IF b = 1 THEN a1 ELSE IF b = 2 THEN a2
                               ELSE IF b = 3 THEN a3 ELSE IF b = 4 THEN a4 ELSE a5]
           Good(g) == g = [b \in 0..5 |-> IF b = 0 THEN f ELSE NextStep(g[b - 1])]
<1>1. \A b \in 0..5 : s[b] = IF b = 0 THEN f ELSE NextStep(s[b - 1])
  <2>1. \A b \in 0..5 : b = 0 \/ b = 1 \/ b = 2 \/ b = 3 \/ b = 4 \/ b = 5
    OBVIOUS
  <2>2. s[0] = f /\ s[1] = a1 /\ s[2] = a2 /\ s[3] = a3 /\ s[4] = a4 /\ s[5] = a5
    OBVIOUS
  <2> HIDE DEF s
  <2> QED
    BY <2>1, <2>2
<1>2. Good(s)
  BY <1>1
<1>3. StepsFrom(f) = CHOOSE g : Good(g)
  BY DEF StepsFrom
<1> HIDE DEF Good, s
<1>4. Good(StepsFrom(f))
  BY <1>2, <1>3
<1> QED
  BY <1>4 DEF Good

\* Each entry of the table is a pair of fees that is within every later one.
LEMMA StepsRise ==
  ASSUME NEW f \in FeePairs
  PROVE  /\ \A b \in 0..5 : StepsFrom(f)[b] \in FeePairs
         /\ \A b, c \in 0..5 : b <= c => Within(StepsFrom(f)[b], StepsFrom(f)[c])
<1> DEFINE s == StepsFrom(f)
<1>1. s[0] = f /\ \A b \in 1..5 : s[b] = NextStep(s[b - 1])
  BY StepsDefined
<1> HIDE DEF s
<1>2. s[1] = NextStep(s[0]) /\ s[2] = NextStep(s[1]) /\ s[3] = NextStep(s[2])
      /\ s[4] = NextStep(s[3]) /\ s[5] = NextStep(s[4])
  BY <1>1
<1>3. s[0] \in FeePairs /\ s[1] \in FeePairs /\ s[2] \in FeePairs /\ s[3] \in FeePairs /\ s[4] \in FeePairs /\ s[5] \in FeePairs
  <2>1. s[0] \in FeePairs
    BY <1>1
  <2>2. s[1] \in FeePairs
    BY <2>1, <1>2, NextStepFacts
  <2>3. s[2] \in FeePairs
    BY <2>2, <1>2, NextStepFacts
  <2>4. s[3] \in FeePairs
    BY <2>3, <1>2, NextStepFacts
  <2>5. s[4] \in FeePairs
    BY <2>4, <1>2, NextStepFacts
  <2>6. s[5] \in FeePairs
    BY <2>5, <1>2, NextStepFacts
  <2> QED
    BY <2>1, <2>2, <2>3, <2>4, <2>5, <2>6
<1>4. \A b \in 0..5 : b = 0 \/ b = 1 \/ b = 2 \/ b = 3 \/ b = 4 \/ b = 5
  OBVIOUS
<1>5. Within(s[0], s[1]) /\ Within(s[1], s[2]) /\ Within(s[2], s[3]) /\ Within(s[3], s[4])
      /\ Within(s[4], s[5])
  BY <1>2, <1>3, NextStepFacts
<1>6. \A a, b, c \in FeePairs : Within(a, b) /\ Within(b, c) => Within(a, c)
  BY DEF Within, FeePairs
<1>7. \A a \in FeePairs : Within(a, a)
  BY DEF Within, FeePairs
<1>8. \A b \in 0..5 : s[b] \in FeePairs
  BY <1>3, <1>4
<1>9. \A b, c \in 0..5 : b <= c => Within(s[b], s[c])
  <2>1. Within(s[0], s[2]) /\ Within(s[1], s[3]) /\ Within(s[2], s[4]) /\ Within(s[3], s[5])
    BY <1>3, <1>5, <1>6
  <2>2. Within(s[0], s[3]) /\ Within(s[1], s[4]) /\ Within(s[2], s[5])
    BY <1>3, <1>5, <1>6, <2>1
  <2>3. Within(s[0], s[4]) /\ Within(s[1], s[5]) /\ Within(s[0], s[5])
    BY <1>3, <1>5, <1>6, <2>1, <2>2
  <2>4. \A b \in 0..5 : Within(s[b], s[b])
    BY <1>7, <1>8
  <2> QED
    BY <1>4, <1>5, <2>1, <2>2, <2>3, <2>4
<1> QED
  BY <1>8, <1>9 DEF s

----------------------------------------------------------------------------
(* The inductive invariant *)

\* The ceiling is the last step of the first fees, and the i-th attempt is their (i-1)-th step.
OnTheLadder ==
  /\ attempts[1].tip <= attempts[1].fee
  /\ ceiling = RequiredCeiling(attempts[1])
  /\ \A i \in 1..Newest : attempts[i] = StepsFrom(attempts[1])[i - 1]

\* A ladder past its plan has room for one more replacement.
RoomAhead == pc \in {"precheck", "enter", "sign", "signing"} => Newest <= MaxBumps

\* What is on chain is one of the attempts some node took, or foreign.
MinedWasSent == mined \in pool \cup {None, Foreign}

\* Every attempt is stored as it joins the set.
StoredAll == stored = 1..Newest

\* The ladder never ends for want of money.
NeverShort == stop # "REPLACEMENT_CEILING_REACHED"

\* Without a winner in hand every attempt has its watcher.
WatchedAll == pc = "watch" /\ hint = None => DOMAIN watch = 1..Newest

LadderInv ==
  /\ TypeOK /\ OnTheLadder /\ RoomAhead /\ MinedWasSent /\ StoredAll /\ NeverShort /\ WatchedAll
  /\ SettledIsFinal

----------------------------------------------------------------------------
(* What the invariant says of the fees *)

\* The fees of an attempt are those of its step.
LEMMA AttemptFees ==
  ASSUME TypeOK, OnTheLadder
  PROVE  /\ MaxBumps \in 1..5 /\ Newest \in 1..(MaxBumps + 1)
         /\ attempts[1] \in FeePairs
         /\ \A i \in 1..Newest : attempts[i] \in FeePairs /\ i - 1 \in 0..5
<1>1. MaxBumps \in 1..5
  BY ConstantsAssumption
<1>2. Newest \in 1..(MaxBumps + 1) /\ attempts \in Seq([fee : Nat \ {0}, tip : Nat])
  BY DEF TypeOK
<1>3. \A i \in 1..Newest : attempts[i] \in [fee : Nat \ {0}, tip : Nat]
  <2> DEFINE S == [fee : Nat \ {0}, tip : Nat]
  <2>1. attempts \in Seq(S)
    BY <1>2
  <2> HIDE DEF S
  <2>2. \A i \in 1..Len(attempts) : attempts[i] \in S
    BY <2>1
  <2> QED
    BY <2>2 DEF Newest, S
<1>4. \A i \in 1..Newest : attempts[i] \in FeePairs
  BY <1>3 DEF FeePairs
<1>5. 1 \in 1..Newest /\ \A i \in 1..Newest : i - 1 \in 0..5
  BY <1>1, <1>2
<1> QED
  BY <1>1, <1>2, <1>4, <1>5

\* The next fees fit the ceiling as long as replacements are left.
LEMMA NextFits ==
  ASSUME TypeOK, OnTheLadder, Newest <= MaxBumps
  PROVE  /\ NextStep(attempts[Newest]) = StepsFrom(attempts[1])[Newest]
         /\ Within(NextStep(attempts[Newest]), ceiling)
<1> DEFINE s == StepsFrom(attempts[1])
<1>1. MaxBumps \in 1..5 /\ Newest \in 1..MaxBumps /\ attempts[1] \in FeePairs
  BY AttemptFees
<1>2. attempts[Newest] = s[Newest - 1]
  BY <1>1 DEF OnTheLadder
<1>3. \A b \in 0..5 : s[b] = IF b = 0 THEN attempts[1] ELSE NextStep(s[b - 1])
  BY StepsDefined
<1>4. \A b, c \in 0..5 : b <= c => Within(s[b], s[c])
  BY <1>1, StepsRise
<1>5. ceiling = s[MaxBumps]
  BY DEF OnTheLadder, RequiredCeiling
<1> HIDE DEF s
<1>6. s[Newest] = NextStep(s[Newest - 1])
  BY <1>1, <1>3
<1>7. Within(s[Newest], s[MaxBumps])
  BY <1>1, <1>4
<1> QED
  BY <1>2, <1>5, <1>6, <1>7 DEF s

\* On the ladder, the fees fit the reservation.
LEMMA FeesFit ==
  ASSUME TypeOK, OnTheLadder, NeverShort
  PROVE  LadderFitsReserve
<1> DEFINE s == StepsFrom(attempts[1])
<1>1. MaxBumps \in 1..5 /\ Newest \in 1..(MaxBumps + 1) /\ attempts[1] \in FeePairs
  BY AttemptFees
<1>2. \A i \in 1..Newest : attempts[i] = s[i - 1]
  BY DEF OnTheLadder
<1>3. ceiling = s[MaxBumps]
  BY DEF OnTheLadder, RequiredCeiling
<1>4. \A b \in 0..5 : s[b] \in FeePairs
  BY <1>1, StepsRise
<1>5. \A b, c \in 0..5 : b <= c => Within(s[b], s[c])
  BY <1>1, StepsRise
<1>6. \A b \in 1..5 : s[b] = NextStep(s[b - 1])
  BY StepsDefined
<1> HIDE DEF s
<1>7. \A i \in 1..Newest : Within(attempts[i], ceiling)
  BY <1>1, <1>2, <1>3, <1>5
<1>8. ASSUME NEW i \in 2..Newest
      PROVE  /\ 10 * attempts[i].fee >= 11 * attempts[i - 1].fee
             /\ 10 * attempts[i].tip >= 11 * attempts[i - 1].tip
             /\ attempts[i].tip > attempts[i - 1].tip /\ attempts[i].tip <= attempts[i].fee
  <2>1. i - 1 \in 1..5 /\ i \in 1..Newest /\ i - 1 \in 1..Newest /\ (i - 1) - 1 \in 0..5
    BY <1>1
  <2>2. attempts[i] = NextStep(attempts[i - 1]) /\ attempts[i - 1] \in FeePairs
    BY <2>1, <1>2, <1>4, <1>6
  <2> QED
    BY <2>2, NextStepFacts
<1> QED
  BY <1>7, <1>8 DEF LadderFitsReserve, NeverShort

----------------------------------------------------------------------------
(* The steps *)

\* The stages of a block, written out.
LEMMA StageSet ==
  {Stages[i] : i \in 1..4} = {"none", "soft", "posted", "final"}
<1>1. Stages[1] = "none" /\ Stages[2] = "soft" /\ Stages[3] = "posted" /\ Stages[4] = "final"
  BY DEF Stages
<1>2. \A i \in 1..4 : i = 1 \/ i = 2 \/ i = 3 \/ i = 4
  OBVIOUS
<1> QED
  BY <1>1, <1>2

\* A run starts on its ladder.
LEMMA LadderStarts == Init => LadderInv
<1> SUFFICES ASSUME Init PROVE LadderInv
  OBVIOUS
<1>1. PICK f \in FirstFees : attempts = <<f>> /\ ceiling = RequiredCeiling(f)
  BY DEF Init
<1>2. f \in [fee : Nat \ {0}, tip : Nat] /\ f.tip <= f.fee /\ MaxBumps \in 1..5 /\ Faults \in Nat
  BY ConstantsAssumption
<1>3. Newest = 1 /\ attempts[1] = f
  BY <1>1 DEF Newest
<1>4. DOMAIN watch \subseteq 1..1 /\ (pc = "watch" => DOMAIN watch = 1..1)
  <2>1. CASE HasLadder(chain)
    <3>1. watch = <<>> /\ pc = "look"
      BY <2>1 DEF Init
    <3>2. DOMAIN watch = {}
      BY <3>1
    <3> QED
      BY <3>1, <3>2
  <2>2. CASE ~HasLadder(chain)
    <3>1. watch = Watchers({1})
      BY <2>2 DEF Init
    <3>2. DOMAIN watch = {1}
      BY <3>1 DEF Watchers
    <3> QED
      BY <3>2
  <2> QED
    BY <2>1, <2>2
<1>5. TypeOK
  <2> DEFINE S == [fee : Nat \ {0}, tip : Nat]
  <2>1. f \in S
    BY <1>2
  <2> HIDE DEF S
  <2>2. attempts \in Seq(S)
    BY <1>1, <2>1
  <2>3. attempts \in Seq([fee : Nat \ {0}, tip : Nat])
    BY <2>2 DEF S
  <2>4. stored \subseteq 1..1 /\ pool \subseteq 1..1 /\ mined = None /\ stage = "none"
    <3>1. {1} \subseteq 1..1
      OBVIOUS
    <3> QED
      BY <3>1 DEF Init
  <2>5. hint \in 0..1 /\ settled \in 0..1 /\ faults \in 0..Faults /\ 1 \in 1..(MaxBumps + 1)
    <3>1. hint = 0 /\ settled = 0 /\ faults = 0
      BY DEF Init, None
    <3> QED
      BY <3>1, <1>2
  <2>6. /\ chain \in Chains /\ gate \in {"free", "ladder", "other"} /\ killed \in BOOLEAN
        /\ enabled \in BOOLEAN /\ verdict \in {"", "matched", "replaced", "ambiguous", "reorged"}
    BY DEF Init
  <2> QED
    BY <2>3, <2>4, <2>5, <2>6, <1>3, <1>4, StageSet DEF TypeOK
<1>6. OnTheLadder
  <2>1. StepsFrom(f)[0] = f
    BY StepsDefined
  <2> QED
    BY <2>1, <1>1, <1>2, <1>3 DEF OnTheLadder
<1>7. WatchedAll
  BY <1>3, <1>4 DEF WatchedAll
<1>8. RoomAhead
  BY <1>2, <1>3 DEF Init, RoomAhead
<1>9. MinedWasSent /\ NeverShort /\ SettledIsFinal
  BY DEF Init, MinedWasSent, NeverShort, SettledIsFinal, None, Foreign
<1>10. StoredAll
  <2>1. {1} = 1..1
    OBVIOUS
  <2> QED
    BY <2>1, <1>3 DEF Init, StoredAll
<1> QED
  BY <1>5, <1>6, <1>7, <1>8, <1>9, <1>10 DEF LadderInv

\* A ladder that ends has its watchers and its reason.
LEMMA EndingWatches ==
  ASSUME LadderInv, NEW r, NEW h \in 0..Newest, EndLadder(r, h), Newest' = Newest,
         r # "REPLACEMENT_CEILING_REACHED"
  PROVE  /\ hint' \in 0..Newest /\ DOMAIN watch' \subseteq 1..Newest /\ pc' = "watch"
         /\ WatchedAll' /\ NeverShort'
<1>1. Newest \in Nat
  BY AttemptFees DEF LadderInv
<1>2. DOMAIN watch' = Watched(h) /\ hint' = h /\ pc' = "watch" /\ stop' = r
  BY DEF EndLadder, Watchers
<1>3. Watched(h) = IF h # 0 THEN {h} ELSE 1..Newest
  BY DEF Watched, None
<1> QED
  BY <1>1, <1>2, <1>3 DEF WatchedAll, NeverShort, None

\* A planned replacement has room and money.
LEMMA PlanHasRoom ==
  ASSUME LadderInv, NEW free \in BOOLEAN
  PROVE  /\ PlanRefusal(free) # "REPLACEMENT_CEILING_REACHED"
         /\ PlanRefusal(free) = "" => Newest <= MaxBumps
<1>1. MaxBumps \in 1..5 /\ Newest \in 1..(MaxBumps + 1)
  BY AttemptFees DEF LadderInv
<1>2. Newest <= MaxBumps => Within(NextStep(attempts[Newest]), ceiling)
  BY NextFits DEF LadderInv
<1> QED
  BY <1>1, <1>2 DEF PlanRefusal

\* A step that leaves the attempts alone leaves the ladder alone.
LEMMA SameLadder ==
  ASSUME LadderInv, UNCHANGED ladder
  PROVE  OnTheLadder' /\ StoredAll' /\ Newest' = Newest
BY DEF LadderInv, OnTheLadder, StoredAll, ladder, Newest

Ends == \E r, h : r # "REPLACEMENT_CEILING_REACHED" /\ h \in 0..Newest /\ EndLadder(r, h)
GoesOn == UNCHANGED <<stop, hint, watch>> /\ pc' # "watch" /\ RoomAhead'

\* A step of the ladder ends it, with a reason other than money, or goes on with room ahead.
LEMMA EndsOrGoesOn ==
  ASSUME LadderInv, Newest' = Newest,
         Look \/ ReadNonce \/ PreCheck \/ EnterGate \/ AskSigner \/ Send \/ Sent
  PROVE  Ends \/ GoesOn
<1>1. None \in 0..Newest /\ (mined \in 1..Newest => mined \in 0..Newest)
  BY AttemptFees DEF LadderInv, None
<1>2. RoomAhead
  BY DEF LadderInv
<1>3. CASE Look
  BY <1>1, <1>3 DEF Look, Ends, GoesOn, RoomAhead
<1>4. CASE ReadNonce
  <2>1. CASE EndLadder("NONCE_CONSUMED", None)
    BY <1>1, <2>1 DEF Ends
  <2>2. ASSUME NEW free \in BOOLEAN, PlanRefusal(free) # "", EndLadder(PlanRefusal(free), None)
        PROVE  Ends
    BY <1>1, <2>2, PlanHasRoom DEF Ends
  <2>3. ASSUME NEW free \in BOOLEAN, PlanRefusal(free) = "", pc' = "precheck",
               UNCHANGED <<stop, hint, watch>>
        PROVE  GoesOn
    BY <2>3, PlanHasRoom DEF GoesOn, RoomAhead
  <2> QED
    BY <1>4, <2>1, <2>2, <2>3 DEF ReadNonce
<1>5. CASE PreCheck
  BY <1>1, <1>2, <1>5 DEF PreCheck, Ends, GoesOn, RoomAhead
<1>6. CASE EnterGate
  BY <1>2, <1>6 DEF EnterGate, GoesOn, RoomAhead, ending
<1>7. CASE AskSigner
  BY <1>1, <1>2, <1>7 DEF AskSigner, Refused, Ends, GoesOn, RoomAhead
<1>8. CASE Send
  BY <1>8 DEF Send, GoesOn, RoomAhead, ending
<1>9. CASE Sent
  BY <1>1, <1>9 DEF Sent, Ends, GoesOn, RoomAhead
<1> QED
  BY <1>3, <1>4, <1>5, <1>6, <1>7, <1>8, <1>9

\* What such a step leaves alone.
LEMMA PipelineKeeps ==
  ASSUME TypeOK, Look \/ ReadNonce \/ PreCheck \/ EnterGate \/ AskSigner \/ Send \/ Sent
  PROVE  /\ UNCHANGED ladder /\ UNCHANGED <<mined, stage, verdict, settled, killed, enabled, faults>>
         /\ gate' \in {"free", "ladder", "other"}
         /\ pool' \in {pool, pool \cup {Newest}}
<1>1. CASE Look
  BY <1>1 DEF Look, TypeOK, network, control
<1>2. CASE ReadNonce
  BY <1>2 DEF ReadNonce, TypeOK, network, control
<1>3. CASE PreCheck
  BY <1>3 DEF PreCheck, TypeOK, network, control
<1>4. CASE EnterGate
  BY <1>4 DEF EnterGate, TypeOK, network, control, ending
<1>5. CASE AskSigner
  BY <1>5 DEF AskSigner, Refused, TypeOK, network, control
<1>6. CASE Send
  BY <1>6 DEF Send, TypeOK, control, ending
<1>7. CASE Sent
  BY <1>7 DEF Sent, TypeOK, network, control
<1> QED
  BY <1>1, <1>2, <1>3, <1>4, <1>5, <1>6, <1>7

\* The steps of the ladder, the signature aside.
LEMMA PipelineStep ==
  ASSUME LadderInv, Look \/ ReadNonce \/ PreCheck \/ EnterGate \/ AskSigner \/ Send \/ Sent
  PROVE  LadderInv'
<1>1. /\ UNCHANGED ladder /\ UNCHANGED <<mined, stage, verdict, settled, killed, enabled, faults>>
      /\ gate' \in {"free", "ladder", "other"}
      /\ pool' \in {pool, pool \cup {Newest}}
  BY PipelineKeeps DEF LadderInv
<1>2. OnTheLadder' /\ StoredAll' /\ Newest' = Newest
  BY <1>1, SameLadder
<1>3. Newest \in 1..(MaxBumps + 1) /\ MaxBumps \in 1..5
  BY AttemptFees DEF LadderInv
<1>4. /\ hint' \in 0..Newest /\ DOMAIN watch' \subseteq 1..Newest
      /\ RoomAhead' /\ WatchedAll' /\ NeverShort'
  <2>1. CASE Ends
    <3>1. /\ hint' \in 0..Newest /\ DOMAIN watch' \subseteq 1..Newest /\ pc' = "watch"
          /\ WatchedAll' /\ NeverShort'
      BY <1>2, <2>1, EndingWatches DEF Ends
    <3> QED
      BY <3>1 DEF RoomAhead
  <2>2. CASE GoesOn
    BY <2>2 DEF GoesOn, LadderInv, TypeOK, WatchedAll, NeverShort
  <2> QED
    BY <1>2, <2>1, <2>2, EndsOrGoesOn
<1>5. MinedWasSent' /\ SettledIsFinal'
  BY <1>1 DEF LadderInv, MinedWasSent, SettledIsFinal
<1>6. pool' \subseteq 1..Newest
  <2>1. pool \subseteq 1..Newest
    BY DEF LadderInv, TypeOK
  <2>2. Newest \in 1..Newest
    BY <1>3
  <2> QED
    BY <1>1, <2>1, <2>2
<1>7. TypeOK'
  BY <1>1, <1>2, <1>4, <1>6 DEF LadderInv, TypeOK, ladder
<1> QED
  BY <1>2, <1>4, <1>5, <1>7 DEF LadderInv

\* The signature comes back: the attempt joins the set as it is stored.
LEMMA SignedStep ==
  ASSUME LadderInv, Signed
  PROVE  LadderInv'
<1> DEFINE n == Newest
           g == NextStep(attempts[Newest])
           S == [fee : Nat \ {0}, tip : Nat]
<1>1. n \in 1..(MaxBumps + 1) /\ MaxBumps \in 1..5 /\ n <= MaxBumps
  BY AttemptFees DEF LadderInv, RoomAhead, Signed
<1>2. UNCHANGED <<chain, ceiling, pool, mined, stage, verdict, settled, killed, enabled, faults>>
  BY DEF Signed, network, control
<1>3. CASE Refused /\ UNCHANGED <<attempts, stored>>
  <2>1. OnTheLadder' /\ StoredAll' /\ Newest' = Newest
    BY <1>2, <1>3, SameLadder DEF ladder
  <2>2. /\ hint' \in 0..Newest /\ DOMAIN watch' \subseteq 1..Newest /\ pc' = "watch"
        /\ WatchedAll' /\ NeverShort'
    BY <1>1, <1>3, <2>1, EndingWatches DEF Refused, None
  <2>3. gate' \in {"free", "ladder", "other"}
    BY <1>3 DEF Refused
  <2>4. TypeOK'
    BY <1>2, <1>3, <2>1, <2>2, <2>3 DEF LadderInv, TypeOK
  <2>5. RoomAhead' /\ MinedWasSent' /\ SettledIsFinal'
    BY <1>2, <2>2 DEF LadderInv, RoomAhead, MinedWasSent, SettledIsFinal
  <2> QED
    BY <2>1, <2>2, <2>4, <2>5 DEF LadderInv
<1>4. CASE /\ attempts' = Append(attempts, g) /\ StoreSigned
           /\ pc' = "send" /\ UNCHANGED <<stop, hint, watch, gate>>
  <2>1. g = StepsFrom(attempts[1])[n] /\ attempts[n] \in FeePairs
    BY <1>1, NextFits, AttemptFees DEF LadderInv
  <2>2. attempts \in Seq(S) /\ n = Len(attempts)
    BY DEF LadderInv, TypeOK, Newest
  <2>3. g \in S
    <3>1. g \in FeePairs /\ 10 * g.fee >= 11 * attempts[n].fee
      BY <2>1, NextStepFacts
    <3>2. attempts[n] \in S
      <4> HIDE DEF S
      <4> QED
        BY <1>1, <2>2
    <3> QED
      BY <3>1, <3>2 DEF FeePairs
  <2> HIDE DEF S, g
  <2>4. attempts' \in Seq(S) /\ Len(attempts') = n + 1
    BY <1>4, <2>2, <2>3
  <2>5. attempts'[n + 1] = g /\ \A i \in 1..n : attempts'[i] = attempts[i]
    BY <1>4, <2>2, <2>3
  <2>6. Newest' = n + 1
    BY <2>4 DEF Newest
  <2>7. attempts'[1] = attempts[1]
    BY <1>1, <2>5
  <2>8. OnTheLadder'
    <3>1. \A i \in 1..(n + 1) : attempts'[i] = StepsFrom(attempts[1])[i - 1]
      <4>1. \A i \in 1..n : attempts'[i] = StepsFrom(attempts[1])[i - 1]
        BY <2>5 DEF LadderInv, OnTheLadder
      <4>2. attempts'[n + 1] = StepsFrom(attempts[1])[(n + 1) - 1]
        BY <1>1, <2>1, <2>5
      <4>3. \A i \in 1..(n + 1) : i \in 1..n \/ i = n + 1
        BY <1>1
      <4> QED
        BY <4>1, <4>2, <4>3
    <3> QED
      BY <1>2, <2>6, <2>7, <3>1 DEF LadderInv, OnTheLadder, RequiredCeiling
  <2>9. StoredAll'
    <3>1. stored' = 1..n \cup {n + 1}
      BY <1>4 DEF StoreSigned, LadderInv, StoredAll
    <3>2. 1..n \cup {n + 1} = 1..(n + 1)
      BY <1>1
    <3> QED
      BY <2>6, <3>1, <3>2 DEF StoredAll
  <2>10. \A i : i \in 1..n => i \in 1..(n + 1)
    BY <1>1
  <2>11. \A i : i \in 0..n => i \in 0..(n + 1)
    BY <1>1
  <2>12. TypeOK'
    <3>1. attempts' \in Seq([fee : Nat \ {0}, tip : Nat]) /\ Newest' \in 1..(MaxBumps + 1)
      BY <1>1, <2>4, <2>6 DEF S
    <3>2. /\ stored' \subseteq 1..Newest' /\ pool' \subseteq 1..Newest'
          /\ mined' \in 1..Newest' \cup {None, Foreign}
          /\ hint' \in 0..Newest' /\ settled' \in 0..Newest' /\ DOMAIN watch' \subseteq 1..Newest'
      <4>1. /\ pool \subseteq 1..n /\ mined \in 1..n \cup {None, Foreign} /\ hint \in 0..n
            /\ settled \in 0..n /\ DOMAIN watch \subseteq 1..n
        BY DEF LadderInv, TypeOK
      <4>2. stored' = 1..Newest'
        BY <2>9 DEF StoredAll
      <4> HIDE DEF n
      <4> QED
        BY <1>2, <1>4, <2>6, <2>10, <2>11, <4>1, <4>2
    <3> QED
      BY <1>2, <1>4, <3>1, <3>2 DEF LadderInv, TypeOK
  <2>13. RoomAhead' /\ MinedWasSent' /\ SettledIsFinal' /\ NeverShort' /\ WatchedAll'
    BY <1>2, <1>4
    DEF LadderInv, RoomAhead, MinedWasSent, SettledIsFinal, NeverShort, WatchedAll
  <2> QED
    BY <2>8, <2>9, <2>12, <2>13 DEF LadderInv
<1> QED
  BY <1>3, <1>4 DEF Signed

\* The watchers and the verdict of a wallet without a receipt.
LEMMA WatchStep ==
  ASSUME LadderInv,
         Recover \/ \E h \in DOMAIN watch :
                      WatchSees(h) \/ WatchReorged(h) \/ WatchFails(h) \/ WatchDone(h)
  PROVE  LadderInv'
<1>1. UNCHANGED ladder /\ UNCHANGED <<pool, mined, stage, stop, hint, gate, killed, enabled, faults>>
  BY DEF Recover, WatchSees, WatchReorged, WatchFails, WatchDone, network, control
<1>2. OnTheLadder' /\ StoredAll' /\ Newest' = Newest
  BY <1>1, SameLadder
<1>3. DOMAIN watch' = DOMAIN watch /\ (pc' = "watch" => pc = "watch") /\ pc' \in {"watch", "done"}
  BY DEF Recover, WatchSees, WatchReorged, WatchFails, WatchDone
<1>4. /\ verdict' \in {"", "matched", "replaced", "ambiguous", "reorged"}
      /\ settled' \in 0..Newest
      /\ settled' # None => mined = settled' /\ stage = "final"
  <2>1. Newest \in Nat /\ TypeOK /\ SettledIsFinal
    BY AttemptFees DEF LadderInv
  <2>2. CASE Recover
    BY <2>1, <2>2 DEF Recover, Unresolved, TypeOK, SettledIsFinal
  <2>3. ASSUME NEW h \in DOMAIN watch, WatchSees(h) \/ WatchReorged(h) \/ WatchFails(h)
        PROVE  UNCHANGED <<verdict, settled>>
    BY <2>3 DEF WatchSees, WatchReorged, WatchFails
  <2>4. ASSUME NEW h \in DOMAIN watch, WatchDone(h)
        PROVE  /\ verdict' = "matched" /\ settled' \in 0..Newest
               /\ mined = settled' /\ stage = "final"
    <3>1. h \in 1..Newest
      BY <2>1 DEF TypeOK
    <3>2. h \in 0..Newest
      BY <2>1, <3>1
    <3> QED
      BY <2>4, <3>2 DEF WatchDone, Ready
  <2> QED
    BY <2>1, <2>2, <2>3, <2>4 DEF TypeOK, SettledIsFinal
<1>5. TypeOK'
  BY <1>1, <1>2, <1>3, <1>4 DEF LadderInv, TypeOK, ladder
<1>6. RoomAhead' /\ MinedWasSent' /\ SettledIsFinal' /\ NeverShort' /\ WatchedAll'
  BY <1>1, <1>2, <1>3, <1>4
  DEF LadderInv, RoomAhead, MinedWasSent, SettledIsFinal, NeverShort, WatchedAll
<1> QED
  BY <1>2, <1>5, <1>6 DEF LadderInv

\* The network, the other wallets and the owner.
LEMMA WorldStep ==
  ASSUME LadderInv, World
  PROVE  LadderInv'
<1>1. /\ UNCHANGED ladder /\ UNCHANGED <<pool, stop, hint, watch, verdict, settled>>
      /\ pc' \in {pc, "dead"}
  BY DEF World, Mine, Deepen, Reorg, UseNonceElsewhere, OtherEnters, OtherLeaves, Kill, Revoke, Crash,
         network, control, ending
<1>2. OnTheLadder' /\ StoredAll' /\ Newest' = Newest
  BY <1>1, SameLadder
<1>3. /\ gate' \in {"free", "ladder", "other"} /\ killed' \in BOOLEAN /\ enabled' \in BOOLEAN
      /\ faults' \in 0..Faults
  <2>1. Faults \in Nat
    BY ConstantsAssumption
  <2>2. /\ gate \in {"free", "ladder", "other"} /\ killed \in BOOLEAN /\ enabled \in BOOLEAN
        /\ faults \in 0..Faults
    BY DEF LadderInv, TypeOK
  <2>3. CASE UNCHANGED <<gate, killed, enabled, faults>>
    BY <2>2, <2>3
  <2>4. CASE faults < Faults /\ faults' = faults + 1 /\ UNCHANGED <<killed, enabled>>
             /\ gate' \in {gate, "free"}
    BY <2>1, <2>2, <2>4
  <2> QED
    BY <2>2, <2>3, <2>4
    DEF World, Mine, Deepen, Reorg, UseNonceElsewhere, OtherEnters, OtherLeaves, Kill, Revoke, Crash,
        control
<1>4. /\ mined' \in pool \cup {None, Foreign}
      /\ stage' \in {"none", "soft", "posted", "final"} /\ (stage' = "none" <=> mined' = None)
      /\ stage = "final" => mined' = mined /\ stage' = "final"
  <2>1. /\ mined \in pool \cup {None, Foreign} /\ stage \in {"none", "soft", "posted", "final"}
        /\ (stage = "none" <=> mined = None) /\ None \notin pool
    <3>1. pool \subseteq 1..Newest /\ stage \in {Stages[i] : i \in 1..4}
      BY DEF LadderInv, TypeOK
    <3>2. 0 \notin pool
      BY <3>1
    <3> QED
      BY <3>1, <3>2, StageSet DEF LadderInv, TypeOK, MinedWasSent, None
  <2>2. CASE UNCHANGED <<mined, stage>>
    BY <2>1, <2>2
  <2>3. CASE Mine
    BY <2>1, <2>3 DEF Mine
  <2>4. CASE Deepen
    BY <2>1, <2>4 DEF Deepen
  <2>5. CASE Reorg
    BY <2>1, <2>5 DEF Reorg
  <2>6. CASE UseNonceElsewhere
    BY <2>1, <2>6 DEF UseNonceElsewhere, None, Foreign
  <2> QED
    BY <2>2, <2>3, <2>4, <2>5, <2>6
    DEF World, OtherEnters, OtherLeaves, Kill, Revoke, Crash, network
<1>5. TypeOK'
  <2>1. pool \subseteq 1..Newest
    BY DEF LadderInv, TypeOK
  <2>2. mined' \in 1..Newest \cup {None, Foreign}
    BY <1>4, <2>1
  <2> QED
    BY <1>1, <1>2, <1>3, <1>4, <2>2, StageSet DEF LadderInv, TypeOK, ladder
<1>6. RoomAhead' /\ MinedWasSent' /\ SettledIsFinal' /\ NeverShort' /\ WatchedAll'
  BY <1>1, <1>2, <1>4
  DEF LadderInv, RoomAhead, MinedWasSent, SettledIsFinal, NeverShort, WatchedAll
<1> QED
  BY <1>2, <1>5, <1>6 DEF LadderInv

----------------------------------------------------------------------------
(* The theorem *)

\* What holds of every ladder (replacement-ladder.ts, mint-engine.ts): every attempt the chain may
\* mine is stored before it is sent, pays ten per cent more than the one before and no more than the
\* reservation, is watched until a winner is known, and money is settled for a final inclusion only.
THEOREM LadderSafe == Spec => []Safety
<1>1. LadderInv => Safety
  <2> SUFFICES ASSUME LadderInv PROVE Safety
    OBVIOUS
  <2>1. LadderFitsReserve
    BY FeesFit DEF LadderInv
  <2>2. KnownBeforeSent
    BY DEF LadderInv, TypeOK, StoredAll, KnownBeforeSent
  <2>3. AllCandidatesWatched
    BY DEF LadderInv, TypeOK, WatchedAll, AllCandidatesWatched
  <2> QED
    BY <2>1, <2>2, <2>3 DEF LadderInv, Safety
<1>2. LadderInv /\ [Next]_vars => LadderInv'
  <2> SUFFICES ASSUME LadderInv, [Next]_vars PROVE LadderInv'
    OBVIOUS
  <2>1. CASE Next
    <3>1. CASE Look \/ ReadNonce \/ PreCheck \/ EnterGate \/ AskSigner \/ Send \/ Sent
      BY <3>1, PipelineStep
    <3>2. CASE Signed
      BY <3>2, SignedStep
    <3>3. CASE \/ Recover
               \/ \E h \in DOMAIN watch :
                     WatchSees(h) \/ WatchReorged(h) \/ WatchFails(h) \/ WatchDone(h)
      BY <3>3, WatchStep
    <3>4. CASE World
      BY <3>4, WorldStep
    <3> QED
      BY <2>1, <3>1, <3>2, <3>3, <3>4 DEF Next, Pipeline
  <2>2. CASE UNCHANGED vars
    <3>1. OnTheLadder' /\ StoredAll' /\ Newest' = Newest
      BY <2>2, SameLadder DEF vars, ladder
    <3>2. TypeOK'
      BY <2>2, <3>1 DEF LadderInv, TypeOK, vars
    <3>3. RoomAhead' /\ MinedWasSent' /\ SettledIsFinal' /\ NeverShort' /\ WatchedAll'
      BY <2>2, <3>1
      DEF LadderInv, RoomAhead, MinedWasSent, SettledIsFinal, NeverShort, WatchedAll, vars
    <3> QED
      BY <3>1, <3>2, <3>3 DEF LadderInv
  <2> QED
    BY <2>1, <2>2
<1> QED
  BY <1>1, <1>2, LadderStarts, PTL DEF Spec
=============================================================================
