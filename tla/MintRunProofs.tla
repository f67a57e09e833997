--------------------------- MODULE MintRunProofs ---------------------------
(***************************************************************************)
(* Proofs about MintRun for every fleet, every set of configurations and   *)
(* policy records, every drop and every choice of caps, fees and times.    *)
(***************************************************************************)
EXTENDS MintRun, NumberLemmas, TLAPS

-----------------------------------------------------------------------------
(* The inductive invariant, part by part                                   *)

\* Phases without a fleet under way or behind; phases with a signer in hand.
Prior == {"policy", "drop", "load", "simulate", "admit", "broadcaster", "failed"}
Armed == {"simulate", "admit", "broadcaster", "fleet"}
\* Wallets behind the gate, with a reservation, and past the request for a signature.
Gated == {"reserved", "authority", "ready", "signing", "signed"}
Holding == Gated \union {"sent"}
Asked == {"authority", "ready", "signing", "signed", "sent"}

\* The records and sequences the state is made of.
Shapes ==
  /\ files \in [map : WalletMaps \union {NoMap}, active : Digests \union {NoRecord},
                catalog : SUBSET Digests, writes : Nat]
  /\ signer = [pc |-> signer.pc, map |-> signer.map, active |-> signer.active,
               record |-> signer.record, wallets |-> signer.wallets]
  /\ signer.active \in Digests \union {NoRecord}
  /\ run = [phase |-> run.phase, drop |-> run.drop, admitted |-> run.admitted, at |-> run.at]
  /\ signed = [w \in Fleet |-> signed[w]]
  /\ drops \in Seq(DropStates) /\ drops # <<>>

\* Only files lead to a record that is read step by step, and local keys have none.
Custody ==
  /\ signer.pc \in {"map", "active"} => setup.custody \in {"files", "catalog"}
  /\ setup.custody = "local" => signer.record = NoRecord
  /\ signer.pc = "ready" /\ setup.custody # "local" => signer.record \in Digests

\* The drop that was read has a price; from the choice of the fleet on the signer is
\* loaded and holds the wallets that were expected; nothing moves before the fleet does.
Prepared ==
  /\ run.phase \in Armed \union {"load", "done"} => run.drop.price \in Nat
  /\ run.phase \in Armed => signer.pc = "ready" /\ FleetSelected
  /\ run.phase \in {"done", "failed"} => signer = Zeroized
  /\ run.phase \in Prior => \A w \in Fleet : pc[w] \in {"out", "simulated", "idle", "skipped", "capped"} /\ asked[w] = -1
  /\ run.phase = "done" => \A w \in Fleet : pc[w] \in Over

\* Re-reads begin in the past, those begun after the mark report the change, and a
\* wallet waits for one that has begun.
Stopped ==
  /\ latched <= time
  /\ \A t \in Times : read[t] # "none" => t <= time
  /\ \A t \in Times : latched >= 0 /\ t > latched => read[t] \in {"none", "changed"}
  /\ \A w \in Fleet : asked[w] # -1 => asked[w] \in Times /\ read[asked[w]] # "none"
  /\ \A w \in Fleet : pc[w] = "idle" => asked[w] = -1

\* Behind the gate is the wallet the gate was given to.
OneInGate == \A w \in Fleet : pc[w] \in Gated => gate = w

\* A wallet has its whole price and ceiling reserved from the gate to the broadcast and
\* after it, nothing before and nothing once it failed.
Reservations ==
  /\ \A w \in Fleet : reserved[w] = IF pc[w] \in Holding THEN Price + Reserve(w) ELSE 0
  /\ \A w \in Fleet : pc[w] \in Holding \union {"gate"} /\ Free => Reserve(w) <= WalletCap

\* A wallet that has asked for a signature did so under a current record, and for
\* nothing; past the check of the chain the recipient is one the drop has had, and
\* past the last look simulation and grant were good when it was taken.
Auth(w) ==
  /\ pc[w] \in {"authority", "ready", "signing"} => signed[w] = [at |-> signed[w].at]
  /\ setup.custody # "local" =>
       /\ Price = 0
       /\ PolicyRecord[signer.record].issuedAt <= signed[w].at
       /\ signed[w].at < PolicyRecord[signer.record].expiresAt
  /\ Family /\ pc[w] # "authority" => \E i \in DOMAIN drops : RecipientAllowed(drops[i], Tx(w))
  /\ Family /\ pc[w] \in {"signing", "signed", "sent"} =>
       /\ signed[w].at - sim[w] <= Fresh
       /\ setup.chain # "ethereum" => signed[w].at < GrantUntil

Authorized == \A w \in Fleet : run.phase = "fleet" /\ pc[w] \in Asked => Auth(w)

\* What is signed is what was asked for.
Kept ==
  \A w \in Fleet : HasSigned(w) =>
    LET s == signed[w] IN
    /\ s.tx.price = Price /\ s.tx.gas = Gas[w] /\ s.tx.recipient = run.drop.recipient
    /\ s.key = s.tx.from
    /\ setup.select => s.key = setup.expected[w]

\* From admission on the wallets admitted are within the caps.
CapsOk(S) ==
  /\ \A w \in S : sim[w] >= 0
  /\ IF Free THEN Total([w \in Fleet |-> Preflight(w)], S) <= PeriodCap
             ELSE Price * Cardinality(S) <= RunValueCap

WithinCaps == run.phase \in {"broadcaster", "fleet"} => CapsOk(run.admitted)

\* From admission on a wallet that was not admitted stays where admission left it, and
\* one the caps turned away did not fit with those admitted before it.
Turned(w) ==
  /\ w \notin run.admitted => pc[w] \in {"skipped", "capped"}
  /\ pc[w] = "capped" => ~Fits(w, {v \in run.admitted : v < w})

TurnedAway == run.phase \in {"broadcaster", "fleet"} => \A w \in Fleet : Turned(w)

-----------------------------------------------------------------------------
(* Types                                                                   *)

Typed == TypeOK /\ Shapes

\* The owner's replacements and the loading of the signer keep the types.
LEMMA FilesType ==
  ASSUME Typed, ReplaceFile \/ InstallBundle
  PROVE  files' \in [map : WalletMaps \union {NoMap}, active : Digests \union {NoRecord},
                     catalog : SUBSET Digests, writes : Nat]
<1>0. files \in [map : WalletMaps \union {NoMap}, active : Digests \union {NoRecord},
                 catalog : SUBSET Digests, writes : Nat]
  BY DEF Typed, Shapes
<1> DEFINE n == files.writes + 1
<1>1. n \in Nat
  BY <1>0
<1> HIDE DEF n
<1>2. CASE ReplaceFile
  <2>1. ASSUME NEW m \in WalletMaps, files' = [files EXCEPT !.map = m, !.writes = n]
        PROVE  files' \in [map : WalletMaps \union {NoMap}, active : Digests \union {NoRecord},
                           catalog : SUBSET Digests, writes : Nat]
    BY <1>0, <1>1, <2>1
  <2>2. ASSUME NEW r \in Digests, files' = [files EXCEPT !.active = r, !.writes = n]
        PROVE  files' \in [map : WalletMaps \union {NoMap}, active : Digests \union {NoRecord},
                           catalog : SUBSET Digests, writes : Nat]
    BY <1>0, <1>1, <2>2
  <2>3. ASSUME NEW C \in SUBSET Digests, files' = [files EXCEPT !.catalog = C, !.writes = n]
        PROVE  files' \in [map : WalletMaps \union {NoMap}, active : Digests \union {NoRecord},
                           catalog : SUBSET Digests, writes : Nat]
    BY <1>0, <1>1, <2>3
  <2>4. \/ \E m \in WalletMaps : files' = [files EXCEPT !.map = m, !.writes = n]
        \/ \E r \in Digests : files' = [files EXCEPT !.active = r, !.writes = n]
        \/ \E C \in SUBSET Digests : files' = [files EXCEPT !.catalog = C, !.writes = n]
    BY <1>2 DEF ReplaceFile, n
  <2> QED
    BY <2>1, <2>2, <2>3, <2>4, Zenon
<1>3. CASE InstallBundle
  <2>1. PICK b \in Bundles : files' = [b EXCEPT !.writes = n]
    BY <1>3 DEF InstallBundle, n
  <2>2. b \in [map : WalletMaps, active : Digests, catalog : SUBSET Digests, writes : {0}]
    BY DEF Bundles
  <2> QED
    BY <1>1, <2>1, <2>2
<1> QED
  BY <1>2, <1>3

SignerType(s) ==
  /\ s = [pc |-> s.pc, map |-> s.map, active |-> s.active, record |-> s.record, wallets |-> s.wallets]
  /\ s.pc \in {"none", "map", "active", "ready", "refused", "zeroized"}
  /\ s.active \in Digests \union {NoRecord}
  /\ s.record \in Digests \union {NoRecord}

LEMMA ConstructType ==
  ASSUME NEW r \in Digests \union {NoRecord}, NEW m, NEW C, Construct(r, m, C), Typed
  PROVE  SignerType(signer') /\ (files' = files \/ files' = NoFiles)
BY DEF Construct, Loaded, Refuse, SignerType, NoSigner, NoRecord

LEMMA LoadType ==
  ASSUME Typed, LoadSigner
  PROVE  SignerType(signer') /\ (files' = files \/ files' = NoFiles)
<1> USE SetupAssumption DEF Typed, TypeOK, Shapes
<1>1. CASE ReadMap
  BY <1>1 DEF ReadMap, SignerType
<1>2. CASE ReadActive
  BY <1>2, ZenonT(60) DEF ReadActive, Refuse, SignerType, NoSigner
<1>3. ASSUME Refuse, UNCHANGED files
      PROVE  SignerType(signer') /\ (files' = files \/ files' = NoFiles)
  BY <1>3 DEF Refuse, SignerType, NoSigner
<1>4. CASE ReadCatalog
  <2>1. \A C : Selected(signer.active, C) \in Digests \union {NoRecord}
    BY DEF Selected
  <2>2. \/ \E r \in Digests \union {NoRecord} : \E C : Construct(r, signer.map, C)
        \/ Refuse /\ UNCHANGED files
    BY <1>4, <2>1 DEF ReadCatalog
  <2> QED
    BY <1>3, <2>2, ConstructType
<1>5. CASE ReadBundle
  <2>1. \A C : Selected(files.active, C) \in Digests \union {NoRecord}
    BY DEF Selected
  <2>2. \/ \E r \in Digests \union {NoRecord} : \E C : Construct(r, files.map, C)
        \/ Refuse /\ UNCHANGED files
    BY <1>5, <2>1 DEF ReadBundle
  <2> QED
    BY <1>3, <2>2, ConstructType
<1>6. CASE ReadLocalFile
  BY <1>6 DEF ReadLocalFile, SignerType, NoSigner
<1> QED
  BY <1>1, <1>2, <1>4, <1>5, <1>6 DEF LoadSigner

\* The newest re-read that has begun, if one has.
LEMMA NewestIs ==
  ASSUME Typed
  PROVE  /\ Newest \in Times \union {-1}
         /\ Newest # -1 => read[Newest] # "none"
         /\ \A t \in Times : t > Newest => read[t] = "none"
<1> DEFINE S == {t \in Times : read[t] # "none"}
           Is(t) == /\ t # -1 => read[t] # "none"
                    /\ \A u \in Times : u > t => read[u] = "none"
<1>0. MaxTime \in Nat
  BY PolicyAssumption
<1>1. \E t \in Times \union {-1} : Is(t)
  <2>1. CASE S = {}
    <3>1. Is(-1)
      BY <2>1
    <3> QED
      BY <3>1
  <2>2. CASE S # {}
    <3>1. S \in SUBSET (0 .. MaxTime)
      BY DEF Times
    <3> HIDE DEF S
    <3>2. PICK t \in S : \A u \in S : u <= t
      BY <1>0, <2>2, <3>1, LargestOf
    <3>3. t \in Times /\ read[t] # "none"
      BY DEF S
    <3>4. \A u \in Times : u > t => read[u] = "none"
      BY <3>1, <3>2 DEF S, Times
    <3> QED
      BY <3>3, <3>4
  <2> QED
    BY <2>1, <2>2
<1>2. Newest = CHOOSE t \in Times \union {-1} : Is(t)
  BY DEF Newest
<1> HIDE DEF Is
<1>3. Newest \in Times \union {-1} /\ Is(Newest)
  BY <1>1, <1>2, Zenon
<1> QED
  BY <1>3 DEF Is

\* A wallet under way is one of a fleet under way.
LEMMA InFleet ==
  ASSUME Typed, Prepared, NEW w \in Fleet, pc[w] \notin Over \union {"simulated", "idle"}
  PROVE  run.phase = "fleet"
BY DEF Typed, TypeOK, Prepared, Prior, Over

\* Prices and fees are amounts.
LEMMA AmountsType ==
  ASSUME Typed, run.drop.price \in Nat
  PROVE  /\ Price \in Nat
         /\ \A w \in Fleet : Gas[w] \in Nat /\ WorstGas(w) \in Nat /\ Preflight(w) \in Nat
         /\ \A w \in Fleet : Reserve(w) \in Nat /\ WorstGas(w) <= Reserve(w)
         /\ ReserveFee \in Nat
<1>1. Price \in Nat
  BY MintAssumption DEF Price
<1>2. setup.chain \in {"ethereum", "base", "robinhood"}
  BY SetupAssumption DEF Typed, TypeOK
<1>3. \A w \in Fleet : Gas[w] \in Nat
  BY MintAssumption DEF Fleet
<1>4. \A f, g \in Nat : g * f \in Nat /\ ((g + 15) \div 16) * f \in Nat
  <2>1. \A g \in Nat : (g + 15) \div 16 \in Nat
    OBVIOUS
  <2> QED
    BY <2>1
<1>5. FirstFee \in Nat /\ Ceiling \in Nat
  BY MintAssumption
<1> HIDE DEF Price
<1>6. \A w \in Fleet, f \in Nat : Extra(w, f) \in Nat
  BY <1>2, <1>3, <1>4 DEF Extra
<1>7. \A w \in Fleet : WorstGas(w) \in Nat /\ Preflight(w) \in Nat
  BY <1>3, <1>4, <1>5, <1>6 DEF WorstGas, Preflight, ReserveFee
<1>8. \A w \in Fleet : Reserve(w) \in Nat /\ WorstGas(w) <= Reserve(w)
  <2> TAKE w \in Fleet
  <2>1. PICK e \in Nat : Reserve(w) = WorstGas(w) + e
    BY <1>5, <1>6 DEF Reserve, ReserveFee
  <2> QED
    BY <1>7, <2>1
<1> QED
  BY <1>1, <1>3, <1>5, <1>7, <1>8 DEF ReserveFee

\* The variables of a run that its wallets do not touch keep their types.
RunType ==
  /\ run = [phase |-> run.phase, drop |-> run.drop, admitted |-> run.admitted, at |-> run.at]
  /\ run.phase \in {"policy", "drop", "load", "simulate", "admit", "broadcaster", "fleet", "done", "failed"}
  /\ run.admitted \subseteq Fleet /\ run.at \in Times \union {-1}

LEMMA EndedType ==
  ASSUME Typed, NEW p \in {"done", "failed"}, Ended(p)
  PROVE  RunType' /\ SignerType(signer') /\ run'.phase = p
BY DEF Typed, TypeOK, Shapes, Ended, RunType, SignerType, Zeroized, NoSigner

LEMMA PhaseType ==
  ASSUME Typed, NEW p \in {"drop", "simulate", "admit"}, run' = [run EXCEPT !.phase = p]
  PROVE  RunType'
BY DEF Typed, TypeOK, Shapes, RunType

\* Where admission leaves the wallets.
PlacesOf(S, funded) ==
  [w \in Fleet |-> IF w \in S THEN "idle" ELSE IF Capped(w, S, funded) THEN "capped" ELSE "skipped"]

\* Every step of the preparation keeps the types.
LEMMA PrepareType ==
  ASSUME Typed, Preparation
  PROVE  Typed'
<1> USE DEF UnchangedSetup, policyVars, recheckVars, walletVars
<1>0. SignerType(signer)
  BY DEF Typed, TypeOK, Shapes, SignerType
<1>1. ASSUME RunType', SignerType(signer'), files' = files \/ files' = NoFiles,
             sim' \in [Fleet -> Times \union {-1}],
             pc' \in [Fleet -> Over \union {"simulated", "idle", "recheck", "gate", "reserved", "authority",
                                             "ready", "signing", "signed"}],
             UNCHANGED <<time, setup, killed, drops, recheckVars, gate, reserved, signed>>
      PROVE  Typed'
  <2>1. /\ files'.active \in Digests \union {NoRecord} /\ files'.catalog \subseteq Digests
        /\ files' \in [map : WalletMaps \union {NoMap}, active : Digests \union {NoRecord},
                       catalog : SUBSET Digests, writes : Nat]
    BY <1>1 DEF Typed, TypeOK, Shapes, NoFiles
  <2>2. TypeOK'
    BY <1>1, <2>1 DEF Typed, TypeOK, RunType, SignerType
  <2>3. Shapes'
    BY <1>1, <2>1 DEF Typed, Shapes, RunType, SignerType
  <2> QED
    BY <2>2, <2>3 DEF Typed
<1> DEFINE Same == /\ UNCHANGED <<time, setup, killed, drops, recheckVars, gate, reserved, signed>>
                   /\ UNCHANGED <<sim, pc>>
<1>2. ASSUME Throw, Same PROVE Typed'
  BY <1>1, <1>2, EndedType DEF Throw, Typed, TypeOK
<1>3. ASSUME NEW p \in {"drop", "simulate", "admit"}, run' = [run EXCEPT !.phase = p], Same, UNCHANGED policyVars
      PROVE  Typed'
  BY <1>0, <1>1, <1>3, PhaseType DEF Typed, TypeOK
<1>4. CASE StopPrepared
  BY <1>2, <1>4 DEF StopPrepared
<1>5. CASE CheckPolicy
  BY <1>2, <1>3, <1>5 DEF CheckPolicy, Advance
<1>6. CASE ReadDrop
  <2>1. ASSUME NEW r, run' = [run EXCEPT !.phase = "load", !.drop = r]
        PROVE  RunType'
    BY <2>1 DEF Typed, TypeOK, Shapes, RunType
  <2> QED
    BY <1>0, <1>1, <1>2, <1>6, <2>1 DEF ReadDrop, Typed, TypeOK
<1>7. CASE LoadWallets
  <2>1. UNCHANGED <<time, setup>>
    BY <1>7 DEF LoadWallets, LoadSigner, ReadMap, ReadActive, ReadCatalog, ReadBundle, ReadLocalFile
  <2>2. SignerType(signer') /\ (files' = files \/ files' = NoFiles)
    BY <1>7, LoadType DEF LoadWallets
  <2>3. RunType'
    BY <1>7 DEF LoadWallets, Typed, TypeOK, Shapes, RunType
  <2> QED
    BY <1>1, <1>7, <2>1, <2>2, <2>3 DEF LoadWallets, Typed, TypeOK
<1>8. CASE SelectFleet
  BY <1>2, <1>3, <1>8 DEF SelectFleet, Advance
<1>9. CASE Simulate
  <2>1. PICK w \in Fleet, ok \in BOOLEAN :
           /\ pc' = [pc EXCEPT ![w] = "simulated"]
           /\ sim' = [sim EXCEPT ![w] = IF ok THEN time ELSE -1]
           /\ run' = [run EXCEPT !.phase = IF w = Cardinality(Fleet) THEN "admit" ELSE "simulate"]
    BY <1>9 DEF Simulate
  <2>2. RunType'
    <3>1. PICK p \in {"simulate", "admit"} : run' = [run EXCEPT !.phase = p]
      BY <2>1
    <3> QED
      BY <3>1, PhaseType
  <2>3. sim' \in [Fleet -> Times \union {-1}]
    BY <2>1 DEF Typed, TypeOK
  <2>4. pc' \in [Fleet -> Over \union {"simulated", "idle", "recheck", "gate", "reserved", "authority",
                                             "ready", "signing", "signed"}]
    BY <2>1 DEF Typed, TypeOK
  <2> QED
    BY <1>0, <1>1, <1>9, <2>2, <2>3, <2>4 DEF Simulate
<1>10. CASE Admit
  <2>1. PICK S, F \in SUBSET Fleet :
           \/ Throw /\ UNCHANGED pc
           \/ /\ run' = [run EXCEPT !.phase = "broadcaster", !.admitted = S]
              /\ pc' = PlacesOf(S, F)
              /\ UNCHANGED policyVars
    BY <1>10 DEF Admit, PlacesOf
  <2>2. CASE Throw /\ UNCHANGED pc
    BY <1>2, <1>10, <2>2 DEF Admit
  <2>3. CASE run' = [run EXCEPT !.phase = "broadcaster", !.admitted = S] /\ UNCHANGED policyVars
             /\ pc' = PlacesOf(S, F)
    <3>1. RunType'
      BY <2>3 DEF Typed, TypeOK, Shapes, RunType
    <3>2. pc' \in [Fleet -> Over \union {"simulated", "idle", "recheck", "gate", "reserved", "authority",
                                             "ready", "signing", "signed"}]
      BY <2>3 DEF Over, PlacesOf
    <3> QED
      BY <1>0, <1>1, <1>10, <2>3, <3>1, <3>2 DEF Admit, Typed, TypeOK
  <2> QED
    BY <2>1, <2>2, <2>3
<1>11. CASE CreateBroadcaster
  <2>1. ASSUME run' = [run EXCEPT !.phase = "fleet", !.at = time] PROVE RunType'
    BY <2>1 DEF Typed, TypeOK, Shapes, RunType
  <2> QED
    BY <1>0, <1>1, <1>2, <1>11, <2>1 DEF CreateBroadcaster, Typed, TypeOK
<1>12. CASE Complete
  BY <1>1, <1>12, EndedType DEF Complete, Typed, TypeOK
<1> QED
  BY <1>4, <1>5, <1>6, <1>7, <1>8, <1>9, <1>10, <1>11, <1>12 DEF Preparation

\* What the steps of a wallet change keeps its type, a failure included.
Places == Over \union {"simulated", "idle", "recheck", "gate", "reserved", "authority",
                       "ready", "signing", "signed"}
WalletType ==
  /\ pc \in [Fleet -> Places] /\ gate \in Fleet \union {0} /\ reserved \in [Fleet -> Nat]
  /\ signed = [w \in Fleet |-> signed[w]]
RecheckType ==
  /\ read \in [Times -> {"none", "pending", "same", "changed", "unknown"}]
  /\ asked \in [Fleet -> Times \union {-1}] /\ latched \in Times \union {-1}

LEMMA FailsType ==
  ASSUME WalletType, NEW w \in Fleet, Fails(w), UNCHANGED signed
  PROVE  WalletType'
BY DEF WalletType, Fails, Goes, Places, Over

LEMMA GoesType ==
  ASSUME WalletType, NEW w \in Fleet, NEW p \in Places, Goes(w, p), UNCHANGED <<gate, reserved, signed>>
  PROVE  WalletType'
BY DEF WalletType, Goes

\* And so does asking for a signature, which writes when.
LEMMA SignedType ==
  ASSUME WalletType, NEW w \in Fleet, NEW p \in Places, NEW s, Goes(w, p),
         signed' = [signed EXCEPT ![w] = s], UNCHANGED <<gate, reserved>>
  PROVE  WalletType'
BY DEF WalletType, Goes

LEMMA WalletStepType ==
  ASSUME Typed, Prepared, NEW w \in Fleet, Wallet(w)
  PROVE  Typed'
<1> USE DEF UnchangedRun, recheckVars, policyVars
<1>0. WalletType /\ RecheckType
  BY DEF Typed, TypeOK, Shapes, WalletType, RecheckType, Places
<1>1. ASSUME WalletType', RecheckType', UnchangedRun
      PROVE  Typed'
  BY <1>1 DEF Typed, TypeOK, Shapes, WalletType, RecheckType, Places
<1>2. UNCHANGED recheckVars => RecheckType'
  BY <1>0 DEF RecheckType
<1>3. /\ {"killed", "failed", "recheck", "skipped", "gate", "reserved"} \subseteq Places
      /\ {"authority", "signing", "signed", "ready", "sent"} \subseteq Places
  BY DEF Places, Over
<1>4. CASE StartLane(w)
  <2>1. WalletType'
    BY <1>0, <1>3, <1>4, GoesType DEF StartLane
  <2>2. RecheckType'
    <3>1. time \in Times
      BY DEF Typed, TypeOK
    <3>2. CASE UNCHANGED <<read, asked>>
      BY <1>0, <1>4, <3>2 DEF StartLane, RecheckType
    <3>3. CASE /\ asked' = [asked EXCEPT ![w] = IF Shares THEN Newest ELSE time]
               /\ read' = IF Shares THEN read ELSE [read EXCEPT ![time] = Begun]
      <4>1. Newest \in Times \union {-1}
        BY NewestIs
      <4>2. asked' \in [Fleet -> Times \union {-1}]
        BY <1>0, <3>1, <3>3, <4>1 DEF RecheckType
      <4>3. Begun \in {"pending", "changed"}
        BY DEF Begun
      <4>4. read' \in [Times -> {"none", "pending", "same", "changed", "unknown"}]
        BY <1>0, <3>1, <3>3, <4>3 DEF RecheckType
      <4> QED
        BY <1>0, <1>4, <4>2, <4>4 DEF RecheckType, StartLane
    <3> QED
      BY <1>4, <3>2, <3>3 DEF StartLane
  <2> QED
    BY <1>1, <1>4, <2>1, <2>2 DEF StartLane
<1>5. CASE Prepare(w)
  BY <1>0, <1>1, <1>2, <1>3, <1>5, GoesType DEF Prepare
<1>6. CASE EnterGate(w)
  <2>1. CASE Fails(w)
    BY <1>0, <1>1, <1>2, <1>6, <2>1, FailsType DEF EnterGate
  <2>2. CASE Goes(w, "reserved") /\ gate' = w /\ reserved' = [reserved EXCEPT ![w] = Price + Reserve(w)]
    <3>1. run.drop.price \in Nat
      <4>1. run.phase = "fleet"
        BY <1>6, InFleet DEF EnterGate, Over
      <4> QED
        BY <4>1 DEF Prepared, Armed
    <3>2. Price + Reserve(w) \in Nat
      BY <3>1, AmountsType
    <3>3. WalletType'
      BY <1>0, <1>3, <1>6, <2>2, <3>2 DEF EnterGate, Goes, WalletType
    <3> QED
      BY <1>1, <1>2, <1>6, <3>3 DEF EnterGate
  <2> QED
    BY <1>6, <2>1, <2>2 DEF EnterGate
<1>7. CASE RequestSignature(w)
  <2>1. WalletType'
    BY <1>0, <1>3, <1>7, FailsType, SignedType DEF RequestSignature
  <2> QED
    BY <1>1, <1>2, <1>7, <2>1 DEF RequestSignature
<1>8. CASE CheckAuthority(w)
  <2>1. WalletType'
    BY <1>0, <1>3, <1>8, FailsType, GoesType DEF CheckAuthority
  <2> QED
    BY <1>1, <1>2, <1>8, <2>1 DEF CheckAuthority
<1>9. CASE ConfirmReady(w)
  <2>1. ASSUME signed' = [signed EXCEPT ![w].at = time] PROVE \E s : signed' = [signed EXCEPT ![w] = s]
    BY <2>1
  <2>2. WalletType'
    BY <1>0, <1>3, <1>9, <2>1, FailsType, SignedType DEF ConfirmReady
  <2> QED
    BY <1>1, <1>2, <1>9, <2>2 DEF ConfirmReady
<1>10. CASE ProviderSigns(w)
  <2>1. \/ Fails(w) /\ UNCHANGED signed
        \/ /\ Goes(w, "signed") /\ UNCHANGED <<gate, reserved>>
           /\ \E s : signed' = [signed EXCEPT ![w] = s]
    BY <1>10 DEF ProviderSigns
  <2>2. WalletType'
    BY <1>0, <1>3, <2>1, FailsType, SignedType
  <2> QED
    BY <1>1, <1>2, <1>10, <2>2 DEF ProviderSigns
<1>11. CASE Broadcast(w)
  <2>1. WalletType'
    <3>1. CASE Fails(w)
      BY <1>0, <1>11, <3>1, FailsType DEF Broadcast
    <3>2. CASE Goes(w, "sent") /\ gate' = 0 /\ UNCHANGED <<reserved, signed>>
      BY <1>0, <1>3, <3>2 DEF Goes, WalletType
    <3> QED
      BY <1>11, <3>1, <3>2 DEF Broadcast
  <2> QED
    BY <1>1, <1>2, <1>11, <2>1 DEF Broadcast
<1> QED
  BY <1>4, <1>5, <1>6, <1>7, <1>8, <1>9, <1>10, <1>11 DEF Wallet

\* The re-reads and the world around the run.
LEMMA RereadType ==
  ASSUME Typed, Rereads
  PROVE  Typed'
<1>1. PICK t \in Times, v \in {"same", "changed", "unknown"} : read[t] = "pending" /\ Reread(t, v)
  <2>1. \A r : Verdict(r) \in {"same", "changed", "unknown"}
    BY DEF Verdict, Unknown
  <2>2. Unknown \in {"same", "changed", "unknown"}
    BY DEF Unknown
  <2> QED
    BY <2>1, <2>2 DEF Rereads, RereadAnswers, RereadFails
<1>2. read' \in [Times -> {"none", "pending", "same", "changed", "unknown"}] /\ latched' \in Times \union {-1}
  BY <1>1 DEF Reread, Typed, TypeOK
<1> QED
  BY <1>1, <1>2 DEF Reread, UnchangedRun, policyVars, walletVars, Typed, TypeOK, Shapes

LEMMA EnvironmentType ==
  ASSUME Typed, Environment
  PROVE  Typed'
<1> USE DEF policyVars, recheckVars, walletVars
<1>1. CASE Tick
  <2>1. time' \in Times
    BY <1>1, PolicyAssumption DEF Tick, Typed, TypeOK, Times
  <2> QED
    BY <1>1, <2>1 DEF Tick, Typed, TypeOK, Shapes
<1>2. CASE Kill
  BY <1>2 DEF Kill, Typed, TypeOK, Shapes
<1>3. CASE EditDrop
  <2>1. drops' \in Seq(DropStates) /\ drops' # <<>>
    BY <1>3 DEF EditDrop, Typed, Shapes
  <2> QED
    BY <1>3, <2>1 DEF EditDrop, Typed, TypeOK, Shapes
<1>4. CASE OwnerWrites
  <2>1. files' \in [map : WalletMaps \union {NoMap}, active : Digests \union {NoRecord},
                   catalog : SUBSET Digests, writes : Nat]
    BY <1>4, FilesType DEF OwnerWrites
  <2>2. UNCHANGED <<time, setup, signer>>
    BY <1>4 DEF OwnerWrites, ReplaceFile, InstallBundle
  <2>3. files'.active \in Digests \union {NoRecord} /\ files'.catalog \subseteq Digests
    BY <2>1
  <2> QED
    BY <1>4, <2>1, <2>2, <2>3 DEF OwnerWrites, Typed, TypeOK, Shapes
<1> QED
  BY <1>1, <1>2, <1>3, <1>4 DEF Environment

LEMMA TypeStep == Typed /\ Prepared /\ [Next]_vars => Typed'
<1> SUFFICES ASSUME Typed, Prepared, [Next]_vars PROVE Typed'
  OBVIOUS
<1>1. CASE UNCHANGED vars
  BY <1>1 DEF vars, policyVars, recheckVars, walletVars, Typed, TypeOK, Shapes
<1> QED
  BY <1>1, PrepareType, WalletStepType, RereadType, EnvironmentType DEF Next, Finished

-----------------------------------------------------------------------------
(* The signer a run has, and what is settled before its fleet starts        *)

\* Only loading and the end of the run touch the signer.
LEMMA SignerSteps ==
  ASSUME [Next]_vars
  PROVE  /\ UNCHANGED setup
         /\ UNCHANGED signer \/ signer' = Zeroized \/ LoadSigner
<1> USE DEF UnchangedSetup, UnchangedRun, policyVars
<1>1. CASE Environment
  BY <1>1 DEF Environment, Tick, Kill, EditDrop, OwnerWrites, ReplaceFile, InstallBundle
<1>2. CASE Preparation
  <2>1. CASE LoadWallets
    BY <2>1 DEF LoadWallets, LoadSigner, ReadMap, ReadActive, ReadCatalog, ReadBundle, ReadLocalFile
  <2>2. CASE Simulate \/ Admit
    BY <2>2 DEF Simulate, Admit, Throw, Ended
  <2> QED
    BY <1>2, <2>1, <2>2 DEF Preparation, StopPrepared, CheckPolicy, ReadDrop, SelectFleet, CreateBroadcaster,
                            Complete, Throw, Ended
<1>3. ASSUME NEW w \in Fleet, Wallet(w) PROVE UNCHANGED <<setup, signer>>
  BY <1>3 DEF Wallet, StartLane, Prepare, EnterGate, RequestSignature, CheckAuthority, ConfirmReady,
              ProviderSigns, Broadcast
<1>4. CASE Rereads
  BY <1>4 DEF Rereads, RereadAnswers, RereadFails, Reread
<1>5. CASE UNCHANGED vars
  BY <1>5 DEF vars
<1> QED
  BY <1>1, <1>2, <1>3, <1>4, <1>5 DEF Next, Finished

\* A signer that is constructed holds the wallets of its record.
LEMMA ConstructBound ==
  ASSUME NEW r \in Digests \union {NoRecord}, NEW m, NEW C, Construct(r, m, C)
  PROVE  \/ signer'.pc = "refused" /\ signer'.record = NoRecord
         \/ /\ signer'.pc = "ready" /\ signer'.record = r /\ r \in Digests
            /\ signer'.wallets = PolicyRecord[r].wallets
BY DEF Construct, Bound, Loaded, Refuse, NoSigner

SignerOk == Custody /\ SignerIsBound

\* Whichever files the owner replaces between two reads, the record and the wallets
\* of a loaded signer belong together, and the record is the campaign's.
LEMMA SignerStep == Typed /\ SignerOk /\ [Next]_vars => SignerOk'
<1> SUFFICES ASSUME Typed, SignerOk, [Next]_vars PROVE SignerOk'
  OBVIOUS
<1> USE DEF SignerOk, Custody, SignerIsBound
<1>1. UNCHANGED setup
  BY SignerSteps
<1>2. SignerType(signer) /\ setup \in Setups /\ files.active \in Digests \union {NoRecord}
  BY DEF Typed, TypeOK, Shapes, SignerType
<1>3. CASE UNCHANGED signer
  BY <1>1, <1>3
<1>4. CASE signer' = Zeroized
  BY <1>1, <1>4 DEF Zeroized, NoSigner
<1>5. ASSUME signer'.pc = "refused", signer'.record = NoRecord PROVE SignerOk'
  BY <1>1, <1>5
<1>6. CASE ReadMap
  <2>1. signer'.pc = "map" /\ signer'.record = signer.record
    BY <1>2, <1>6 DEF ReadMap, SignerType
  <2> QED
    BY <1>1, <1>6, <2>1 DEF ReadMap
<1>7. CASE ReadActive
  <2>1. \/ signer'.pc = "active" /\ signer'.record = signer.record
        \/ signer'.pc = "refused" /\ signer'.record = NoRecord
    BY <1>2, <1>7 DEF ReadActive, SignerType, Refuse, NoSigner
  <2> QED
    BY <1>1, <1>5, <1>7, <2>1 DEF ReadActive
<1>8. CASE ReadCatalog
  <2>1. setup.custody \in {"files", "catalog"}
    BY <1>8 DEF ReadCatalog
  <2>2. CASE Refuse
    BY <1>5, <2>2 DEF Refuse, NoSigner
  <2>3. ASSUME setup.custody = "files", setup.wanted \in {NoRecord, signer.active}, NEW C,
               Construct(signer.active, signer.map, C)
        PROVE  SignerOk'
    BY <1>1, <1>2, <1>5, <2>3, ConstructBound DEF SignerType
  <2>4. ASSUME setup.custody = "catalog", NEW C, Construct(Selected(signer.active, C), signer.map, C)
        PROVE  SignerOk'
    <3>1. /\ Selected(signer.active, C) \in Digests \union {NoRecord}
          /\ Selected(signer.active, C) # NoRecord /\ setup.wanted # NoRecord =>
               Selected(signer.active, C) = setup.wanted
      BY <1>2, SetupAssumption DEF Selected, SignerType
    <3> QED
      BY <1>1, <1>5, <2>4, <3>1, ConstructBound, PolicyAssumption
  <2>5. \/ Refuse
        \/ /\ setup.custody = "files" /\ setup.wanted \in {NoRecord, signer.active}
           /\ Construct(signer.active, signer.map, {signer.active})
        \/ /\ setup.custody = "catalog"
           /\ Construct(Selected(signer.active, Approved(files.catalog)), signer.map, Approved(files.catalog))
    <3>1. CASE setup.custody = "files"
      <4>1. setup.custody # "catalog"
        BY <3>1
      <4>2. \/ setup.wanted \in {NoRecord, signer.active}
              /\ Construct(signer.active, signer.map, {signer.active})
           \/ Refuse
        BY <1>8, <3>1, <4>1, Zenon DEF ReadCatalog
      <4> QED
        BY <3>1, <4>2
    <3>2. CASE setup.custody = "catalog"
      <4>1. \/ Construct(Selected(signer.active, Approved(files.catalog)), signer.map, Approved(files.catalog))
           \/ Refuse
        BY <1>8, <3>2, Zenon DEF ReadCatalog
      <4> QED
        BY <3>2, <4>1
    <3> QED
      BY <2>1, <3>1, <3>2
  <2> QED
    BY <2>2, <2>3, <2>4, <2>5
<1>9. CASE ReadBundle
  <2>1. CASE Refuse
    BY <1>5, <2>1 DEF Refuse, NoSigner
  <2>2. ASSUME NEW C, NEW D, Construct(Selected(files.active, C), files.map, D)
        PROVE  SignerOk'
    <3>1. /\ Selected(files.active, C) \in Digests \union {NoRecord}
          /\ Selected(files.active, C) # NoRecord /\ setup.wanted # NoRecord =>
               Selected(files.active, C) = setup.wanted
      BY <1>2, SetupAssumption DEF Selected
    <3> QED
      BY <1>1, <1>5, <1>9, <2>2, <3>1, ConstructBound, PolicyAssumption DEF ReadBundle
  <2>3. \/ Refuse
        \/ Construct(Selected(files.active, files.catalog), files.map, Approved(files.catalog))
    BY <1>9 DEF ReadBundle
  <2> QED
    BY <2>1, <2>2, <2>3
<1>10. CASE ReadLocalFile
  BY <1>1, <1>10 DEF ReadLocalFile, NoSigner
<1> QED
  BY <1>3, <1>4, <1>6, <1>7, <1>8, <1>9, <1>10, SignerSteps DEF LoadSigner

\* What a wallet does it does while the fleet is under way.
LEMMA WalletInFleet ==
  ASSUME Typed, Prepared, NEW w \in Fleet, Wallet(w)
  PROVE  run.phase = "fleet" /\ UNCHANGED <<time, setup, signer, killed, drops, run, sim>>
<1>1. UNCHANGED <<time, setup, signer, killed, drops, run, sim>>
  BY DEF Wallet, StartLane, Prepare, EnterGate, RequestSignature, CheckAuthority, ConfirmReady,
         ProviderSigns, Broadcast, UnchangedRun, policyVars
<1>2. StartLane(w) => run.phase = "fleet"
  BY DEF StartLane
<1>3. pc[w] \in {"recheck", "gate", "reserved", "authority", "ready", "signing", "signed"} => run.phase = "fleet"
  BY InFleet DEF Over
<1> QED
  BY <1>1, <1>2, <1>3 DEF Wallet, Prepare, EnterGate, RequestSignature, CheckAuthority, ConfirmReady,
                          ProviderSigns, Broadcast

\* What one wallet does leaves the others where they are.
LEMMA WalletAlone ==
  ASSUME Typed, NEW w \in Fleet, Wallet(w)
  PROVE  \A v \in Fleet \ {w} : /\ pc'[v] = pc[v] /\ reserved'[v] = reserved[v]
                               /\ signed'[v] = signed[v] /\ asked'[v] = asked[v]
<1> USE DEF recheckVars, Goes
<1>0. /\ signed = [v \in Fleet |-> signed[v]] /\ pc = [v \in Fleet |-> pc[v]]
      /\ asked = [v \in Fleet |-> asked[v]] /\ reserved = [v \in Fleet |-> reserved[v]]
  BY DEF Typed, TypeOK, Shapes
<1>1. Fails(w) => pc' = [pc EXCEPT ![w] = "failed"] /\ reserved' = [reserved EXCEPT ![w] = 0]
  BY DEF Fails
<1>2. CASE StartLane(w)
  BY <1>0, <1>2 DEF StartLane
<1>3. CASE Prepare(w)
  BY <1>0, <1>3 DEF Prepare
<1>4. CASE EnterGate(w)
  BY <1>0, <1>1, <1>4 DEF EnterGate
<1>5. CASE RequestSignature(w)
  BY <1>0, <1>1, <1>5 DEF RequestSignature
<1>6. CASE CheckAuthority(w)
  BY <1>0, <1>1, <1>6 DEF CheckAuthority
<1>7. CASE ConfirmReady(w)
  BY <1>0, <1>1, <1>7 DEF ConfirmReady
<1>8. CASE ProviderSigns(w)
  <2>1. \/ Fails(w) /\ UNCHANGED signed
        \/ Goes(w, "signed") /\ UNCHANGED reserved /\ \E s : signed' = [signed EXCEPT ![w] = s]
    BY <1>8 DEF ProviderSigns
  <2> QED
    BY <1>0, <1>1, <1>8, <2>1 DEF ProviderSigns
<1>9. CASE Broadcast(w)
  BY <1>0, <1>1, <1>9 DEF Broadcast
<1> QED
  BY <1>2, <1>3, <1>4, <1>5, <1>6, <1>7, <1>8, <1>9 DEF Wallet

LEMMA PreparedStep == Typed /\ SignerOk /\ Prepared /\ [Next]_vars => Prepared'
<1> SUFFICES ASSUME Typed, SignerOk, Prepared, [Next]_vars PROVE Prepared'
  OBVIOUS
<1> USE DEF UnchangedSetup, policyVars, recheckVars, walletVars, Prior, Armed
<1>0. /\ run = [phase |-> run.phase, drop |-> run.drop, admitted |-> run.admitted, at |-> run.at]
      /\ pc = [w \in Fleet |-> pc[w]]
  BY DEF Typed, TypeOK, Shapes
<1> DEFINE Same == UNCHANGED <<setup, signer, run, pc, asked>>
<1>1. CASE Same
  BY <1>1 DEF Prepared, FleetSelected
<1>2. ASSUME Throw, UNCHANGED <<pc, asked>>, run.phase \in Prior PROVE Prepared'
  <2>1. run'.phase = "failed" /\ signer' = Zeroized
    BY <1>0, <1>2 DEF Throw, Ended
  <2> QED
    BY <1>2, <2>1 DEF Prepared, FleetSelected
<1>3. CASE StopPrepared
  BY <1>2, <1>3 DEF StopPrepared
<1>4. CASE CheckPolicy
  <2>1. CASE Advance("drop") /\ UNCHANGED policyVars
    BY <1>0, <1>4, <2>1 DEF CheckPolicy, Advance, Prepared, FleetSelected
  <2> QED
    BY <1>2, <1>4, <2>1 DEF CheckPolicy
<1>5. CASE ReadDrop
  <2>1. ASSUME NEW r \in Readings, run' = [run EXCEPT !.phase = "load", !.drop = r], UNCHANGED policyVars
        PROVE  Prepared'
    <3>1. r.price \in Nat
      <4>1. PICK d \in Views : \E x, known : r = Reading(d, x, known)
        BY DEF Readings
      <4>2. d \in DropStates
        BY <4>1 DEF Views, Typed, Shapes
      <4> QED
        BY <4>1, <4>2, MintAssumption DEF Reading
    <3>2. run'.phase = "load" /\ run'.drop = r
      BY <1>0, <2>1
    <3> QED
      BY <1>5, <2>1, <3>1, <3>2 DEF ReadDrop, InPhase, Prepared
  <2> QED
    BY <1>2, <1>5, <2>1 DEF ReadDrop, InPhase
<1>6. CASE LoadWallets
  BY <1>6 DEF LoadWallets, InPhase, Prepared
<1>7. CASE SelectFleet
  <2>1. CASE /\ Advance("simulate") /\ UNCHANGED policyVars
             /\ signer.pc = "ready" /\ FleetSelected
    BY <1>0, <1>7, <2>1 DEF SelectFleet, Advance, Prepared, FleetSelected
  <2> QED
    BY <1>2, <1>7, <2>1 DEF SelectFleet
<1>8. CASE Simulate
  <2>1. PICK w \in Fleet : pc' = [pc EXCEPT ![w] = "simulated"]
    BY <1>8 DEF Simulate
  <2>2. run'.phase \in {"simulate", "admit"} /\ run'.drop = run.drop
    BY <1>0, <1>8 DEF Simulate
  <2> QED
    BY <1>0, <1>8, <2>1, <2>2 DEF Simulate, InPhase, Prepared, FleetSelected
<1>9. CASE Admit
  <2>1. CASE Throw /\ UNCHANGED pc
    BY <1>2, <1>9, <2>1 DEF Admit, InPhase
  <2>2. ASSUME NEW S, NEW F, run' = [run EXCEPT !.phase = "broadcaster", !.admitted = S],
               pc' = PlacesOf(S, F), UNCHANGED policyVars
        PROVE  Prepared'
    <3>1. run'.phase = "broadcaster" /\ run'.drop = run.drop
      BY <1>0, <2>2
    <3>2. \A w \in Fleet : pc'[w] \in {"idle", "skipped", "capped"}
      BY <2>2 DEF PlacesOf
    <3> QED
      BY <1>9, <2>2, <3>1, <3>2 DEF Admit, InPhase, Prepared, FleetSelected
  <2>3. PICK S, F \in SUBSET Fleet :
           \/ Throw /\ UNCHANGED pc
           \/ /\ run' = [run EXCEPT !.phase = "broadcaster", !.admitted = S]
              /\ pc' = PlacesOf(S, F)
              /\ UNCHANGED policyVars
    BY <1>9 DEF Admit, PlacesOf
  <2> QED
    BY <2>1, <2>2, <2>3
<1>10. CASE CreateBroadcaster
  <2>1. ASSUME run' = [run EXCEPT !.phase = "fleet", !.at = time], UNCHANGED policyVars
        PROVE  Prepared'
    <3>1. run'.phase = "fleet" /\ run'.drop = run.drop
      BY <1>0, <2>1
    <3> QED
      BY <1>10, <2>1, <3>1 DEF CreateBroadcaster, InPhase, Prepared, FleetSelected
  <2> QED
    BY <1>2, <1>10, <2>1 DEF CreateBroadcaster, InPhase
<1>11. CASE Complete
  <2>1. run'.phase = "done" /\ run'.drop = run.drop /\ signer' = Zeroized
    BY <1>0, <1>11 DEF Complete, Ended
  <2> QED
    BY <1>11, <2>1 DEF Complete, Prepared
<1>12. ASSUME NEW w \in Fleet, Wallet(w) PROVE Prepared'
  <2>1. run.phase = "fleet" /\ UNCHANGED <<setup, signer, run>>
    BY <1>12, WalletInFleet
  <2> QED
    BY <2>1 DEF Prepared, FleetSelected
<1>13. Environment \/ Rereads \/ UNCHANGED vars => Same
  BY DEF vars, Environment, Tick, Kill, EditDrop, OwnerWrites, ReplaceFile, InstallBundle,
         Rereads, RereadAnswers, RereadFails, Reread, UnchangedRun
<1> QED
  BY <1>1, <1>3, <1>4, <1>5, <1>6, <1>7, <1>8, <1>9, <1>10, <1>11, <1>12, <1>13
  DEF Next, Preparation, Finished

\* What is not a wallet's step leaves the wallets alone once the fleet is under way.
LEMMA QuietSteps ==
  ASSUME Typed, Prepared, [Next]_vars, ~ \E w \in Fleet : Wallet(w)
  PROVE  /\ UNCHANGED <<setup, gate, reserved, signed, asked>>
         /\ \A i \in DOMAIN drops : i \in DOMAIN drops' /\ drops'[i] = drops[i]
         /\ run.phase \in Prior => \A w \in Fleet : pc'[w] \in {"out", "simulated", "idle", "skipped", "capped"}
         /\ run.phase \notin Prior =>
              /\ pc' = pc /\ sim' = sim /\ run'.drop = run.drop /\ run'.admitted = run.admitted
              /\ \/ run'.phase = run.phase /\ signer' = signer
                 \/ run'.phase = "done"
<1> USE DEF UnchangedSetup, policyVars, recheckVars, walletVars, Prior
<1>0. /\ run = [phase |-> run.phase, drop |-> run.drop, admitted |-> run.admitted, at |-> run.at]
      /\ drops \in Seq(DropStates)
  BY DEF Typed, TypeOK, Shapes
<1>1. UNCHANGED <<setup, gate, reserved, signed, asked>>
  <2>1. UNCHANGED setup
    BY SignerSteps
  <2> QED
    BY <2>1 DEF Next, Environment, Tick, Kill, EditDrop, OwnerWrites, Rereads, RereadAnswers, RereadFails, Reread,
                Preparation, StopPrepared, CheckPolicy, ReadDrop, LoadWallets, SelectFleet, Simulate, Admit,
                CreateBroadcaster, Complete, Finished, vars
<1>2. drops' = drops \/ \E d : drops' = Append(drops, d) /\ d \in DropStates
  BY DEF Next, Environment, Tick, Kill, EditDrop, OwnerWrites, Rereads, RereadAnswers, RereadFails, Reread,
         UnchangedRun, Preparation, StopPrepared, CheckPolicy, ReadDrop, LoadWallets, SelectFleet, Simulate, Admit,
         CreateBroadcaster, Complete, Finished, vars
<1>3. \A i \in DOMAIN drops : i \in DOMAIN drops' /\ drops'[i] = drops[i]
  BY <1>0, <1>2
<1>4. UNCHANGED <<pc, sim, run, signer>> \/ Preparation
  BY DEF Next, Environment, Tick, Kill, EditDrop, OwnerWrites, ReplaceFile, InstallBundle,
         Rereads, RereadAnswers, RereadFails, Reread, UnchangedRun, Finished, vars
<1>5. ASSUME run.phase \in Prior, NEW w \in Fleet PROVE pc'[w] \in {"out", "simulated", "idle", "skipped", "capped"}
  <2>1. pc[w] \in {"out", "simulated", "idle", "skipped", "capped"} /\ pc \in [Fleet -> Places]
    BY <1>5 DEF Prepared, Typed, TypeOK, Places
  <2>2. CASE UNCHANGED pc
    BY <2>1, <2>2
  <2>3. CASE Simulate
    BY <2>1, <2>3 DEF Simulate
  <2>4. CASE Admit
    BY <2>1, <2>4 DEF Admit
  <2> QED
    BY <1>4, <2>2, <2>3, <2>4 DEF Preparation, StopPrepared, CheckPolicy, ReadDrop, LoadWallets, SelectFleet,
                                  CreateBroadcaster, Complete
<1>6. ASSUME run.phase \notin Prior
      PROVE  /\ pc' = pc /\ sim' = sim /\ run'.drop = run.drop /\ run'.admitted = run.admitted
             /\ \/ run'.phase = run.phase /\ signer' = signer
                \/ run'.phase = "done"
  <2>1. UNCHANGED <<pc, sim, run, signer>> \/ Complete
    BY <1>4, <1>6 DEF Preparation, StopPrepared, CheckPolicy, ReadDrop, LoadWallets, SelectFleet, Simulate, Admit,
                      CreateBroadcaster, InPhase
  <2>2. CASE Complete
    BY <1>0, <2>2 DEF Complete, Ended
  <2> QED
    BY <2>1, <2>2
<1> QED
  BY <1>1, <1>3, <1>5, <1>6

-----------------------------------------------------------------------------
(* A change once seen                                                      *)

StopOk == Stopped /\ StaysStopped

\* A wallet that stays, that gives up, or whose own re-read is not later than the mark.
MovesOn(w) ==
  \/ pc'[w] = pc[w]
  \/ pc'[w] \in {"skipped", "failed"}
  \/ pc'[w] # "idle" /\ ~(latched >= 0 /\ asked[w] > latched)

LEMMA MoveStopped ==
  ASSUME StopOk, UNCHANGED <<time, read, asked, latched>>, \A w \in Fleet : MovesOn(w)
  PROVE  StopOk'
<1>1. Stopped'
  BY DEF StopOk, Stopped, MovesOn
<1>2. StaysStopped'
  BY DEF StopOk, StaysStopped, MovesOn
<1> QED
  BY <1>1, <1>2 DEF StopOk

\* A re-read begun after a change was seen reports it, so the wallets waiting for
\* one cannot pass, and a report sets the mark no later than any read begun so far.
LEMMA StopStep == Typed /\ Prepared /\ StopOk /\ [Next]_vars => StopOk'
<1> SUFFICES ASSUME Typed, Prepared, StopOk, [Next]_vars PROVE StopOk'
  OBVIOUS
<1>0. /\ time \in Times /\ Times \subseteq Int /\ latched \in Times \union {-1}
      /\ \A t \in Times : t >= 0
      /\ read \in [Times -> {"none", "pending", "same", "changed", "unknown"}]
      /\ asked \in [Fleet -> Times \union {-1}] /\ pc \in [Fleet -> Places]
  BY PolicyAssumption DEF Typed, TypeOK, Times, Places
<1>1. ASSUME UNCHANGED <<time, pc, recheckVars>> PROVE StopOk'
  <2>1. \A w \in Fleet : MovesOn(w)
    BY <1>1 DEF MovesOn
  <2> QED
    BY <1>1, <2>1, MoveStopped DEF recheckVars
<1>2. CASE Tick
  BY <1>0, <1>2 DEF Tick, StopOk, Stopped, StaysStopped, recheckVars, walletVars
<1>3. CASE Preparation
  <2>1. UNCHANGED <<time, recheckVars>>
    BY <1>3 DEF Preparation, StopPrepared, CheckPolicy, ReadDrop, LoadWallets, SelectFleet, Simulate, Admit,
                CreateBroadcaster, Complete, UnchangedSetup, LoadSigner, ReadMap, ReadActive, ReadCatalog,
                ReadBundle, ReadLocalFile
  <2>2. UNCHANGED pc \/ run.phase \in Prior
    BY <1>3 DEF Preparation, StopPrepared, CheckPolicy, ReadDrop, LoadWallets, SelectFleet, Simulate, Admit,
                CreateBroadcaster, Complete, UnchangedSetup, walletVars, InPhase, Prior
  <2>3. run.phase \in Prior => \A w \in Fleet : asked[w] = -1
    BY DEF Prepared
  <2>4. CASE UNCHANGED pc
    BY <1>1, <2>1, <2>4
  <2>5. CASE run.phase \in Prior
    BY <1>0, <2>1, <2>3, <2>5 DEF StopOk, Stopped, StaysStopped, recheckVars
  <2> QED
    BY <2>2, <2>4, <2>5
<1>4. CASE Rereads
  <2>1. PICK t \in Times, v \in {"same", "changed", "unknown"} : read[t] = "pending" /\ Reread(t, v)
    <3>1. \A r : Verdict(r) \in {"same", "changed", "unknown"}
      BY DEF Verdict, Unknown
    <3>2. Unknown \in {"same", "changed", "unknown"}
      BY DEF Unknown
    <3> QED
      BY <1>4, <3>1, <3>2 DEF Rereads, RereadAnswers, RereadFails
  <2>2. /\ read' = [read EXCEPT ![t] = v]
        /\ latched' = IF v = "changed" /\ latched = -1 THEN time ELSE latched
        /\ UNCHANGED <<time, asked, pc>>
    BY <2>1 DEF Reread, UnchangedRun, walletVars
  <2>3. (latched >= 0 => t <= latched) /\ latched' >= latched /\ (latched' # latched => latched' = time)
    BY <1>0, <2>1, <2>2 DEF StopOk, Stopped
  <2>4. Stopped'
    BY <1>0, <2>1, <2>2, <2>3 DEF StopOk, Stopped
  <2>5. StaysStopped'
    <3> SUFFICES ASSUME NEW w \in Fleet, latched' >= 0, asked[w] > latched'
                 PROVE  pc[w] \in {"recheck", "skipped", "failed"}
      BY <2>2 DEF StaysStopped
    <3>1. asked[w] \in Times /\ asked[w] <= time
      <4>1. asked[w] # -1 /\ asked[w] \in Times \union {-1}
        BY <1>0, <2>1, <2>2
      <4>2. read[asked[w]] # "none"
        BY <4>1 DEF StopOk, Stopped
      <4> QED
        BY <4>1, <4>2 DEF StopOk, Stopped
    <3>2. latched' = latched
      <4>1. asked[w] \in Int /\ latched' \in Int /\ time \in Int
        <5>1. latched' = time \/ latched' = latched
          BY <2>3
        <5>2. time \in Int /\ latched \in Int
          BY <1>0
        <5> QED
          BY <1>0, <3>1, <5>1, <5>2
      <4> QED
        BY <2>3, <3>1, <4>1
    <3> QED
      BY <3>2 DEF StopOk, StaysStopped
  <2> QED
    BY <2>4, <2>5 DEF StopOk
<1>5. ASSUME NEW w \in Fleet, Wallet(w) PROVE StopOk'
  <2>1. \A v \in Fleet \ {w} : pc'[v] = pc[v] /\ asked'[v] = asked[v]
    BY <1>5, WalletAlone
  <2>2. UNCHANGED time
    BY <1>5, WalletInFleet
  <2>7. (\A v \in Fleet \ {w} : MovesOn(v)) /\ (asked[w] = -1 /\ pc'[w] # "idle" => MovesOn(w))
    <3>1. latched \in Int
      BY <1>0
    <3> QED
      BY <2>1, <3>1 DEF MovesOn
  <2>3. CASE StartLane(w)
    <3>1. asked[w] = -1 /\ UNCHANGED latched
      BY <2>3 DEF StartLane, StopOk, Stopped
    <3>2. CASE UNCHANGED <<read, asked>> /\ pc' = [pc EXCEPT ![w] = "killed"]
      BY <1>0, <2>1, <2>2, <2>7, <3>1, <3>2, MoveStopped
    <3>3. CASE UNCHANGED <<read, asked>> /\ pc' = [pc EXCEPT ![w] = "failed"]
      BY <1>0, <2>1, <2>2, <2>7, <3>1, <3>3, MoveStopped
    <3>4. CASE /\ pc' = [pc EXCEPT ![w] = "recheck"]
               /\ asked' = [asked EXCEPT ![w] = IF Shares THEN Newest ELSE time]
               /\ read' = IF Shares THEN read ELSE [read EXCEPT ![time] = Begun]
      <4>1. CASE Shares
        <5>1. Newest \in Times /\ read[Newest] # "none"
          BY <4>1, NewestIs DEF Shares
        <5> QED
          BY <1>0, <2>2, <3>1, <3>4, <4>1, <5>1 DEF StopOk, Stopped, StaysStopped
      <4>2. CASE ~Shares
        <5>1. read' = [read EXCEPT ![time] = Begun] /\ asked' = [asked EXCEPT ![w] = time]
          BY <3>4, <4>2
        <5>2. Begun # "none" /\ (latched >= 0 => Begun = "changed")
          BY DEF Begun
        <5>3. Stopped'
          BY <1>0, <2>2, <3>1, <3>4, <5>1, <5>2 DEF StopOk, Stopped
        <5>4. StaysStopped'
          BY <1>0, <2>2, <3>1, <3>4, <5>1 DEF StopOk, Stopped, StaysStopped
        <5> QED
          BY <5>3, <5>4 DEF StopOk
      <4> QED
        BY <4>1, <4>2
    <3> QED
      BY <2>3, <3>2, <3>3, <3>4 DEF StartLane, Goes
  <2>4. CASE Prepare(w)
    <3>1. UNCHANGED recheckVars
      BY <2>4 DEF Prepare
    <3>2. ASSUME latched >= 0, asked[w] > latched PROVE read[asked[w]] = "changed"
      <4>1. asked[w] \in Times /\ read[asked[w]] # "none" /\ read[asked[w]] \in {"none", "changed"}
        <5>1. asked[w] # -1
          BY <1>0, <3>2
        <5> QED
          BY <3>2, <5>1 DEF StopOk, Stopped
      <4> QED
        BY <4>1
    <3>3. pc'[w] = "skipped" \/ (pc'[w] \in {"gate", "failed"} /\ read[asked[w]] # "changed")
      BY <1>0, <2>4 DEF Prepare, Goes
    <3> QED
      BY <2>2, <2>7, <3>1, <3>2, <3>3, MoveStopped DEF recheckVars, MovesOn
  <2>5. CASE pc[w] \in {"gate"} \union Gated /\ pc'[w] # "idle" /\ UNCHANGED recheckVars
    <3>1. ~(latched >= 0 /\ asked[w] > latched)
      BY <2>5 DEF StopOk, StaysStopped, Gated
    <3> QED
      BY <2>2, <2>5, <2>7, <3>1, MoveStopped DEF recheckVars, MovesOn
  <2>6. Fails(w) => pc'[w] # "idle"
    BY <1>0 DEF Fails, Goes
  <2> QED
    BY <1>0, <1>5, <2>3, <2>4, <2>5, <2>6
    DEF Wallet, EnterGate, RequestSignature, CheckAuthority, ConfirmReady, ProviderSigns, Broadcast, Goes, Gated
<1>6. Kill \/ EditDrop \/ OwnerWrites \/ UNCHANGED vars => UNCHANGED <<time, pc, recheckVars>>
  BY DEF Kill, EditDrop, OwnerWrites, ReplaceFile, InstallBundle, walletVars, vars
<1> QED
  BY <1>1, <1>2, <1>3, <1>4, <1>5, <1>6 DEF Next, Environment, Finished

-----------------------------------------------------------------------------
(* The gate and what is reserved                                           *)

GateOk == OneInGate /\ Reservations

\* Prices and reserves depend on the configuration and the drop the run read.
LEMMA SamePrices ==
  ASSUME UNCHANGED setup, run'.drop = run.drop
  PROVE  /\ Price' = Price /\ (Free' <=> Free)
         /\ \A w \in Fleet : Reserve(w)' = Reserve(w) /\ Preflight(w)' = Preflight(w)
BY DEF Price, Free, Reserve, ReserveFee, WorstGas, Extra, Preflight

\* No wallet is called 0, which stands for an empty gate.
LEMMA NobodyIsZero == 0 \notin Fleet
BY MintAssumption DEF Fleet

\* One wallet's step may move that wallet, and the gate with it.
LEMMA MoveGate ==
  ASSUME Typed, GateOk, NEW w \in Fleet,
         \A v \in Fleet \ {w} : pc'[v] = pc[v] /\ reserved'[v] = reserved[v],
         Price' = Price, Free' <=> Free, \A v \in Fleet : Reserve(v)' = Reserve(v),
         \/ gate' = gate
         \/ gate = 0
         \/ gate = w,
         pc'[w] \in Gated => gate' = w,
         reserved'[w] = IF pc'[w] \in Holding THEN Price + Reserve(w) ELSE 0,
         pc'[w] \in Holding \union {"gate"} /\ Free => Reserve(w) <= WalletCap
  PROVE  GateOk'
<1> HIDE DEF Price, Free
<1>1. OneInGate'
  BY NobodyIsZero DEF GateOk, OneInGate
<1>2. Reservations'
  BY DEF GateOk, Reservations
<1> QED
  BY <1>1, <1>2 DEF GateOk

\* One wallet at a time is between its reservation and its broadcast; whatever
\* fails on the way gives back what was reserved and opens the gate.
LEMMA GateStep == Typed /\ Prepared /\ GateOk /\ [Next]_vars => GateOk'
<1> SUFFICES ASSUME Typed, Prepared, GateOk, [Next]_vars PROVE GateOk'
  OBVIOUS
<1>1. CASE ~ \E w \in Fleet : Wallet(w)
  <2>1. UNCHANGED <<setup, gate, reserved>>
    BY <1>1, QuietSteps
  <2>2. CASE run.phase \in Prior
    <3>1. \A w \in Fleet : /\ pc[w] \in {"out", "simulated", "idle", "skipped", "capped"}
                          /\ pc'[w] \in {"out", "simulated", "idle", "skipped", "capped"}
      BY <1>1, <2>2, QuietSteps DEF Prepared
    <3> QED
      BY <2>1, <3>1 DEF GateOk, OneInGate, Reservations, Holding, Gated
  <2>3. CASE run.phase \notin Prior
    <3>1. pc' = pc /\ run'.drop = run.drop
      BY <1>1, <2>3, QuietSteps
    <3>2. /\ Price' = Price /\ (Free' <=> Free)
          /\ \A w \in Fleet : Reserve(w)' = Reserve(w)
      BY <2>1, <3>1, SamePrices
    <3> QED
      BY <2>1, <3>1, <3>2 DEF GateOk, OneInGate, Reservations
  <2> QED
    BY <2>2, <2>3
<1>2. ASSUME NEW w \in Fleet, Wallet(w) PROVE GateOk'
  <2>1. \A v \in Fleet \ {w} : pc'[v] = pc[v] /\ reserved'[v] = reserved[v]
    BY <1>2, WalletAlone
  <2>2. UNCHANGED <<setup, run>>
    BY <1>2, WalletInFleet
  <2>3. /\ Price' = Price /\ (Free' <=> Free)
        /\ \A v \in Fleet : Reserve(v)' = Reserve(v)
    BY <2>2, SamePrices
  <2>4. pc \in [Fleet -> Places] /\ reserved \in [Fleet -> Nat]
    BY DEF Typed, TypeOK, Places
  <2>5. /\ pc[w] \in Gated => gate = w
        /\ reserved[w] = IF pc[w] \in Holding THEN Price + Reserve(w) ELSE 0
        /\ pc[w] \in Holding \union {"gate"} /\ Free => Reserve(w) <= WalletCap
    BY DEF GateOk, OneInGate, Reservations
  <2>6. CASE Fails(w)
    <3>1. pc'[w] = "failed" /\ reserved'[w] = 0 /\ (gate' = gate \/ gate = w)
      BY <2>4, <2>6 DEF Fails, Goes
    <3> QED
      BY <2>1, <2>3, <3>1, MoveGate DEF Holding, Gated
  <2>7. ASSUME NEW p \in Places, Goes(w, p), UNCHANGED <<gate, reserved>>,
               pc[w] \in Gated <=> p \in Gated, pc[w] \in Holding <=> p \in Holding,
               p = "gate" => (Free => Reserve(w) <= WalletCap)
        PROVE  GateOk'
    <3>1. pc'[w] = p
      BY <2>4, <2>7 DEF Goes
    <3> QED
      BY <2>1, <2>3, <2>5, <2>7, <3>1, MoveGate
  <2>8. CASE StartLane(w)
    BY <2>7, <2>8 DEF StartLane, Places, Over, Gated, Holding
  <2>9. CASE Prepare(w)
    BY <2>7, <2>9 DEF Prepare, Places, Over, Gated, Holding
  <2>10. CASE /\ pc[w] = "gate" /\ gate = 0 /\ gate' = w
              /\ Goes(w, "reserved") /\ reserved' = [reserved EXCEPT ![w] = Price + Reserve(w)]
    <3>1. pc'[w] = "reserved" /\ reserved'[w] = Price + Reserve(w)
      BY <2>4, <2>10 DEF Goes
    <3> QED
      BY <2>1, <2>3, <2>5, <2>10, <3>1, MoveGate DEF Holding, Gated
  <2>11. CASE EnterGate(w)
    BY <2>6, <2>10, <2>11 DEF EnterGate
  <2>12. CASE RequestSignature(w)
    BY <2>6, <2>7, <2>12 DEF RequestSignature, Places, Over, Gated, Holding
  <2>13. CASE CheckAuthority(w)
    BY <2>6, <2>7, <2>13 DEF CheckAuthority, Places, Over, Gated, Holding
  <2>14. CASE ConfirmReady(w)
    BY <2>6, <2>7, <2>14 DEF ConfirmReady, Places, Over, Gated, Holding
  <2>15. CASE ProviderSigns(w)
    <3>1. Fails(w) \/ (Goes(w, "signed") /\ UNCHANGED <<gate, reserved>>)
      BY <2>15 DEF ProviderSigns
    <3> QED
      BY <2>6, <2>7, <2>15, <3>1 DEF ProviderSigns, Places, Over, Gated, Holding
  <2>16. CASE pc[w] = "signed" /\ Goes(w, "sent") /\ gate' = 0 /\ UNCHANGED reserved
    <3>1. pc'[w] = "sent"
      BY <2>4, <2>16 DEF Goes
    <3> QED
      BY <2>1, <2>3, <2>5, <2>16, <3>1, MoveGate DEF Holding, Gated
  <2>17. CASE Broadcast(w)
    BY <2>6, <2>16, <2>17 DEF Broadcast
  <2> QED
    BY <1>2, <2>8, <2>9, <2>11, <2>12, <2>13, <2>14, <2>15, <2>17 DEF Wallet
<1> QED
  BY <1>1, <1>2

-----------------------------------------------------------------------------
(* What a wallet is allowed to sign, and what it has signed                *)

\* It outlives every step that leaves the wallet alone.
LEMMA AuthStays ==
  ASSUME NEW w \in Fleet, Auth(w),
         pc'[w] = pc[w], signed'[w] = signed[w],
         UNCHANGED <<setup, signer, sim>>, run'.drop = run.drop,
         \A i \in DOMAIN drops : i \in DOMAIN drops' /\ drops'[i] = drops[i]
  PROVE  Auth(w)'
<1>1. Price' = Price /\ Tx(w)' = Tx(w) /\ (Family' <=> Family)
  BY DEF Price, Tx, Family
<1>2. (\E i \in DOMAIN drops : RecipientAllowed(drops[i], Tx(w)))
      => \E i \in DOMAIN drops' : RecipientAllowed(drops'[i], Tx(w))
  OBVIOUS
<1> QED
  BY <1>1, <1>2 DEF Auth, RecipientAllowed

\* A request is allowed when the record is current and the transaction costs nothing.
LEMMA RequestAllowed ==
  ASSUME NEW w \in Fleet, MaySign(Tx(w), run.drop.recipient), setup.custody # "local"
  PROVE  Price = 0 /\ Current(signer.record)
BY DEF MaySign, IntentAllowed, WithinLimits, Tx

LEMMA AuthorizedStep == Typed /\ Prepared /\ Authorized /\ [Next]_vars => Authorized'
<1> SUFFICES ASSUME Typed, Prepared, Authorized, [Next]_vars PROVE Authorized'
  OBVIOUS
<1>0. /\ \A w \in Fleet : run.phase = "fleet" /\ pc[w] \in Asked => Auth(w)
      /\ (\A w \in Fleet : run'.phase = "fleet" /\ pc'[w] \in Asked => Auth(w)') => Authorized'
  BY DEF Authorized
<1>1. CASE ~ \E w \in Fleet : Wallet(w)
  <2>1. ASSUME NEW w \in Fleet, run'.phase = "fleet", pc'[w] \in Asked PROVE Auth(w)'
    <3>1. run.phase \notin Prior
      BY <1>1, <2>1, QuietSteps DEF Asked
    <3>2. /\ pc' = pc /\ run'.phase = run.phase /\ run'.drop = run.drop
          /\ UNCHANGED <<setup, signer, sim, signed>>
          /\ \A i \in DOMAIN drops : i \in DOMAIN drops' /\ drops'[i] = drops[i]
      BY <1>1, <2>1, <3>1, QuietSteps
    <3>3. Auth(w)
      BY <1>0, <2>1, <3>2
    <3> QED
      BY <3>2, <3>3, AuthStays
  <2> QED
    BY <1>0, <2>1
<1>2. ASSUME NEW w \in Fleet, Wallet(w) PROVE Authorized'
  <2>1. run.phase = "fleet" /\ UNCHANGED <<time, setup, signer, killed, drops, run, sim>>
    BY <1>2, WalletInFleet
  <2>2. ASSUME NEW v \in Fleet \ {w}, pc'[v] \in Asked PROVE Auth(v)'
    <3>1. pc'[v] = pc[v] /\ signed'[v] = signed[v]
      BY <1>2, WalletAlone
    <3> QED
      BY <1>0, <2>1, <2>2, <3>1, AuthStays
  <2>3. Auth(w)' => Authorized'
    BY <1>0, <2>2
  <2>4. pc'[w] \notin Asked => Authorized'
    BY <1>0, <2>2
  <2>5. pc \in [Fleet -> Places] /\ signed = [v \in Fleet |-> signed[v]]
    BY DEF Typed, TypeOK, Shapes, Places
  <2>6. Price' = Price /\ Tx(w)' = Tx(w) /\ (Family' <=> Family)
    BY <2>1 DEF Price, Tx, Family
  <2>7. Fails(w) => Authorized'
    BY <2>4, <2>5 DEF Fails, Goes, Asked
  <2>8. CASE StartLane(w) \/ Prepare(w) \/ EnterGate(w)
    <3>1. Fails(w) \/ \E p \in {"killed", "failed", "recheck", "skipped", "gate", "reserved"} : Goes(w, p)
      BY <2>8 DEF StartLane, Prepare, EnterGate
    <3> QED
      BY <2>4, <2>5, <2>7, <3>1 DEF Goes, Asked
  <2>9. CASE RequestSignature(w)
    <3>1. CASE /\ MaySign(Tx(w), run.drop.recipient)
               /\ Goes(w, IF Family THEN "authority" ELSE "signing")
               /\ signed' = [signed EXCEPT ![w] = [at |-> time]]
      <4>1. signed'[w] = [at |-> time] /\ pc'[w] = IF Family THEN "authority" ELSE "signing"
        BY <2>5, <3>1 DEF Goes
      <4>2. signed'[w].at = time
        BY <4>1
      <4>3. setup.custody # "local" => Price = 0 /\ Current(signer.record)
        BY <3>1, RequestAllowed
      <4> QED
        BY <2>1, <2>3, <2>6, <4>1, <4>2, <4>3 DEF Auth, Current
    <3> QED
      BY <2>7, <2>9, <3>1 DEF RequestSignature
  <2>10. CASE CheckAuthority(w)
    <3>1. CASE Goes(w, "ready") /\ UNCHANGED signed /\ \E view \in Views : AuthorityHolds(view, Tx(w))
      <4>1. pc'[w] = "ready" /\ signed'[w] = signed[w] /\ pc[w] = "authority"
        BY <2>5, <2>10, <3>1 DEF Goes, CheckAuthority
      <4>2. PICK view \in Views : RecipientAllowed(view, Tx(w))
        BY <3>1 DEF AuthorityHolds, PublicAuthority, AllowlistAuthority
      <4>3. PICK i \in DOMAIN drops : view = drops[i]
        BY DEF Views
      <4>4. Auth(w)
        BY <1>0, <2>1, <4>1 DEF Asked
      <4>5. \E j \in DOMAIN drops' : RecipientAllowed(drops'[j], Tx(w))
        BY <2>1, <4>2, <4>3
      <4> QED
        BY <2>1, <2>3, <2>6, <4>1, <4>4, <4>5 DEF Auth, RecipientAllowed
    <3> QED
      BY <2>7, <2>10, <3>1 DEF CheckAuthority
  <2>11. CASE ConfirmReady(w)
    <3>1. CASE StillReady(w) /\ Goes(w, "signing") /\ signed' = [signed EXCEPT ![w].at = time]
      <4>1. pc'[w] = "signing" /\ pc[w] = "ready"
        BY <2>5, <2>11, <3>1 DEF Goes, ConfirmReady
      <4>2. Auth(w)
        BY <1>0, <2>1, <4>1 DEF Asked
      <4>3. signed'[w] = [at |-> time]
        <5>1. signed[w] = [at |-> signed[w].at]
          BY <4>1, <4>2 DEF Auth
        <5>2. signed'[w] = [signed[w] EXCEPT !.at = time]
          BY <2>5, <3>1
        <5> QED
          BY <5>1, <5>2
      <4>4. signed'[w].at = time
        BY <4>3
      <4>5. Current(signer.record) /\ time - sim[w] <= Fresh /\ (setup.chain # "ethereum" => time < GrantUntil)
        BY <3>1 DEF StillReady, FreshSimulation, ChainPolicy
      <4>6. Family => \E i \in DOMAIN drops' : RecipientAllowed(drops'[i], Tx(w))
        BY <2>1, <4>1, <4>2 DEF Auth
      <4> QED
        BY <2>1, <2>3, <2>6, <4>1, <4>2, <4>3, <4>4, <4>5, <4>6 DEF Auth, Current, RecipientAllowed
    <3> QED
      BY <2>7, <2>11, <3>1 DEF ConfirmReady
  <2>12. CASE /\ pc[w] \in {"signing", "signed"} /\ \E p \in {"signed", "sent"} : Goes(w, p)
              /\ signed'[w].at = signed[w].at
    <3>1. pc'[w] \in {"signed", "sent"}
      BY <2>5, <2>12 DEF Goes
    <3>2. Auth(w)
      BY <1>0, <2>1, <2>12 DEF Asked
    <3>3. Family => \E i \in DOMAIN drops' : RecipientAllowed(drops'[i], Tx(w))
      BY <2>1, <2>12, <3>2 DEF Auth
    <3> QED
      BY <2>1, <2>3, <2>6, <2>12, <3>1, <3>2, <3>3 DEF Auth, RecipientAllowed
  <2>13. CASE ProviderSigns(w)
    <3>1. \/ Fails(w)
          \/ \E k, t : Goes(w, "signed") /\ signed' = [signed EXCEPT ![w] = [at |-> signed[w].at, key |-> k, tx |-> t]]
      BY <2>13 DEF ProviderSigns
    <3>2. ASSUME NEW k, NEW t, signed' = [signed EXCEPT ![w] = [at |-> signed[w].at, key |-> k, tx |-> t]]
          PROVE  signed'[w].at = signed[w].at
      <4>1. signed'[w] = [at |-> signed[w].at, key |-> k, tx |-> t]
        BY <2>5, <3>2
      <4> QED
        BY <4>1
    <3> QED
      BY <2>7, <2>12, <2>13, <3>1, <3>2 DEF ProviderSigns
  <2>14. CASE Broadcast(w)
    BY <2>7, <2>12, <2>14 DEF Broadcast
  <2> QED
    BY <1>2, <2>8, <2>9, <2>10, <2>11, <2>13, <2>14 DEF Wallet
<1> QED
  BY <1>1, <1>2

\* What a wallet has signed is its own transaction, by the key the owner approved.
LEMMA KeptStep == Typed /\ Prepared /\ Kept /\ [Next]_vars => Kept'
<1> SUFFICES ASSUME Typed, Prepared, Kept, [Next]_vars, NEW w \in Fleet, HasSigned(w)'
             PROVE  LET s == signed'[w] IN
                    /\ s.tx.price = Price' /\ s.tx.gas = Gas[w] /\ s.tx.recipient = run'.drop.recipient
                    /\ s.key = s.tx.from
                    /\ setup'.select => s.key = setup'.expected[w]
  BY DEF Kept
<1>0. pc'[w] \in {"signed", "sent"}
  BY DEF HasSigned
<1>1. ASSUME pc'[w] = pc[w], signed'[w] = signed[w], UNCHANGED setup, run'.drop = run.drop
      PROVE  LET s == signed'[w] IN
             /\ s.tx.price = Price' /\ s.tx.gas = Gas[w] /\ s.tx.recipient = run'.drop.recipient
             /\ s.key = s.tx.from
             /\ setup'.select => s.key = setup'.expected[w]
  BY <1>0, <1>1, SamePrices DEF Kept, HasSigned
<1>2. CASE ~ \E v \in Fleet : Wallet(v)
  <2>1. run.phase \notin Prior
    BY <1>0, <1>2, QuietSteps
  <2> QED
    BY <1>1, <1>2, <2>1, QuietSteps
<1>3. ASSUME NEW v \in Fleet, v # w, Wallet(v) PROVE pc'[w] = pc[w] /\ signed'[w] = signed[w]
  BY <1>3, WalletAlone
<1>4. CASE Wallet(w)
  <2>1. run.phase = "fleet" /\ UNCHANGED <<setup, signer, run>>
    BY <1>4, WalletInFleet
  <2>2. pc \in [Fleet -> Places] /\ signed = [v \in Fleet |-> signed[v]]
    BY DEF Typed, TypeOK, Shapes, Places
  <2>3. ~Fails(w)
    BY <1>0, <2>2 DEF Fails, Goes
  <2>4. \A p : Goes(w, p) => p \in {"signed", "sent"}
    BY <1>0, <2>2 DEF Goes
  <2>5. ProviderSigns(w) \/ Broadcast(w)
    BY <1>4, <2>3, <2>4 DEF Wallet, StartLane, Prepare, EnterGate, RequestSignature, CheckAuthority, ConfirmReady
  <2>6. CASE Broadcast(w)
    <3>1. pc[w] = "signed" /\ UNCHANGED signed
      BY <2>3, <2>6 DEF Broadcast
    <3> QED
      BY <2>1, <3>1, SamePrices DEF Kept, HasSigned
  <2>7. CASE ProviderSigns(w)
    <3>1. PICK k, t : /\ AnswerMatches([key |-> k, tx |-> t], Tx(w))
                      /\ signed' = [signed EXCEPT ![w] = [at |-> signed[w].at, key |-> k, tx |-> t]]
      BY <2>3, <2>7 DEF ProviderSigns
    <3>2. k = Tx(w).from /\ t = Tx(w)
      BY <3>1 DEF AnswerMatches
    <3>3. signed'[w].key = Tx(w).from /\ signed'[w].tx = Tx(w)
      BY <2>2, <3>1, <3>2
    <3>4. /\ Tx(w).from = signer.wallets[w] /\ Tx(w).price = Price /\ Tx(w).gas = Gas[w]
          /\ Tx(w).recipient = run.drop.recipient
      BY DEF Tx
    <3>5. setup.select => signer.wallets = setup.expected
      BY <2>1 DEF Prepared, Armed, FleetSelected
    <3> QED
      BY <2>1, <3>3, <3>4, <3>5, SamePrices
  <2> QED
    BY <2>5, <2>6, <2>7
<1> QED
  BY <1>1, <1>2, <1>3, <1>4, WalletInFleet

-----------------------------------------------------------------------------
(* The caps of a run                                                       *)

\* The last wallet admitted left the caps whole, so all of them together do: what
\* stands before it in the fleet's order is everything else that was admitted.
LEMMA AdmittedFits ==
  ASSUME Typed, run.drop.price \in Nat, NEW funded, NEW S \in SUBSET Fleet, Admitted(S, funded)
  PROVE  CapsOk(S)
<1> DEFINE f == [w \in Fleet |-> Preflight(w)]
<1>1. Price \in Nat /\ \A w \in Fleet : Preflight(w) \in Nat
  BY AmountsType
<1>2. PICK n \in Nat : Fleet = 1 .. n
  BY MintAssumption DEF Fleet
<1>3. IsFiniteSet(S) /\ Cardinality(S) \in Nat
  <2>1. IsFiniteSet(1 .. n)
    BY FS_Interval
  <2> QED
    BY <1>2, <2>1, FS_Subset, FS_CardinalityType
<1>4. \A w \in S : sim[w] >= 0 /\ Fits(w, S \intersect 1 .. w - 1)
  BY DEF Admitted
<1>5. \A w \in S : f[w] \in Nat /\ f[w] = Preflight(w)
  BY <1>1
<1>6. \A T : Total(f, T) = SumOf(f, T)
  BY DEF Total, SumOf
<1>7. Total(f, S) \in Nat /\ Total(f, {}) = 0
  BY <1>3, <1>5, <1>6, SumType
<1>8. PeriodCap \in Nat /\ RunValueCap \in Nat
  BY MintAssumption
<1>9. CASE S = {}
  <2>1. Cardinality(S) = 0 /\ Price * 0 = 0
    BY <1>1, <1>9, FS_EmptySet
  <2> HIDE DEF f
  <2>2. Total(f, S) <= PeriodCap /\ Price * Cardinality(S) <= RunValueCap
    BY <1>7, <1>8, <1>9, <2>1
  <2> QED
    BY <1>4, <2>2 DEF CapsOk, f
<1>10. CASE S # {}
  <2>1. PICK m \in S : \A w \in S : w <= m
    <3>1. S \in SUBSET (0 .. n)
      BY <1>2
    <3> QED
      BY <1>10, <3>1, LargestOf
  <2>2. S \intersect 1 .. m - 1 = S \ {m}
    <3>1. \A w \in S : w \in Int /\ w >= 1 /\ w <= m
      BY <1>2, <2>1
    <3>2. \A w \in S : w \in 1 .. m - 1 <=> w # m
      BY <3>1
    <3> QED
      BY <3>2
  <2>3. Fits(m, S \ {m})
    BY <1>4, <2>1, <2>2
  <2>4. Cardinality(S) = Cardinality(S \ {m}) + 1 /\ Cardinality(S \ {m}) \in Nat
    BY <1>3, <2>1, FS_RemoveElement, FS_Subset, FS_CardinalityType
  <2>5. \A c \in Nat : Price * (c + 1) = Price * c + Price
    BY <1>1
  <2> HIDE DEF f
  <2>6. SumOf(f, S) = f[m] + SumOf(f, S \ {m})
    BY <1>3, <1>5, <2>1, SumTakes
  <2>7. Total(f, S) = Preflight(m) + Total(f, S \ {m})
    BY <1>5, <1>6, <2>1, <2>6
  <2>8. SumOf(f, S \ {m}) \in Nat
    <3>1. IsFiniteSet(S \ {m}) /\ \A x \in S \ {m} : f[x] \in Nat
      BY <1>3, <1>5, FS_Subset
    <3> QED
      BY <3>1, SumType
  <2>9. Free => Total(f, S) <= PeriodCap
    BY <1>1, <1>6, <2>1, <2>3, <2>7, <2>8 DEF Fits, f
  <2>10. ~Free => Price * Cardinality(S) <= RunValueCap
    BY <2>3, <2>4, <2>5 DEF Fits
  <2> QED
    BY <1>4, <2>9, <2>10 DEF CapsOk, f
<1> QED
  BY <1>9, <1>10

LEMMA CapsStep == Typed /\ Prepared /\ WithinCaps /\ [Next]_vars => WithinCaps'
<1> SUFFICES ASSUME Typed, Prepared, WithinCaps, [Next]_vars, run'.phase \in {"broadcaster", "fleet"}
             PROVE  CapsOk(run.admitted)'
  BY DEF WithinCaps
<1>0. run = [phase |-> run.phase, drop |-> run.drop, admitted |-> run.admitted, at |-> run.at]
  BY DEF Typed, Shapes
<1>1. UNCHANGED setup
  BY SignerSteps
<1>2. ASSUME UNCHANGED sim, run'.drop = run.drop, NEW S \in SUBSET Fleet, CapsOk(S), run'.admitted = S
      PROVE  CapsOk(run.admitted)'
  <2>1. /\ Price' = Price /\ (Free' <=> Free)
        /\ \A w \in Fleet : Preflight(w)' = Preflight(w)
    BY <1>1, <1>2, SamePrices
  <2>2. [w \in Fleet |-> Preflight(w)]' = [w \in Fleet |-> Preflight(w)]
    BY <2>1
  <2> QED
    BY <1>2, <2>1, <2>2 DEF CapsOk
<1>3. CASE run.phase \in {"broadcaster", "fleet"} /\ UNCHANGED sim /\ run'.drop = run.drop
           /\ run'.admitted = run.admitted
  <2>1. CapsOk(run.admitted) /\ run.admitted \in SUBSET Fleet
    BY <1>3 DEF WithinCaps, Typed, TypeOK
  <2> QED
    BY <1>2, <1>3, <2>1
<1>4. CASE UNCHANGED <<run, sim>>
  BY <1>3, <1>4
<1>5. CASE Preparation
  <2>1. CASE Admit
    <3>1. PICK funded, S \in SUBSET Fleet :
             Admitted(S, funded) /\ run' = [run EXCEPT !.phase = "broadcaster", !.admitted = S]
      <4>1. ~Throw
        BY <1>0 DEF Throw, Ended
      <4> QED
        BY <2>1, <4>1 DEF Admit
    <3>2. run'.admitted = S /\ run'.drop = run.drop
      BY <1>0, <3>1
    <3>3. run.drop.price \in Nat
      BY <2>1 DEF Admit, InPhase, Prepared, Armed
    <3>4. CapsOk(S)
      BY <3>1, <3>3, AdmittedFits
    <3> QED
      BY <1>2, <2>1, <3>2, <3>4 DEF Admit
  <2>2. CASE CreateBroadcaster
    <3>1. run' = [run EXCEPT !.phase = "fleet", !.at = time]
      <4>1. ~Throw
        BY <1>0 DEF Throw, Ended
      <4> QED
        BY <2>2, <4>1 DEF CreateBroadcaster
    <3>2. run'.admitted = run.admitted /\ run'.drop = run.drop
      BY <1>0, <3>1
    <3> QED
      BY <1>3, <2>2, <3>2 DEF CreateBroadcaster, InPhase
  <2>3. CASE LoadWallets
    BY <1>4, <2>3 DEF LoadWallets
  <2>4. ~(Ended("failed") \/ Ended("done"))
    BY <1>0 DEF Ended
  <2>5. \A p \in {"drop", "simulate", "load", "admit"} : \A d :
          /\ run' # [run EXCEPT !.phase = p] /\ run' # [run EXCEPT !.phase = p, !.drop = d]
    BY <1>0
  <2> QED
    BY <1>5, <2>1, <2>2, <2>3, <2>4, <2>5
    DEF Preparation, StopPrepared, CheckPolicy, ReadDrop, SelectFleet, Simulate, Complete, Throw, Advance
<1>6. ASSUME NEW w \in Fleet, Wallet(w) PROVE CapsOk(run.admitted)'
  BY <1>4, <1>6, WalletInFleet
<1>7. Environment \/ Rereads \/ UNCHANGED vars => UNCHANGED <<run, sim>>
  BY DEF vars, Environment, Tick, Kill, EditDrop, OwnerWrites, Rereads, RereadAnswers, RereadFails, Reread, UnchangedRun
<1> QED
  BY <1>4, <1>5, <1>6, <1>7 DEF Next, Finished

\* A wallet that moves was admitted, and no wallet is turned away late.
LEMMA WalletMoves ==
  ASSUME Typed, NEW w \in Fleet, Wallet(w)
  PROVE  pc[w] \notin {"skipped", "capped"} /\ pc'[w] # "capped"
<1>1. pc \in [Fleet -> Places]
  BY DEF Typed, TypeOK, Places
<1>2. Fails(w) => pc'[w] = "failed"
  BY <1>1 DEF Fails, Goes
<1>3. \A p : Goes(w, p) => pc'[w] = p
  BY <1>1 DEF Goes
<1> QED
  BY <1>2, <1>3 DEF Wallet, StartLane, Prepare, EnterGate, RequestSignature, CheckAuthority, ConfirmReady,
                    ProviderSigns, Broadcast

LEMMA TurnedStep == Typed /\ Prepared /\ TurnedAway /\ [Next]_vars => TurnedAway'
<1> SUFFICES ASSUME Typed, Prepared, TurnedAway, [Next]_vars, run'.phase \in {"broadcaster", "fleet"}, NEW w \in Fleet
             PROVE  Turned(w)'
  BY DEF TurnedAway
<1>0. run = [phase |-> run.phase, drop |-> run.drop, admitted |-> run.admitted, at |-> run.at]
  BY DEF Typed, Shapes
<1>1. UNCHANGED setup
  BY SignerSteps
<1>2. ASSUME run'.drop = run.drop, NEW S PROVE Fits(w, S)' <=> Fits(w, S)
  <2>1. /\ Price' = Price /\ (Free' <=> Free)
        /\ \A v \in Fleet : Preflight(v)' = Preflight(v)
    BY <1>1, <1>2, SamePrices
  <2>2. [v \in Fleet |-> Preflight(v)]' = [v \in Fleet |-> Preflight(v)]
    BY <2>1
  <2> QED
    BY <2>1, <2>2 DEF Fits
<1>3. ASSUME run.phase \in {"broadcaster", "fleet"}, run'.drop = run.drop, run'.admitted = run.admitted,
             \/ pc'[w] = pc[w]
             \/ pc[w] \notin {"skipped", "capped"} /\ pc'[w] # "capped"
      PROVE  Turned(w)'
  <2>1. Turned(w)
    BY <1>3 DEF TurnedAway
  <2>2. PICK S : S = {v \in run.admitted : v < w}
    OBVIOUS
  <2>3. Fits(w, S)' <=> Fits(w, S)
    BY <1>2, <1>3
  <2> QED
    BY <1>3, <2>1, <2>2, <2>3 DEF Turned
<1>4. CASE UNCHANGED <<run, pc>>
  BY <1>3, <1>4
<1>5. CASE Admit
  <2>1. PICK funded, S \in SUBSET Fleet :
           run' = [run EXCEPT !.phase = "broadcaster", !.admitted = S] /\ pc' = PlacesOf(S, funded)
    <3>1. ~Throw
      BY <1>0 DEF Throw, Ended
    <3> QED
      BY <1>5, <3>1 DEF Admit, PlacesOf
  <2>2. run'.admitted = S /\ run'.drop = run.drop
    BY <1>0, <2>1
  <2>3. pc'[w] = IF w \in S THEN "idle" ELSE IF Capped(w, S, funded) THEN "capped" ELSE "skipped"
    BY <2>1 DEF PlacesOf
  <2>4. S \intersect 1 .. w - 1 = {v \in S : v < w}
    <3>1. PICK n \in Nat : Fleet = 1 .. n
      BY MintAssumption DEF Fleet
    <3>2. w \in Int /\ \A v \in S : v \in Int /\ v >= 1
      BY <2>1, <3>1
    <3>3. \A v \in S : v \in 1 .. w - 1 <=> v < w
      BY <3>1, <3>2
    <3> QED
      BY <3>3
  <2>5. pc'[w] = "capped" => ~Fits(w, {v \in S : v < w})
    BY <2>3, <2>4 DEF Capped
  <2> DEFINE T == {v \in S : v < w}
  <2>6. Fits(w, T)' <=> Fits(w, T)
    <3> HIDE DEF T
    <3> QED
      BY <1>2, <2>2
  <2> QED
    BY <2>2, <2>3, <2>5, <2>6 DEF Turned
<1>6. CASE CreateBroadcaster
  <2>1. run' = [run EXCEPT !.phase = "fleet", !.at = time]
    <3>1. ~Throw
      BY <1>0 DEF Throw, Ended
    <3> QED
      BY <1>6, <3>1 DEF CreateBroadcaster
  <2>2. run'.admitted = run.admitted /\ run'.drop = run.drop
    BY <1>0, <2>1
  <2> QED
    BY <1>3, <1>6, <2>2 DEF CreateBroadcaster, InPhase, UnchangedSetup, walletVars
<1>7. CASE Preparation
  <2>1. CASE LoadWallets
    BY <1>4, <2>1 DEF LoadWallets, walletVars
  <2>2. ~(Ended("failed") \/ Ended("done"))
    BY <1>0 DEF Ended
  <2>3. \A p \in {"drop", "simulate", "load", "admit"} : \A d :
          /\ run' # [run EXCEPT !.phase = p] /\ run' # [run EXCEPT !.phase = p, !.drop = d]
    BY <1>0
  <2> QED
    BY <1>5, <1>6, <1>7, <2>1, <2>2, <2>3
    DEF Preparation, StopPrepared, CheckPolicy, ReadDrop, SelectFleet, Simulate, Complete, Throw, Advance
<1>8. ASSUME NEW v \in Fleet, Wallet(v) PROVE Turned(w)'
  <2>1. run.phase = "fleet" /\ UNCHANGED run
    BY <1>8, WalletInFleet
  <2>2. v # w => pc'[w] = pc[w]
    BY <1>8, WalletAlone
  <2> QED
    BY <1>3, <1>8, <2>1, <2>2, WalletMoves
<1>9. Environment \/ Rereads \/ UNCHANGED vars => UNCHANGED <<run, pc>>
  BY DEF vars, Environment, Tick, Kill, EditDrop, OwnerWrites, Rereads, RereadAnswers, RereadFails, Reread, UnchangedRun,
         walletVars
<1> QED
  BY <1>4, <1>7, <1>8, <1>9 DEF Next, Finished

-----------------------------------------------------------------------------
(* The invariants                                                          *)

IInv ==
  /\ Typed /\ SignerOk /\ Prepared /\ StopOk /\ GateOk
  /\ Authorized /\ Kept /\ WithinCaps /\ TurnedAway

LEMMA InvInit == Init => IInv
<1> SUFFICES ASSUME Init PROVE IInv
  OBVIOUS
<1> USE DEF Init
<1>0. /\ setup \in Setups /\ setup.drop \in DropStates
      /\ \A w \in Fleet : pc[w] = "out" /\ asked[w] = -1 /\ reserved[w] = 0
      /\ run.phase = "policy" /\ gate = 0 /\ signer = NoSigner
  BY SetupAssumption
<1>1. Typed
  <2>1. files \in [map : WalletMaps \union {NoMap}, active : Digests \union {NoRecord},
                  catalog : SUBSET Digests, writes : Nat]
    <3>1. setup.files = NoFiles \/ setup.files \in Bundles
      BY <1>0, SetupAssumption
    <3> QED
      BY <3>1 DEF NoFiles, Bundles
  <2>2. files.active \in Digests \union {NoRecord} /\ files.catalog \subseteq Digests
    BY <2>1
  <2>3. time \in Times
    BY PolicyAssumption DEF Times
  <2> QED
    BY <1>0, <2>1, <2>2, <2>3 DEF Typed, TypeOK, Shapes, NoSigner, Over
<1>2. SignerOk
  BY <1>0 DEF SignerOk, Custody, SignerIsBound, NoSigner
<1>3. Prepared
  BY <1>0 DEF Prepared, Prior, Armed, FleetSelected
<1>4. StopOk
  BY <1>0 DEF StopOk, Stopped, StaysStopped
<1>5. GateOk
  BY <1>0 DEF GateOk, OneInGate, Reservations, Holding, Gated
<1>6. Authorized /\ Kept /\ WithinCaps /\ TurnedAway
  BY <1>0 DEF Authorized, Kept, WithinCaps, TurnedAway, HasSigned, Asked
<1> QED
  BY <1>1, <1>2, <1>3, <1>4, <1>5, <1>6 DEF IInv

LEMMA InvStep == IInv /\ [Next]_vars => IInv'
BY TypeStep, SignerStep, PreparedStep, StopStep, GateStep, AuthorizedStep, KeptStep, CapsStep, TurnedStep DEF IInv

LEMMA Invariance == Spec => []IInv
<1>1. Init => IInv
  BY InvInit
<1>2. IInv /\ [Next]_vars => IInv'
  BY InvStep
<1> QED
  BY <1>1, <1>2, PTL DEF Spec

\* In its fleet's phase or after it a wallet holds its key's transaction, paid for by
\* its reservation, and nobody else is behind the gate.
LEMMA InvSigned == IInv => SignedAsApproved
<1> SUFFICES ASSUME IInv, NEW w \in Fleet, HasSigned(w)
             PROVE  LET s == signed[w] IN
    /\ reserved[w] >= s.tx.price + s.tx.gas * ReserveFee
    /\ s.key = s.tx.from /\ s.tx.recipient = run.drop.recipient
    /\ setup.select => s.key = setup.expected[w]
    /\ signer.record # NoRecord =>
         /\ PolicyRecord[signer.record].issuedAt <= s.at /\ s.at < PolicyRecord[signer.record].expiresAt
         /\ s.tx.price = 0
    /\ run.phase = "fleet" /\ Family =>
         /\ s.at - sim[w] <= Fresh
         /\ setup.chain # "ethereum" => s.at < GrantUntil
         /\ \E i \in DOMAIN drops : RecipientAllowed(drops[i], s.tx)
    /\ \A v \in Fleet \ {w} : pc[w] = "signed" => pc[v] \notin {"reserved", "authority", "ready", "signing", "signed"}
  BY DEF SignedAsApproved
<1>0. Typed /\ SignerOk /\ Prepared /\ GateOk /\ Authorized /\ Kept
  BY DEF IInv
<1>1. pc[w] \in {"signed", "sent"}
  BY DEF HasSigned
<1>2. run.phase \in {"fleet", "done"}
  BY <1>0, <1>1 DEF Typed, TypeOK, Prepared, Prior
<1>3. run.drop.price \in Nat
  BY <1>0, <1>2 DEF Prepared, Armed
<1>4. /\ signed[w].tx.price = Price /\ signed[w].tx.gas = Gas[w]
      /\ signed[w].tx.recipient = run.drop.recipient /\ signed[w].key = signed[w].tx.from
      /\ setup.select => signed[w].key = setup.expected[w]
  BY <1>0 DEF Kept
<1>5. reserved[w] >= Price + WorstGas(w)
  <2>1. reserved[w] = Price + Reserve(w)
    BY <1>0, <1>1 DEF GateOk, Reservations, Holding, Gated
  <2>2. Price \in Nat /\ Reserve(w) \in Nat /\ WorstGas(w) \in Nat /\ WorstGas(w) <= Reserve(w)
    BY <1>0, <1>3, AmountsType
  <2> QED
    BY <2>1, <2>2
<1>6. WorstGas(w) = signed[w].tx.gas * ReserveFee
  BY <1>4 DEF WorstGas
<1>7. ASSUME signer.record # NoRecord
      PROVE  /\ PolicyRecord[signer.record].issuedAt <= signed[w].at
             /\ signed[w].at < PolicyRecord[signer.record].expiresAt
             /\ Price = 0
  <2>1. run.phase = "fleet"
    BY <1>0, <1>2, <1>7 DEF Prepared, Zeroized, NoSigner
  <2>2. setup.custody # "local"
    BY <1>0, <1>7 DEF SignerOk, Custody
  <2> QED
    BY <1>0, <1>1, <2>1, <2>2 DEF Authorized, Auth, Asked
<1>8. ASSUME run.phase = "fleet", Family
      PROVE  /\ signed[w].at - sim[w] <= Fresh
             /\ setup.chain # "ethereum" => signed[w].at < GrantUntil
             /\ \E i \in DOMAIN drops : RecipientAllowed(drops[i], signed[w].tx)
  <2>1. PICK i \in DOMAIN drops : RecipientAllowed(drops[i], Tx(w))
    BY <1>0, <1>1, <1>8 DEF Authorized, Auth, Asked
  <2>2. Tx(w).recipient = signed[w].tx.recipient
    BY <1>4 DEF Tx
  <2>3. RecipientAllowed(drops[i], signed[w].tx)
    BY <2>1, <2>2 DEF RecipientAllowed
  <2> QED
    BY <1>0, <1>1, <1>8, <2>3 DEF Authorized, Auth, Asked
<1>9. \A v \in Fleet \ {w} : pc[w] = "signed" => pc[v] \notin {"reserved", "authority", "ready", "signing", "signed"}
  BY <1>0 DEF GateOk, OneInGate, Gated
<1> HIDE DEF Price
<1> QED
  BY <1>4, <1>5, <1>6, <1>7, <1>8, <1>9

\* What is reserved at the ceiling fee is the preflight amount at another fee, but for
\* Base's bound.
LEMMA ReserveScales ==
  ASSUME Typed, run.drop.price \in Nat, NEW w \in Fleet
  PROVE  FirstFee * Reserve(w) = ReserveFee * Preflight(w) + (IF setup.chain = "base" THEN FirstFee ELSE 0)
<1>1. setup.chain \in {"ethereum", "base", "robinhood"}
  BY SetupAssumption DEF Typed, TypeOK
<1>2. Gas[w] \in Nat /\ FirstFee \in Nat /\ ReserveFee \in Nat
  BY AmountsType, MintAssumption
<1>3. PICK d \in Nat : d = (Gas[w] + 15) \div 16
  BY <1>2
<1> HIDE DEF ReserveFee
<1>4. CASE setup.chain = "ethereum"
  <2>1. Reserve(w) = Gas[w] * ReserveFee + 0 /\ Preflight(w) = Gas[w] * FirstFee + 0
    BY <1>4 DEF Reserve, WorstGas, Preflight, Extra
  <2>2. \A g, f, r \in Nat : f * (g * r + 0) = r * (g * f + 0) + 0
    OBVIOUS
  <2> QED
    BY <1>2, <1>4, <2>1, <2>2
<1>5. CASE setup.chain = "base"
  <2>1. Reserve(w) = Gas[w] * ReserveFee + 1 /\ Preflight(w) = Gas[w] * FirstFee + 0
    BY <1>5 DEF Reserve, WorstGas, Preflight, Extra
  <2>2. \A g, f, r \in Nat : f * (g * r + 1) = r * (g * f + 0) + f
    OBVIOUS
  <2> QED
    BY <1>2, <1>5, <2>1, <2>2
<1>6. CASE setup.chain = "robinhood"
  <2>1. Reserve(w) = Gas[w] * ReserveFee + d * ReserveFee /\ Preflight(w) = Gas[w] * FirstFee + d * FirstFee
    BY <1>3, <1>6 DEF Reserve, WorstGas, Preflight, Extra
  <2>2. \A g, e, f, r \in Nat : f * (g * r + e * r) = r * (g * f + e * f) + 0
    OBVIOUS
  <2> QED
    BY <1>2, <1>3, <1>6, <2>1, <2>2
<1> QED
  BY <1>1, <1>4, <1>5, <1>6

\* So all that the admitted wallets of a free mint reserve is bounded by the cap at that fee.
LEMMA ReservedTogether ==
  ASSUME Typed, GateOk, run.drop.price \in Nat, Free, CapsOk(run.admitted)
  PROVE  FirstFee * Total(reserved, run.admitted)
           <= ReserveFee * PeriodCap
              + (IF setup.chain = "base" THEN FirstFee ELSE 0) * Cardinality(run.admitted)
<1> DEFINE S == run.admitted
           f == reserved
           g == [w \in Fleet |-> Preflight(w)]
           c == IF setup.chain = "base" THEN FirstFee ELSE 0
<1>1. /\ FirstFee \in Nat /\ ReserveFee \in Nat /\ PeriodCap \in Nat /\ c \in Nat
  BY AmountsType, MintAssumption
<1>2. S \in SUBSET Fleet /\ IsFiniteSet(S)
  <2>1. PICK n \in Nat : Fleet = 1 .. n
    BY MintAssumption DEF Fleet
  <2>2. IsFiniteSet(1 .. n)
    BY FS_Interval
  <2> QED
    BY <2>1, <2>2, FS_Subset DEF Typed, TypeOK
<1>3. \A x \in S : f[x] \in Nat /\ g[x] \in Nat
  BY <1>2, AmountsType DEF Typed, TypeOK
<1>4. ASSUME NEW x \in S PROVE FirstFee * f[x] <= ReserveFee * g[x] + c
  <2>1. g[x] = Preflight(x) /\ Preflight(x) \in Nat /\ Reserve(x) \in Nat
    BY <1>2, AmountsType
  <2>2. FirstFee * Reserve(x) = ReserveFee * Preflight(x) + c
    BY <1>2, ReserveScales
  <2>3. f[x] = 0 \/ f[x] = Reserve(x)
    <3>1. f[x] = 0 \/ f[x] = 0 + Reserve(x)
      BY <1>2 DEF GateOk, Reservations, Free
    <3> QED
      BY <2>1, <3>1
  <2>4. FirstFee * 0 = 0 /\ FirstFee * Reserve(x) \in Nat
    BY <1>1, <2>1
  <2> HIDE DEF f, g, c
  <2> QED
    BY <2>1, <2>2, <2>3, <2>4
<1>5. SumOf(f, S) \in Nat /\ SumOf(g, S) \in Nat /\ Cardinality(S) \in Nat
  BY <1>2, <1>3, SumType, FS_CardinalityType
<1>6. SumOf(g, S) <= PeriodCap
  BY DEF CapsOk, Total, SumOf
<1> HIDE DEF S, f, g, c
<1>7. FirstFee * SumOf(f, S) <= ReserveFee * SumOf(g, S) + c * Cardinality(S)
  BY <1>1, <1>2, <1>3, <1>4, SumScaled
<1>8. ReserveFee * SumOf(g, S) <= ReserveFee * PeriodCap
  BY <1>1, <1>5, <1>6, TimesMonotone
<1>9. /\ FirstFee * SumOf(f, S) \in Nat /\ ReserveFee * SumOf(g, S) \in Nat
      /\ ReserveFee * PeriodCap \in Nat /\ c * Cardinality(S) \in Nat
  BY <1>1, <1>5
<1>10. FirstFee * SumOf(f, S) <= ReserveFee * PeriodCap + c * Cardinality(S)
  BY <1>7, <1>8, <1>9
<1> QED
  BY <1>10 DEF S, f, c, Total, SumOf

LEMMA InvCaps == IInv => SpendWithinCaps
<1> SUFFICES ASSUME IInv, run.phase = "fleet"
             PROVE  /\ \A w \in Fleet : reserved[w] > 0 => w \in run.admitted /\ sim[w] >= 0
                    /\ \A w \in Fleet : pc[w] = "capped" => ~Fits(w, {v \in run.admitted : v < w})
                    /\ Free => /\ \A w \in Fleet : reserved[w] <= WalletCap
                               /\ FirstFee * Total(reserved, run.admitted)
                                    <= ReserveFee * PeriodCap
                                       + (IF setup.chain = "base" THEN FirstFee ELSE 0) * Cardinality(run.admitted)
                    /\ ~Free => Price * Cardinality(run.admitted) <= RunValueCap
  BY DEF SpendWithinCaps
<1>0. Typed /\ GateOk /\ run.drop.price \in Nat /\ CapsOk(run.admitted) /\ \A w \in Fleet : Turned(w)
  BY DEF IInv, Prepared, Armed, WithinCaps, TurnedAway
<1>1. ASSUME NEW w \in Fleet, reserved[w] > 0 PROVE w \in run.admitted /\ sim[w] >= 0
  <2>1. pc[w] \in Holding
    BY <1>0, <1>1 DEF GateOk, Reservations
  <2>2. w \in run.admitted
    BY <1>0, <2>1 DEF Turned, Holding, Gated
  <2> QED
    BY <1>0, <2>2 DEF CapsOk
<1>2. ASSUME Free, NEW w \in Fleet PROVE reserved[w] <= WalletCap
  <2>1. Reserve(w) \in Nat /\ WalletCap \in Nat
    BY <1>0, AmountsType, MintAssumption
  <2>2. reserved[w] = 0 \/ (reserved[w] = Price + Reserve(w) /\ Reserve(w) <= WalletCap)
    BY <1>0, <1>2 DEF GateOk, Reservations
  <2>3. Price = 0
    BY <1>2 DEF Free
  <2> QED
    BY <2>1, <2>2, <2>3
<1>3. \A w \in Fleet : pc[w] = "capped" => ~Fits(w, {v \in run.admitted : v < w})
  BY <1>0 DEF Turned
<1>4. ~Free => Price * Cardinality(run.admitted) <= RunValueCap
  BY <1>0 DEF CapsOk
<1> QED
  BY <1>0, <1>1, <1>2, <1>3, <1>4, ReservedTogether

\* TypeOK (execute, executeFleet): every variable keeps to the values its part of a run
\* gives it, reservations to amounts.
THEOREM TypesHold == Spec => []TypeOK
<1>1. IInv => TypeOK
  BY DEF IInv, Typed
<1> QED
  BY <1>1, Invariance, PTL

\* Safety (TurnkeySigner.fromSecrets, signWithEvidence, executeFleet): a loaded signer
\* holds the wallets of its record, and what a wallet signs was approved, reserved in
\* full and asked for while record, simulation and grant were current.
THEOREM SafetyHolds == Spec => []Safety
<1>1. IInv => Safety
  BY InvSigned DEF IInv, Typed, SignerOk, Safety
<1> QED
  BY <1>1, Invariance, PTL

\* SpendWithinCaps (execute's admission, the reserve of prepare, validateFreeMintReserve):
\* only admitted wallets reserve, a wallet turned away for a cap did not fit, and what is
\* reserved at the ceiling fee stays, brought back to the first fee, within the run's cap
\* and Base's bounds; no free mint reserves more than a wallet may.
THEOREM CapsStayWhole == Spec => []SpendWithinCaps
<1>1. IInv => SpendWithinCaps
  BY InvCaps
<1> QED
  BY <1>1, Invariance, PTL

\* StaysStopped (createDropRecheck): once a re-read reports a change, no wallet whose own
\* re-read begins later is signed for, whatever the chain shows by then.
THEOREM ChangesStayChanges == Spec => []StaysStopped
<1>1. IInv => StaysStopped
  BY DEF IInv, StopOk
<1> QED
  BY <1>1, Invariance, PTL

=============================================================================
