--------------------------- MODULE MCIntelligence ---------------------------
(***************************************************************************)
(* What the host does on timers of its own, for TLC: the scan, the sweep   *)
(* of readiness, the health checks, the heartbeat and the replication of   *)
(* watched mints.  What one reads of another (the opportunities and their  *)
(* scores, the outcome of a scan) may be anything there, and none waits    *)
(* for another, so a behaviour is one of the five: `part' says which, and  *)
(* the others rest.                                                        *)
(***************************************************************************)
EXTENDS Discovery, Readiness, HealthMonitor, PauseWatch, Replication

VARIABLE part
allVars == <<scanVars, readinessVars, healthVars, pauseVars, repVars, part>>

MintOf == [b \in 1 .. MaxBlock |->
  CASE b = 2 -> "cold" [] b = 4 -> "hot" [] OTHER -> NoMint]

\* Free drops whose gas grows, fits nothing, has a gap or meets the ceiling; paid
\* ones at and above the limit.
Free(per, gas) == [price |-> 0, per |-> per, gas |-> gas]
Paid(price, per) == [price |-> price, per |-> per, gas |-> [q \in 1 .. per |-> 1]]
MCDrops == {Free(3, <<1, 2, 3>>), Paid(2, 0)}
MCCatalogue == MCDrops \union {Paid(2, 1), Paid(9, 1), Free(0, <<>>), Free(2, <<40, 60>>), Free(3, <<2, Unread, 9>>)}
  \union {Free(per, [q \in 1 .. per |-> a * q + b]) : per \in 1 .. 9, a \in 1 .. 2, b \in 0 .. 3}

\* What the scan may know, for the laws of the score, and a few to sweep with.
Prospect(watching, watched, price, pattern, code, mints, age) ==
  [watching |-> watching, watched |-> watched, price |-> price, pattern |-> pattern, code |-> code, mints |-> mints, age |-> age]
MCProspects == {Prospect(TRUE, 3, 0, TRUE, "yes", 50, 0), Prospect(TRUE, 1, 2, TRUE, "yes", 1, 1)}
MCEvidence == {Prospect(watching, watched, price, pattern, code, mints, age) :
  watching \in BOOLEAN, watched \in 0 .. 3, price \in {Unread, 0, 2, 3, 4, 9}, pattern \in BOOLEAN,
  code \in {"yes", "no", "unknown"}, mints \in {0, 1, 10, 50}, age \in 0 .. 24}

ScanPart(A) == part = "scan" /\ A /\ UNCHANGED <<readinessVars, healthVars, pauseVars, repVars, part>>
SweepPart(A) == part = "sweep" /\ A /\ UNCHANGED <<scanVars, healthVars, pauseVars, repVars, part>>
HealthPart(A) == part = "health" /\ A /\ UNCHANGED <<scanVars, readinessVars, pauseVars, repVars, part>>
BeatPart(A) == part = "beat" /\ A /\ UNCHANGED <<scanVars, readinessVars, healthVars, repVars, part>>
CopyPart(A) == part = "copy" /\ A /\ UNCHANGED <<scanVars, readinessVars, healthVars, pauseVars, part>>

AllInit ==
  /\ part \in {"scan", "sweep", "health", "beat", "copy"}
  /\ ScanInit /\ ReadinessInit /\ HealthInit /\ PauseInit /\ ReplicationInit
  /\ part # "sweep" => /\ drop = Paid(2, 0) /\ prospect = CHOOSE p \in Prospects : TRUE
                       /\ passes = {1} /\ purse = [w \in Purses |-> Min(Amounts)] /\ baseFee = Min(BaseFees)
AllNext ==
  \/ ScanPart(ScanNext) \/ SweepPart(ReadinessNext) \/ HealthPart(HealthNext)
  \/ BeatPart(PauseNext) \/ CopyPart(ReplicationNext)

\* The sweep has a timer, and its reads and writes return.
AllSpec ==
  /\ AllInit /\ [][AllNext]_allVars
  /\ WF_scanVars(ScanPart(AnnounceBegin)) /\ WF_scanVars(ScanPart(AnnounceAlert))
  /\ WF_scanVars(ScanPart(AnnounceMark)) /\ WF_scanVars(ScanPart(Tick))
  /\ WF_readinessVars(SweepPart(Sweeping))

\* The stored sweep comes to say what is true, after any failed write, unanswered
\* read or restart (CaughtUp; readiness.ts:87-96 marks before it writes).
SweepCatchesUp == []<>(part = "sweep" => CaughtUp)

\* Safety of the five parts: the scan's reads and marks, what a stored sweep says,
\* the life of a health warning, which pauses are told, and what a watched mint sets off.
AllSafety == ScanSafety /\ ReadinessSafety /\ HealthSafety /\ PauseSafety /\ ReplicationSafety
=============================================================================
