----------------------- MODULE ExecutionControlProofs -----------------------
(***************************************************************************)
(* Proofs about ExecutionControl for every number of runs and executions,  *)
(* every assignment of executions to runs and every bound.                 *)
(***************************************************************************)
EXTENDS ExecutionControl, TLAPS, FiniteSetTheorems

-----------------------------------------------------------------------------
(* The inductive invariant, in parts *)

Admitting == {"arming", "armed", "readiness", "admitted"}
Fleet     == {"engine", "record", "abort", "close"}

(* The engine works only for the request being processed. *)
EngineBelongs ==
  \A e \in Execs : eng[e] # "none" => RunOf[e] = cur /\ pc \in Fleet

(* Nothing of a run that is not there yet, or not yet with the engine, has   *)
(* been sent.                                                                *)
SentIsLate ==
  \A e \in Execs : Sent(e) =>
    /\ run[RunOf[e]] # "None"
    /\ pc \in Admitting => RunOf[e] # cur

RequestHasRun == pc \in (Admitting \cup Fleet) \ {"arming"} => run[cur] # "None"

(* Where a wallet is tells whether its transaction was sent and whether a    *)
(* receipt was seen.                                                         *)
StepTellsSent ==
  \A e \in Execs :
    /\ eng[e] \in {"waiting", "gated", "signed", "sending", "refused"} => ~Sent(e)
    /\ eng[e] \in {"receipt", "success", "reverted"} => HasReceipt(e)

(* A pass holds only receipts that exist. *)
SeenIsMined == \A e \in rec.seen : HasReceipt(e)

BaseParts ==
  /\ EngineBelongs /\ SentIsLate /\ RequestHasRun /\ StepTellsSent
  /\ SeenIsMined /\ SettledIsMined

BaseInv == TypeOK /\ BaseParts

-----------------------------------------------------------------------------
(* What keeps the money of what is sent                                      *)

(* Money can leave a wallet inside the gate only if the kill file is there   *)
(* to stop the send or the run counts as overtaken; past the last check it   *)
(* is held.                                                                  *)
GateKeepsMoney ==
  \A e \in Execs :
    /\ eng[e] \in {"gated", "signed"} => killFile \/ resv[e] = "reserved" \/ RunOf[e] \in overtaken
    /\ eng[e] = "sending" => resv[e] = "reserved" \/ RunOf[e] \in overtaken
    /\ eng[e] \in {"signed", "sending"} => hashed[e]

(* Outside the engine call no wallet is under way. *)
ReturnedIsDone == pc # "engine" => \A e \in Execs : eng[e] \in Outcomes \cup {"none"}

HeldParts == GateKeepsMoney /\ ReturnedIsDone /\ SentIsHeld

HeldInv == BaseInv /\ HeldParts

-----------------------------------------------------------------------------
(* What stops the fleet *)

OneInside ==
  \A e, o \in Execs : eng[e] \in Critical /\ eng[o] \in Critical => e = o

(* After a late send the flag stays set and nobody is on the way to another. *)
LateIsLast ==
  /\ pc = "idle" => late = {}
  /\ \A e \in late :
       /\ killed
       /\ \A o \in late : o = e
       /\ \A o \in Execs : eng[o] \notin {"gated", "signed", "sending"}

FleetParts == OneInside /\ LateIsLast

FleetInv == BaseInv /\ FleetParts

(* With one process and no hasty release no request runs during start-up.    *)
StartIsAlone == boot # "up" => pc = "idle"

(* The copy of the run that admission works on is right unless the kill flag *)
(* is set, and a pass holds receipts of the run it is at only.               *)
CopyIsFresh ==
  /\ pc = "arming" => run[cur] = "None"
  /\ pc = "readiness" /\ ~killed => run[cur] = "Armed"
  /\ killPc = "flagged" => killed

(* What TerminalStays says of one step. *)
RunKept ==
  \A r \in Runs :
    /\ run[r] \in {"Aborted", "Failed"} => run'[r] = run[r]
    /\ run[r] = "Completed" => run'[r] \in {"Completed", "Failed"}

SeenOfRun == \A e \in rec.seen : RunOf[e] = rec.run

FreshParts == CopyIsFresh /\ SeenOfRun /\ StartIsAlone

FreshInv == BaseInv /\ FreshParts

-----------------------------------------------------------------------------
(* What closes runs, and what is known of a run that has ended               *)

(* What is being armed is not in the store yet, and the flag is off when the *)
(* kill file is about to be removed.                                         *)
ArmingIsNew == pc = "arming" => run[cur] = "None"

ReleaseIsOff == killPc = "releasing" => ~killed

CoreParts == ArmingIsNew /\ ReleaseIsOff /\ SeenOfRun

CoreInv == HeldInv /\ CoreParts

(* What is armed and not admitted has no execution row and no signature.     *)
ArmedIsClean == \A e \in Execs : run[RunOf[e]] \in {"None", "Armed"} => exec[e] = "none" /\ ~hashed[e]

(* The engine serves a run that was admitted; no run that was closed as      *)
(* unsent is about to be admitted or has a wallet in the gate, unless it was *)
(* overtaken.                                                                *)
ServedIsAdmitted ==
  /\ pc \in {"admitted", "engine", "record", "abort"} => run[cur] \notin {"None", "Armed"}
  /\ pc = "readiness" => cur \notin closed \ overtaken
  /\ \A e \in Execs : eng[e] = "gated" => RunOf[e] \notin closed \ overtaken

(* Once a kill is through, the only run it can have left open is one armed   *)
(* behind its back, whose request is about to close it.                      *)
KilledIsShut ==
  killed /\ killPc = "idle" /\ crashes = 0 =>
    \A r \in Runs : run[r] \in {"Armed", "Active"} => run[r] = "Armed" /\ r = cur /\ pc \in {"armed", "close"}

ShutParts == ArmedIsClean /\ ServedIsAdmitted /\ KilledIsShut /\ ClosedStaysClosed

ShutInv == CoreInv /\ ShutParts

(* The outcome of a wallet tells what became of its transaction and money,   *)
(* and every wallet of the run has one before the result is recorded.        *)
OutcomeTells ==
  /\ \A e \in Execs :
       /\ eng[e] \in {"unsent", "noid", "failedSigned"} => ~Sent(e)
       /\ eng[e] \in {"success", "reverted"} => resv[e] = "settled"
  /\ pc \in {"engine", "record"} => \A e \in ExecsOf(cur) : eng[e] # "none"
  /\ pc = "record" => \A e \in ExecsOf(cur) : eng[e] \in Outcomes \ {"noid"}

SomeMined(r)    == \E f \in ExecsOf(r) : HasReceipt(f)
SomeReverted(r) == \E f \in ExecsOf(r) : chain[f] = "reverted"

SiblingReverted(e) == \E f \in Execs \ {e} : RunOf[f] = RunOf[e] /\ chain[f] = "reverted"

(* A pass ends a run, and a confirmed result is stored, only when a wallet   *)
(* of it was mined; a pass fails a run only when one was reverted.           *)
EndedIsMined ==
  /\ pc = "engine" /\ run[cur] \in {"Completed", "Failed"} => SomeMined(cur)
  /\ pc = "engine" /\ run[cur] = "Failed" => SomeReverted(cur)
  /\ \A r \in Runs : recon[r] = "confirmed" => SomeMined(r)

(* Nothing of a run that has ended is pending unless a sibling's result      *)
(* ended it; a failed run is done with, or a reverted sibling ended it.      *)
EndedIsResolved ==
  \A e \in Execs :
    /\ chain[e] = "pool" /\ run[RunOf[e]] \in {"Completed", "Failed"} => SiblingMined(e)
    /\ (chain[e] = "pool" \/ (Sent(e) /\ resv[e] = "reserved")) /\ run[RunOf[e]] = "Failed" => SiblingReverted(e)

EndedParts == OutcomeTells /\ EndedIsMined /\ EndedIsResolved

EndedInv == CoreInv /\ EndedParts

-----------------------------------------------------------------------------
(* Types *)

(* Every step of the request handler, of a wallet, of the kill switches, of  *)
(* a reconcile pass and of start-up keeps every variable in its type.        *)
LEMMA TypeStep == TypeOK /\ [Next]_vars => TypeOK'
<1> SUFFICES ASSUME TypeOK, [Next]_vars PROVE TypeOK'
  OBVIOUS
<1> USE DEF TypeOK, ctl, ledger, notes, req, env
<1>1. ASSUME NEW r \in Runs, ArmCheck(r) PROVE TypeOK'
  BY <1>1 DEF ArmCheck, ReqSteps
<1>2. CASE ArmCommit
  BY <1>2 DEF ArmCommit, ReqSteps, RunStates
<1>3. CASE ExecuteCheck
  BY <1>3 DEF ExecuteCheck, ReqSteps
<1>4. CASE ExecuteRefused
  BY <1>4 DEF ExecuteRefused, ReqSteps
<1>5. CASE ExecuteAdmit
  BY <1>5 DEF ExecuteAdmit, ReqSteps, RunStates, ExecStates, ResvStates
<1>6. CASE ExecuteKilledAfterAdmission
  BY <1>6 DEF ExecuteKilledAfterAdmission, ReqSteps, AbortRemaining,
     RunStates, ExecStates, ResvStates
<1>7. CASE EngineStart
  BY <1>7 DEF EngineStart, ReqSteps, EngSteps
<1>8. CASE EngineThrow
  BY <1>8 DEF EngineThrow, ReqSteps, AbortRemaining, RunStates, ExecStates,
     ResvStates
<1>9. CASE EngineReturn
  BY <1>9 DEF EngineReturn, ReqSteps
<1>10. CASE RecordFacts
  <2>1. RecordedState \in RunStates
    BY DEF RecordedState, RunStates
  <2>2. resv' \in [Execs -> ResvStates] /\ exec' \in [Execs -> ExecStates]
    BY <1>10 DEF RecordFacts, SafeMove, Account, ResvStates, ExecStates
  <2>3. run' \in [Runs -> RunStates] /\ facts' \in [Runs -> BOOLEAN] /\ pc' \in ReqSteps
    BY <1>10, <2>1 DEF RecordFacts, ReqSteps
  <2> QED
    BY <1>10, <2>2, <2>3 DEF RecordFacts
<1>11. CASE ExecuteAbort
  BY <1>11 DEF ExecuteAbort, ReqSteps, AbortRemaining, RunStates,
     ExecStates, ResvStates
<1>12. CASE RequestEnd
  <2>1. /\ run' \in [Runs -> RunStates] /\ exec' \in [Execs -> ExecStates]
        /\ resv' \in [Execs -> ResvStates] /\ closed' \in SUBSET Runs
    BY <1>12 DEF RequestEnd, CloseRequest, AbortRunIfUnsent, RunStates, ExecStates, ResvStates
  <2>2. eng' \in [Execs -> EngSteps] /\ pc' \in ReqSteps /\ sawKill' \in BOOLEAN /\ late' \in SUBSET Execs
    BY <1>12 DEF RequestEnd, EngSteps, ReqSteps
  <2> QED
    BY <1>12, <2>1, <2>2 DEF RequestEnd
<1>13. ASSUME NEW e \in Execs, WalletUnsent(e) PROVE TypeOK'
  BY <1>13 DEF WalletUnsent, To, EngSteps, Outcomes
<1>14. ASSUME NEW e \in Execs, WalletGate(e) PROVE TypeOK'
  BY <1>14 DEF WalletGate, To, EngSteps, Critical
<1>15. ASSUME NEW e \in Execs, WalletSignFails(e) PROVE TypeOK'
  BY <1>15 DEF WalletSignFails, To, Release, ResvStates, EngSteps, Outcomes
<1>16. ASSUME NEW e \in Execs, WalletSigned(e) PROVE TypeOK'
  BY <1>16 DEF WalletSigned, To, SafeMove, EngSteps, Critical, ExecStates
<1>17. ASSUME NEW e \in Execs, WalletCheckKill(e) PROVE TypeOK'
  BY <1>17 DEF WalletCheckKill, To, Release, ResvStates, EngSteps, Critical,
     Outcomes
<1>18. ASSUME NEW e \in Execs, WalletSend(e) PROVE TypeOK'
  BY <1>18 DEF WalletSend, To, EngSteps, Critical, Network
<1>19. ASSUME NEW e \in Execs, WalletRefused(e) PROVE TypeOK'
  BY <1>19 DEF WalletRefused, To, Release, StoreAnswer, SafeMove,
     ResvStates, ExecStates, EngSteps, Outcomes
<1>20. ASSUME NEW e \in Execs, WalletAnswer(e) PROVE TypeOK'
  BY <1>20 DEF WalletAnswer, To, KeepForRecovery, StoreAnswer, SafeMove,
     ExecStates, EngSteps, Outcomes
<1>21. ASSUME NEW e \in Execs, WalletTimeout(e) PROVE TypeOK'
  BY <1>21 DEF WalletTimeout, To, KeepForRecovery, EngSteps, Outcomes
<1>22. ASSUME NEW e \in Execs, WalletReceipt(e) PROVE TypeOK'
  BY <1>22 DEF WalletReceipt, To, SafeMove, ReceiptState, ExecStates,
     EngSteps
<1>23. ASSUME NEW e \in Execs, WalletSettle(e) PROVE TypeOK'
  BY <1>23 DEF WalletSettle, To, KeepForRecovery, ResvStates, EngSteps,
     Outcomes
<1>24. ASSUME NEW e \in Execs, Mine(e) PROVE TypeOK'
  BY <1>24 DEF Mine, Network
<1>25. CASE KillFile
  BY <1>25 DEF KillFile
<1>26. CASE KillFlag
  <2>1. startup' \in {"Cold", "Reconciling", "Ready", "Blocked"}
    BY <1>26 DEF KillFlag
  <2>2. kills' \in 0..MaxKills
    BY ConstantsAssumption, <1>26 DEF KillFlag
  <2> QED
    BY <1>26, <2>1, <2>2 DEF KillFlag
<1>27. CASE KillAbort
  <2>1. overtaken' \in SUBSET Runs
    BY ConstantsAssumption, <1>27 DEF KillAbort, Robbed
  <2>2. run' \in [Runs -> RunStates] /\ exec' \in [Execs -> ExecStates] /\ resv' \in [Execs -> ResvStates]
    BY <1>27 DEF KillAbort, AbortRemaining, RunStates, ExecStates, ResvStates
  <2> QED
    BY <1>27, <2>1, <2>2 DEF KillAbort
<1>28. CASE ReleaseFlag
  BY <1>28 DEF ReleaseFlag
<1>29. CASE ReleaseFile
  <2>1. overtaken' \in SUBSET Runs
    BY ConstantsAssumption, <1>29 DEF ReleaseFile, Robbed
  <2> QED
    BY <1>29, <2>1 DEF ReleaseFile
<1>30. CASE ReconcileTimer
  BY ConstantsAssumption, <1>30 DEF ReconcileTimer, StartPass, PassOver,
     Candidates, Runs
<1>31. CASE ReconcileOwner
  BY ConstantsAssumption, <1>31 DEF ReconcileOwner, StartPass, PassOver,
     Candidates, Runs
<1>32. CASE ReconcileRead
  BY <1>32 DEF ReconcileRead, ExecsOf
<1>33. CASE ReconcileApply
  BY ConstantsAssumption, <1>33 DEF ReconcileApply, PassOver, SafeMove,
     ReceiptState, ReadBack, RunAfter, Account, Runs, RunStates, ExecStates,
     ResvStates
<1>34. CASE ReconcileThrow
  BY ConstantsAssumption, <1>34 DEF ReconcileThrow, PassOver, Runs
<1>35. CASE StartBegin
  BY <1>35 DEF StartBegin
<1>36. ASSUME NEW r \in Runs, StartClose(r) PROVE TypeOK'
  BY <1>36 DEF StartClose, AbortRunIfUnsent, RunStates, ExecStates,
     ResvStates
<1>37. CASE StartReconcile
  BY ConstantsAssumption, <1>37 DEF StartReconcile, StartPass, PassOver,
     Candidates, Runs
<1>38. CASE StartFinish
  BY <1>38 DEF StartFinish
<1>39. CASE Crash
  <2>1. eng' \in [Execs -> EngSteps] /\ pc' \in ReqSteps /\ sawKill' \in BOOLEAN /\ late' \in SUBSET Execs
    BY <1>39 DEF Crash, EngSteps, ReqSteps
  <2>2. rec' = PassOver({}) /\ 1 \in Runs
    BY ConstantsAssumption, <1>39 DEF Crash, Runs
  <2>3. rec' \in [pc : {"idle", "next", "read"}, todo : SUBSET Runs, run : Runs,
                  seen : SUBSET Execs, had : SUBSET Execs]
    BY <2>2 DEF PassOver
  <2>4. crashes' \in 0..MaxCrashes
    BY ConstantsAssumption, <1>39 DEF Crash
  <2> QED
    BY <1>39, <2>1, <2>3, <2>4 DEF Crash
<1>40. CASE UNCHANGED vars
  BY <1>40 DEF vars
<1> QED
  BY <1>1, <1>2, <1>3, <1>4, <1>5, <1>6, <1>7, <1>8, <1>9, <1>10, <1>11,
     <1>12, <1>13, <1>14, <1>15, <1>16, <1>17, <1>18, <1>19, <1>20, <1>21,
     <1>22, <1>23, <1>24, <1>25, <1>26, <1>27, <1>28, <1>29, <1>30, <1>31,
     <1>32, <1>33, <1>34, <1>35, <1>36, <1>37, <1>38, <1>39, <1>40
  DEF Next, Request, Wallet, Kill, Pass, Start

-----------------------------------------------------------------------------
(* Store transactions, as the proofs use them *)

(* A kill's abortRemaining deletes no run, settles nothing and leaves the    *)
(* money of an execution with a stored hash where it is.                     *)
LEMMA AbortFacts ==
  ASSUME TypeOK, AbortRemaining
  PROVE  /\ \A r \in Runs : run[r] # "None" => run'[r] # "None"
         /\ \A e \in Execs : resv'[e] = "settled" => resv[e] = "settled"
         /\ \A e \in Execs : hashed[e] => resv'[e] = resv[e]
<1>1. \A r \in Runs : run[r] # "None" => run'[r] # "None"
  BY DEF AbortRemaining, TypeOK
<1>2. \A e \in Execs : resv'[e] = "settled" => resv[e] = "settled"
  BY DEF AbortRemaining, TypeOK
<1>3. \A e \in Execs : hashed[e] => resv'[e] = resv[e]
  BY DEF AbortRemaining, Abortable, TypeOK
<1> QED
  BY <1>1, <1>2, <1>3

(* closeUnsentRun keeps the same promises, and touches one run only.         *)
LEMMA CloseFacts ==
  ASSUME TypeOK, NEW q \in Runs, AbortRunIfUnsent(q)
  PROVE  /\ \A r \in Runs : run[r] # "None" => run'[r] # "None"
         /\ \A e \in Execs : resv'[e] = "settled" => resv[e] = "settled"
         /\ \A e \in Execs : hashed[e] => resv'[e] = resv[e]
         /\ \A e \in Execs : resv'[e] # resv[e] => RunOf[e] = q /\ MayAbortUnsent(q)
<1>1. CASE ~MayAbortUnsent(q)
  BY <1>1 DEF AbortRunIfUnsent
<1>2. CASE MayAbortUnsent(q)
  <2>1. \A r \in Runs : run[r] # "None" => run'[r] # "None"
    BY <1>2 DEF AbortRunIfUnsent, TypeOK
  <2>2. \A e \in Execs : resv'[e] = "settled" => resv[e] = "settled"
    BY <1>2 DEF AbortRunIfUnsent, TypeOK
  <2>3. \A e \in Execs : hashed[e] => resv'[e] = resv[e]
    BY <1>2 DEF AbortRunIfUnsent, MayAbortUnsent, ExecsOf, TypeOK
  <2>4. \A e \in Execs : resv'[e] # resv[e] => RunOf[e] = q
    BY <1>2 DEF AbortRunIfUnsent, TypeOK
  <2> QED
    BY <1>2, <2>1, <2>2, <2>3, <2>4
<1> QED
  BY <1>1, <1>2

(* Accounting settles only what it is given and never takes money back.      *)
LEMMA AccountFacts ==
  ASSUME TypeOK, NEW S, NEW e \in Execs
  PROVE  /\ Account(S)[e] = "settled" => e \in S \/ resv[e] = "settled"
         /\ Account(S)[e] \in {"settled", resv[e]}
         /\ resv[e] = "settled" => Account(S)[e] = "settled"
  BY DEF Account

(* abortRemaining leaves no run open, makes no row and sets no money aside.  *)
LEMMA AbortCloses ==
  ASSUME TypeOK, AbortRemaining
  PROVE  /\ \A r \in Runs : run'[r] = IF run[r] \in {"Armed", "Active"} THEN "Aborted" ELSE run[r]
         /\ \A e \in Execs : exec'[e] # exec[e] => exec[e] # "none"
         /\ \A e \in Execs : resv'[e] \in {resv[e], "released"}
BY DEF AbortRemaining, Abortable, TypeOK

(* closeUnsentRun closes a run with no hash, or does nothing.                *)
LEMMA CloseCloses ==
  ASSUME TypeOK, NEW q \in Runs, AbortRunIfUnsent(q)
  PROVE  /\ \A r \in Runs : run'[r] = run[r] \/ (r = q /\ run'[r] = "Aborted" /\ run[r] \in {"Armed", "Active"})
         /\ \A e \in Execs : exec'[e] # exec[e] => exec[e] # "none"
         /\ \A e \in Execs : resv'[e] \in {resv[e], "released"}
         /\ \/ closed' = closed
            \/ /\ closed' = closed \cup {q} /\ run'[q] = "Aborted" /\ ~HasHash(q)
               /\ \A e \in ExecsOf(q) : resv[e] = "reserved" => resv'[e] = "released"
         /\ run[q] = "Armed" /\ (\A e \in ExecsOf(q) : exec[e] = "none" /\ ~hashed[e]) => run'[q] = "Aborted"
<1>1. CASE ~MayAbortUnsent(q)
  BY <1>1 DEF AbortRunIfUnsent, MayAbortUnsent
<1>2. CASE MayAbortUnsent(q)
  <2>1. /\ run' = [run EXCEPT ![q] = "Aborted"] /\ closed' = closed \cup {q}
        /\ ~HasHash(q) /\ run[q] \in {"Armed", "Active"}
    BY <1>2 DEF AbortRunIfUnsent, MayAbortUnsent, HasHash
  <2>2. /\ \A e \in Execs : exec'[e] # exec[e] => exec[e] # "none"
        /\ \A e \in Execs : resv'[e] \in {resv[e], "released"}
        /\ \A e \in ExecsOf(q) : resv[e] = "reserved" => resv'[e] = "released"
    BY <1>2 DEF AbortRunIfUnsent, ExecsOf, TypeOK
  <2>3. \A r \in Runs : run'[r] = run[r] \/ (r = q /\ run'[r] = "Aborted" /\ run[r] \in {"Armed", "Active"})
    BY <2>1 DEF TypeOK
  <2>4. run'[q] = "Aborted"
    BY <2>1 DEF TypeOK
  <2> QED
    BY <2>1, <2>2, <2>3, <2>4
<1> QED
  BY <1>1, <1>2

-----------------------------------------------------------------------------
(* What is settled was mined *)

(* Every step keeps the facts that tie an execution's place in the request to  *)
(* what the network has of it, whatever races with the request.               *)
LEMMA BaseStep ==
  ASSUME BaseInv, [Next]_vars
  PROVE  BaseParts'
<1> USE DEF BaseInv, BaseParts, TypeOK, EngineBelongs, SentIsLate, RequestHasRun,
    StepTellsSent, SeenIsMined, SettledIsMined, Sent, HasReceipt, Admitting, Fleet,
    ctl, ledger, notes, req, env
<1>1. ASSUME NEW r \in Runs, ArmCheck(r)
      PROVE  BaseParts'
  BY <1>1 DEF ArmCheck
<1>2. CASE ArmCommit
  BY <1>2 DEF ArmCommit
<1>3. CASE ExecuteCheck
  BY <1>3 DEF ExecuteCheck
<1>4. CASE ExecuteRefused
  BY <1>4 DEF ExecuteRefused
<1>5. CASE ExecuteAdmit
  BY <1>5 DEF ExecuteAdmit
<1>6. CASE ExecuteKilledAfterAdmission
  <2>1. /\ \A r \in Runs : run[r] # "None" => run'[r] # "None"
        /\ \A e \in Execs : resv'[e] = "settled" => resv[e] = "settled"
    BY <1>6, AbortFacts DEF ExecuteKilledAfterAdmission
  <2>2. pc = "admitted" /\ pc' = "close" /\ UNCHANGED <<chain, cur, eng, rec>>
    BY <1>6 DEF ExecuteKilledAfterAdmission
  <2> HIDE DEF TypeOK
  <2>3. cur \in Runs /\ RunOf \in [Execs -> Runs]
    BY ConstantsAssumption DEF TypeOK
  <2>4. EngineBelongs'
    BY <2>2
  <2>5. SentIsLate' /\ RequestHasRun'
    BY <2>1, <2>2, <2>3
  <2>6. StepTellsSent' /\ SeenIsMined' /\ SettledIsMined'
    BY <2>1, <2>2
  <2> QED
    BY <2>4, <2>5, <2>6
<1>7. CASE EngineStart
  BY <1>7 DEF EngineStart
<1>8. CASE EngineThrow
  <2>1. /\ \A r \in Runs : run[r] # "None" => run'[r] # "None"
        /\ \A e \in Execs : resv'[e] = "settled" => resv[e] = "settled"
    BY <1>8, AbortFacts DEF EngineThrow
  <2>2. pc \in {"admitted", "engine"} /\ pc' = "close" /\ UNCHANGED <<chain, cur, eng, rec>>
    BY <1>8 DEF EngineThrow, Returned
  <2> HIDE DEF TypeOK
  <2>3. cur \in Runs /\ RunOf \in [Execs -> Runs]
    BY ConstantsAssumption DEF TypeOK
  <2>4. EngineBelongs'
    BY <2>2
  <2>5. SentIsLate' /\ RequestHasRun'
    BY <2>1, <2>2, <2>3
  <2>6. StepTellsSent' /\ SeenIsMined' /\ SettledIsMined'
    BY <2>1, <2>2
  <2> QED
    BY <2>4, <2>5, <2>6
<1>9. CASE EngineReturn
  BY <1>9 DEF EngineReturn, Returned
<1>10. CASE RecordFacts
  <2>1. /\ \A r \in Runs : run[r] # "None" => run'[r] # "None"
        /\ \A e \in Execs : resv'[e] = "settled" => resv[e] = "settled" \/ HasReceipt(e)
    <3>1. run[cur] # "None" => RecordedState # "None"
      BY DEF RecordedState
    <3>2. \A r \in Runs : run[r] # "None" => run'[r] # "None"
      BY <1>10, <3>1 DEF RecordFacts
    <3>3. ASSUME NEW e \in Execs, resv'[e] = "settled" PROVE resv[e] = "settled" \/ HasReceipt(e)
      BY <1>10, <3>3, AccountFacts DEF RecordFacts, ExecsOf
    <3> QED
      BY <3>2, <3>3
  <2>2. pc = "record" /\ pc' \in {"abort", "close"} /\ UNCHANGED <<chain, cur, eng, rec>>
    BY <1>10 DEF RecordFacts
  <2> HIDE DEF TypeOK
  <2>3. cur \in Runs /\ RunOf \in [Execs -> Runs]
    BY ConstantsAssumption DEF TypeOK
  <2>4. EngineBelongs'
    BY <2>2
  <2>5. SentIsLate' /\ RequestHasRun'
    BY <2>1, <2>2, <2>3
  <2>6. StepTellsSent' /\ SeenIsMined' /\ SettledIsMined'
    BY <2>1, <2>2
  <2> QED
    BY <2>4, <2>5, <2>6
<1>11. CASE ExecuteAbort
  <2>1. /\ \A r \in Runs : run[r] # "None" => run'[r] # "None"
        /\ \A e \in Execs : resv'[e] = "settled" => resv[e] = "settled"
    BY <1>11, AbortFacts DEF ExecuteAbort
  <2>2. pc = "abort" /\ pc' = "close" /\ UNCHANGED <<chain, cur, eng, rec>>
    BY <1>11 DEF ExecuteAbort
  <2> HIDE DEF TypeOK
  <2>3. cur \in Runs /\ RunOf \in [Execs -> Runs]
    BY ConstantsAssumption DEF TypeOK
  <2>4. EngineBelongs'
    BY <2>2
  <2>5. SentIsLate' /\ RequestHasRun'
    BY <2>1, <2>2, <2>3
  <2>6. StepTellsSent' /\ SeenIsMined' /\ SettledIsMined'
    BY <2>1, <2>2
  <2> QED
    BY <2>4, <2>5, <2>6
<1>12. CASE RequestEnd
  <2>1. /\ \A r \in Runs : run[r] # "None" => run'[r] # "None"
        /\ \A e \in Execs : resv'[e] = "settled" => resv[e] = "settled"
    BY <1>12, CloseFacts DEF RequestEnd, CloseRequest
  <2>2. pc = "close" /\ pc' = "idle" /\ eng' = [e \in Execs |-> "none"] /\ UNCHANGED <<chain, cur, rec>>
    BY <1>12 DEF RequestEnd
  <2> HIDE DEF TypeOK
  <2>3. cur \in Runs /\ RunOf \in [Execs -> Runs]
    BY ConstantsAssumption DEF TypeOK
  <2>4. EngineBelongs'
    BY <2>2
  <2>5. SentIsLate' /\ RequestHasRun'
    BY <2>1, <2>2, <2>3
  <2>6. StepTellsSent' /\ SeenIsMined' /\ SettledIsMined'
    BY <2>1, <2>2
  <2> QED
    BY <2>4, <2>5, <2>6
<1>13. ASSUME NEW e \in Execs, WalletUnsent(e)
      PROVE  BaseParts'
  BY <1>13 DEF WalletUnsent, At, To
<1>14. ASSUME NEW e \in Execs, WalletGate(e)
      PROVE  BaseParts'
  BY <1>14 DEF WalletGate, At, To
<1>15. ASSUME NEW e \in Execs, WalletSignFails(e)
      PROVE  BaseParts'
  BY <1>15 DEF WalletSignFails, At, To, Release
<1>16. ASSUME NEW e \in Execs, WalletSigned(e)
      PROVE  BaseParts'
  BY <1>16 DEF WalletSigned, At, To
<1>17. ASSUME NEW e \in Execs, WalletCheckKill(e)
      PROVE  BaseParts'
  BY <1>17 DEF WalletCheckKill, At, To, Release
<1>18. ASSUME NEW e \in Execs, WalletSend(e)
      PROVE  BaseParts'
  BY <1>18 DEF WalletSend, At, To
<1>19. ASSUME NEW e \in Execs, WalletRefused(e)
      PROVE  BaseParts'
  BY <1>19 DEF WalletRefused, At, To, Release
<1>20. ASSUME NEW e \in Execs, WalletAnswer(e)
      PROVE  BaseParts'
  BY <1>20 DEF WalletAnswer, At, To, KeepForRecovery
<1>21. ASSUME NEW e \in Execs, WalletTimeout(e)
      PROVE  BaseParts'
  BY <1>21 DEF WalletTimeout, At, To, KeepForRecovery
<1>22. ASSUME NEW e \in Execs, WalletReceipt(e)
      PROVE  BaseParts'
  BY <1>22 DEF WalletReceipt, At, To
<1>23. ASSUME NEW e \in Execs, WalletSettle(e)
      PROVE  BaseParts'
  BY <1>23 DEF WalletSettle, At, To, KeepForRecovery
<1>24. ASSUME NEW e \in Execs, Mine(e)
      PROVE  BaseParts'
  BY <1>24 DEF Mine
<1>25. CASE KillFile
  BY <1>25 DEF KillFile
<1>26. CASE KillFlag
  BY <1>26 DEF KillFlag
<1>27. CASE KillAbort
  <2>1. /\ \A r \in Runs : run[r] # "None" => run'[r] # "None"
        /\ \A e \in Execs : resv'[e] = "settled" => resv[e] = "settled"
    BY <1>27, AbortFacts DEF KillAbort
  <2>2. UNCHANGED <<pc, chain, cur, eng, rec>>
    BY <1>27 DEF KillAbort
  <2> HIDE DEF TypeOK
  <2>3. cur \in Runs /\ RunOf \in [Execs -> Runs]
    BY ConstantsAssumption DEF TypeOK
  <2>4. EngineBelongs'
    BY <2>2
  <2>5. SentIsLate' /\ RequestHasRun'
    BY <2>1, <2>2, <2>3
  <2>6. StepTellsSent' /\ SeenIsMined' /\ SettledIsMined'
    BY <2>1, <2>2
  <2> QED
    BY <2>4, <2>5, <2>6
<1>28. CASE ReleaseFlag
  BY <1>28 DEF ReleaseFlag
<1>29. CASE ReleaseFile
  BY <1>29 DEF ReleaseFile
<1>30. CASE ReconcileTimer
  BY <1>30 DEF ReconcileTimer, StartPass, PassOver
<1>31. CASE ReconcileOwner
  BY <1>31 DEF ReconcileOwner, StartPass, PassOver
<1>32. CASE ReconcileRead
  BY <1>32 DEF ReconcileRead, ExecsOf
<1>33. CASE ReconcileApply
  BY <1>33 DEF ReconcileApply, PassOver, RunAfter, Account
<1>34. CASE ReconcileThrow
  BY <1>34 DEF ReconcileThrow, PassOver
<1>35. CASE StartBegin
  BY <1>35 DEF StartBegin
<1>36. ASSUME NEW r \in Runs, StartClose(r)
      PROVE  BaseParts'
  <2>1. /\ \A q \in Runs : run[q] # "None" => run'[q] # "None"
        /\ \A e \in Execs : resv'[e] = "settled" => resv[e] = "settled"
    BY <1>36, CloseFacts DEF StartClose
  <2>2. UNCHANGED <<pc, chain, cur, eng, rec>>
    BY <1>36 DEF StartClose
  <2> HIDE DEF TypeOK
  <2>3. cur \in Runs /\ RunOf \in [Execs -> Runs]
    BY ConstantsAssumption DEF TypeOK
  <2>4. EngineBelongs'
    BY <2>2
  <2>5. SentIsLate' /\ RequestHasRun'
    BY <2>1, <2>2, <2>3
  <2>6. StepTellsSent' /\ SeenIsMined' /\ SettledIsMined'
    BY <2>1, <2>2
  <2> QED
    BY <2>4, <2>5, <2>6
<1>37. CASE StartReconcile
  BY <1>37 DEF StartReconcile, StartPass, PassOver
<1>38. CASE StartFinish
  BY <1>38 DEF StartFinish
<1>39. CASE Crash
  BY <1>39 DEF Crash, PassOver
<1>40. CASE UNCHANGED vars
  BY <1>40 DEF vars
<1> QED
  BY <1>1, <1>2, <1>3, <1>4, <1>5, <1>6, <1>7, <1>8, <1>9, <1>10, <1>11,
     <1>12, <1>13, <1>14, <1>15, <1>16, <1>17, <1>18, <1>19, <1>20, <1>21,
     <1>22, <1>23, <1>24, <1>25, <1>26, <1>27, <1>28, <1>29, <1>30, <1>31,
     <1>32, <1>33, <1>34, <1>35, <1>36, <1>37, <1>38, <1>39, <1>40
  DEF Next, Request, Wallet, Kill, Pass, Start

-----------------------------------------------------------------------------
(* What was sent stays paid for *)

(* Whatever races with the request, every step keeps the money of what was   *)
(* sent or is past the last kill check, or marks the run as overtaken.       *)
LEMMA HeldStep ==
  ASSUME HeldInv, [Next]_vars
  PROVE  HeldParts'
<1> USE DEF HeldInv, HeldParts, BaseInv, BaseParts, TypeOK, GateKeepsMoney, ReturnedIsDone, Outcomes, SentIsHeld, EngineBelongs, StepTellsSent, Sent, Fleet,
    ctl, ledger, notes, req, env
<1>1. ASSUME NEW r \in Runs, ArmCheck(r)
      PROVE  HeldParts'
  BY <1>1 DEF ArmCheck
<1>2. CASE ArmCommit
  BY <1>2 DEF ArmCommit
<1>3. CASE ExecuteCheck
  BY <1>3 DEF ExecuteCheck
<1>4. CASE ExecuteRefused
  BY <1>4 DEF ExecuteRefused
<1>5. CASE ExecuteAdmit
  BY <1>5 DEF ExecuteAdmit
<1>6. CASE ExecuteKilledAfterAdmission
  <2>1. \A e \in Execs : hashed[e] => resv'[e] = resv[e]
    BY <1>6, AbortFacts DEF ExecuteKilledAfterAdmission
  <2>2. pc = "admitted" /\ pc' = "close" /\ UNCHANGED <<ctl, hashed, chain, eng, killPc, boot>>
    BY <1>6 DEF ExecuteKilledAfterAdmission
  <2> HIDE DEF TypeOK
  <2>3. \A e \in Execs : eng'[e] \in {"gated", "signed", "sending"} => FALSE
    BY <1>6, <2>2 DEF Outcomes, ExecuteKilledAfterAdmission, TypeOK
  <2>5. GateKeepsMoney' /\ ReturnedIsDone'
    BY <2>1, <2>2, <2>3 DEF Outcomes
  <2>6. SentIsHeld'
    BY <2>1, <2>2
  <2> QED
    BY <2>5, <2>6
<1>7. CASE EngineStart
  BY <1>7 DEF EngineStart
<1>8. CASE EngineThrow
  <2>1. \A e \in Execs : hashed[e] => resv'[e] = resv[e]
    BY <1>8, AbortFacts DEF EngineThrow
  <2>2. /\ pc \in {"admitted", "engine"} /\ pc' = "close" /\ UNCHANGED <<ctl, hashed, chain, eng, killPc, boot>>
        /\ \A e \in Execs : eng[e] \in Outcomes \cup {"none"}
    BY <1>8 DEF EngineThrow, Returned, ExecsOf
  <2> HIDE DEF TypeOK
  <2>3. \A e \in Execs : eng'[e] \in {"gated", "signed", "sending"} => FALSE
    BY <1>8, <2>2 DEF Outcomes, EngineThrow, Returned, ExecsOf, TypeOK
  <2>5. GateKeepsMoney' /\ ReturnedIsDone'
    BY <2>1, <2>2, <2>3 DEF Outcomes
  <2>6. SentIsHeld'
    BY <2>1, <2>2
  <2> QED
    BY <2>5, <2>6
<1>9. CASE EngineReturn
  BY <1>9 DEF EngineReturn, Returned, ExecsOf
<1>10. CASE RecordFacts
  BY <1>10 DEF RecordFacts, RecordedState, Account
<1>11. CASE ExecuteAbort
  <2>1. \A e \in Execs : hashed[e] => resv'[e] = resv[e]
    BY <1>11, AbortFacts DEF ExecuteAbort
  <2>2. pc = "abort" /\ pc' = "close" /\ UNCHANGED <<ctl, hashed, chain, eng, killPc, boot>>
    BY <1>11 DEF ExecuteAbort
  <2> HIDE DEF TypeOK
  <2>3. \A e \in Execs : eng'[e] \in {"gated", "signed", "sending"} => FALSE
    BY <1>11, <2>2 DEF Outcomes, ExecuteAbort, TypeOK
  <2>5. GateKeepsMoney' /\ ReturnedIsDone'
    BY <2>1, <2>2, <2>3 DEF Outcomes
  <2>6. SentIsHeld'
    BY <2>1, <2>2
  <2> QED
    BY <2>5, <2>6
<1>12. CASE RequestEnd
  <2>1. \A e \in Execs : hashed[e] => resv'[e] = resv[e]
    BY <1>12, CloseFacts DEF RequestEnd, CloseRequest
  <2>2. /\ pc = "close" /\ pc' = "idle" /\ eng' = [e \in Execs |-> "none"]
        /\ UNCHANGED <<ctl, hashed, chain, killPc, boot>>
    BY <1>12 DEF RequestEnd
  <2> HIDE DEF TypeOK
  <2>3. \A e \in Execs : eng'[e] \in {"gated", "signed", "sending"} => FALSE
    BY <1>12, <2>2 DEF Outcomes, RequestEnd, TypeOK
  <2>5. GateKeepsMoney' /\ ReturnedIsDone'
    BY <2>1, <2>2, <2>3 DEF Outcomes
  <2>6. SentIsHeld'
    BY <2>1, <2>2
  <2> QED
    BY <2>5, <2>6
<1>13. ASSUME NEW e \in Execs, WalletUnsent(e)
      PROVE  HeldParts'
  BY <1>13 DEF WalletUnsent, At, To
<1>14. ASSUME NEW e \in Execs, WalletGate(e)
      PROVE  HeldParts'
  BY <1>14 DEF WalletGate, At, To, GateOpen
<1>15. ASSUME NEW e \in Execs, WalletSignFails(e)
      PROVE  HeldParts'
  BY <1>15 DEF WalletSignFails, At, To, Release
<1>16. ASSUME NEW e \in Execs, WalletSigned(e)
      PROVE  HeldParts'
  BY <1>16 DEF WalletSigned, At, To
<1>17. ASSUME NEW e \in Execs, WalletCheckKill(e)
      PROVE  HeldParts'
  BY <1>17 DEF WalletCheckKill, At, To, Release
<1>18. ASSUME NEW e \in Execs, WalletSend(e)
      PROVE  HeldParts'
  BY <1>18 DEF WalletSend, At, To
<1>19. ASSUME NEW e \in Execs, WalletRefused(e)
      PROVE  HeldParts'
  BY <1>19 DEF WalletRefused, At, To, Release
<1>20. ASSUME NEW e \in Execs, WalletAnswer(e)
      PROVE  HeldParts'
  BY <1>20 DEF WalletAnswer, At, To, KeepForRecovery
<1>21. ASSUME NEW e \in Execs, WalletTimeout(e)
      PROVE  HeldParts'
  BY <1>21 DEF WalletTimeout, At, To, KeepForRecovery
<1>22. ASSUME NEW e \in Execs, WalletReceipt(e)
      PROVE  HeldParts'
  BY <1>22 DEF WalletReceipt, At, To
<1>23. ASSUME NEW e \in Execs, WalletSettle(e)
      PROVE  HeldParts'
  BY <1>23 DEF WalletSettle, At, To, KeepForRecovery
<1>24. ASSUME NEW e \in Execs, Mine(e)
      PROVE  HeldParts'
  BY <1>24 DEF Mine
<1>25. CASE KillFile
  BY <1>25 DEF KillFile
<1>26. CASE KillFlag
  BY <1>26 DEF KillFlag
<1>27. CASE KillAbort
  <2>1. \A e \in Execs : hashed[e] => resv'[e] = resv[e]
    BY <1>27, AbortFacts DEF KillAbort
  <2>2. UNCHANGED <<killFile, hashed, chain, pc, eng>> /\ overtaken \subseteq overtaken'
    BY <1>27 DEF KillAbort
  <2>3. \A e \in Execs : eng[e] = "gated" => killFile \/ resv'[e] = "reserved" \/ RunOf[e] \in overtaken'
    BY <1>27 DEF KillAbort, Robbed
  <2> HIDE DEF TypeOK
  <2>4. GateKeepsMoney' /\ ReturnedIsDone'
    BY <2>1, <2>2, <2>3
  <2>5. SentIsHeld'
    BY <2>1, <2>2
  <2> QED
    BY <2>4, <2>5
<1>28. CASE ReleaseFlag
  BY <1>28 DEF ReleaseFlag
<1>29. CASE ReleaseFile
  BY <1>29 DEF ReleaseFile, Robbed
<1>30. CASE ReconcileTimer
  BY <1>30 DEF ReconcileTimer, StartPass, PassOver
<1>31. CASE ReconcileOwner
  BY <1>31 DEF ReconcileOwner, StartPass, PassOver
<1>32. CASE ReconcileRead
  BY <1>32 DEF ReconcileRead, ExecsOf
<1>33. CASE ReconcileApply
  <2>1. \A e \in Execs : /\ resv'[e] \in {"settled", resv[e]}
                         /\ resv'[e] = "settled" => e \in rec.seen \/ resv[e] = "settled"
    BY <1>33, AccountFacts DEF ReconcileApply
  <2>2. UNCHANGED <<ctl, hashed, chain, pc, eng, killPc, boot>>
    BY <1>33 DEF ReconcileApply
  <2> HIDE DEF TypeOK
  <2>3. ReturnedIsDone'
    BY <2>2
  <2>4. \A e \in rec.seen : eng[e] \notin {"gated", "signed", "sending"}
    BY DEF SeenIsMined, HasReceipt, TypeOK
  <2>5. GateKeepsMoney' /\ SentIsHeld'
    BY <2>1, <2>2, <2>4
  <2> QED
    BY <2>3, <2>5
<1>34. CASE ReconcileThrow
  BY <1>34 DEF ReconcileThrow, PassOver
<1>35. CASE StartBegin
  BY <1>35 DEF StartBegin
<1>36. ASSUME NEW r \in Runs, StartClose(r)
      PROVE  HeldParts'
  <2>1. /\ \A e \in Execs : hashed[e] => resv'[e] = resv[e]
        /\ \A e \in Execs : resv'[e] # resv[e] => RunOf[e] = r /\ MayAbortUnsent(r)
    BY <1>36, CloseFacts DEF StartClose
  <2>2. UNCHANGED <<killFile, hashed, chain, pc, eng>> /\ overtaken \subseteq overtaken'
    BY <1>36 DEF StartClose
  <2>3. \A e \in Execs : eng[e] = "gated" => resv'[e] = resv[e] \/ RunOf[e] \in overtaken'
    <3> SUFFICES ASSUME NEW e \in Execs, eng[e] = "gated", resv'[e] # resv[e]
                 PROVE  RunOf[e] \in overtaken'
      OBVIOUS
    <3>1. RunOf[e] = r /\ r = cur /\ MayAbortUnsent(r)
      BY <2>1
    <3>2. UsedMeanwhile(r)
      BY <3>1 DEF UsedMeanwhile, ExecsOf
    <3> QED
      BY <1>36, <3>1, <3>2 DEF StartClose
  <2> HIDE DEF TypeOK
  <2>4. GateKeepsMoney' /\ ReturnedIsDone'
    BY <2>1, <2>2, <2>3
  <2>5. SentIsHeld'
    BY <2>1, <2>2
  <2> QED
    BY <2>4, <2>5
<1>37. CASE StartReconcile
  BY <1>37 DEF StartReconcile, StartPass, PassOver
<1>38. CASE StartFinish
  BY <1>38 DEF StartFinish
<1>39. CASE Crash
  BY <1>39 DEF Crash, PassOver
<1>40. CASE UNCHANGED vars
  BY <1>40 DEF vars
<1> QED
  BY <1>1, <1>2, <1>3, <1>4, <1>5, <1>6, <1>7, <1>8, <1>9, <1>10, <1>11,
     <1>12, <1>13, <1>14, <1>15, <1>16, <1>17, <1>18, <1>19, <1>20, <1>21,
     <1>22, <1>23, <1>24, <1>25, <1>26, <1>27, <1>28, <1>29, <1>30, <1>31,
     <1>32, <1>33, <1>34, <1>35, <1>36, <1>37, <1>38, <1>39, <1>40
  DEF Next, Request, Wallet, Kill, Pass, Start

-----------------------------------------------------------------------------
(* A kill stops the fleet *)

(* While no one releases the kill switch under a running request, every step *)
(* keeps the gate exclusive and shut after a late send.                      *)
LEMMA FleetStep ==
  ASSUME FleetInv, "quick-release" \notin Races, [Next]_vars
  PROVE  FleetParts'
<1> USE DEF FleetInv, FleetParts, BaseInv, BaseParts, TypeOK, EngineBelongs, OneInside,
    LateIsLast, Fleet, Critical, ctl, ledger, notes, req, env
<1>1. ASSUME NEW r \in Runs, ArmCheck(r)
      PROVE  FleetParts'
  BY <1>1 DEF ArmCheck
<1>2. CASE ArmCommit
  BY <1>2 DEF ArmCommit
<1>3. CASE ExecuteCheck
  BY <1>3 DEF ExecuteCheck
<1>4. CASE ExecuteRefused
  BY <1>4 DEF ExecuteRefused
<1>5. CASE ExecuteAdmit
  BY <1>5 DEF ExecuteAdmit
<1>6. CASE ExecuteKilledAfterAdmission
  BY <1>6 DEF ExecuteKilledAfterAdmission
<1>7. CASE EngineStart
  BY <1>7 DEF EngineStart
<1>8. CASE EngineThrow
  BY <1>8 DEF EngineThrow, Returned
<1>9. CASE EngineReturn
  BY <1>9 DEF EngineReturn, Returned, ExecsOf
<1>10. CASE RecordFacts
  BY <1>10 DEF RecordFacts, RecordedState, Account
<1>11. CASE ExecuteAbort
  BY <1>11 DEF ExecuteAbort
<1>12. CASE RequestEnd
  BY <1>12 DEF RequestEnd, CloseRequest
<1>13. ASSUME NEW e \in Execs, WalletUnsent(e)
      PROVE  FleetParts'
  BY <1>13 DEF WalletUnsent, At, To
<1>14. ASSUME NEW e \in Execs, WalletGate(e)
      PROVE  FleetParts'
  BY <1>14 DEF WalletGate, At, To, GateOpen
<1>15. ASSUME NEW e \in Execs, WalletSignFails(e)
      PROVE  FleetParts'
  BY <1>15 DEF WalletSignFails, At, To, Release
<1>16. ASSUME NEW e \in Execs, WalletSigned(e)
      PROVE  FleetParts'
  BY <1>16 DEF WalletSigned, At, To
<1>17. ASSUME NEW e \in Execs, WalletCheckKill(e)
      PROVE  FleetParts'
  BY <1>17 DEF WalletCheckKill, At, To, Release
<1>18. ASSUME NEW e \in Execs, WalletSend(e)
      PROVE  FleetParts'
  BY <1>18 DEF WalletSend, At, To
<1>19. ASSUME NEW e \in Execs, WalletRefused(e)
      PROVE  FleetParts'
  BY <1>19 DEF WalletRefused, At, To, Release
<1>20. ASSUME NEW e \in Execs, WalletAnswer(e)
      PROVE  FleetParts'
  BY <1>20 DEF WalletAnswer, At, To, KeepForRecovery
<1>21. ASSUME NEW e \in Execs, WalletTimeout(e)
      PROVE  FleetParts'
  BY <1>21 DEF WalletTimeout, At, To, KeepForRecovery
<1>22. ASSUME NEW e \in Execs, WalletReceipt(e)
      PROVE  FleetParts'
  BY <1>22 DEF WalletReceipt, At, To
<1>23. ASSUME NEW e \in Execs, WalletSettle(e)
      PROVE  FleetParts'
  BY <1>23 DEF WalletSettle, At, To, KeepForRecovery
<1>24. ASSUME NEW e \in Execs, Mine(e)
      PROVE  FleetParts'
  BY <1>24 DEF Mine
<1>25. CASE KillFile
  BY <1>25 DEF KillFile
<1>26. CASE KillFlag
  BY <1>26 DEF KillFlag
<1>27. CASE KillAbort
  BY <1>27 DEF KillAbort
<1>28. CASE ReleaseFlag
  BY <1>28 DEF ReleaseFlag, MayRelease
<1>29. CASE ReleaseFile
  BY <1>29 DEF ReleaseFile
<1>30. CASE ReconcileTimer
  BY <1>30 DEF ReconcileTimer, StartPass, PassOver
<1>31. CASE ReconcileOwner
  BY <1>31 DEF ReconcileOwner, StartPass, PassOver
<1>32. CASE ReconcileRead
  BY <1>32 DEF ReconcileRead, ExecsOf
<1>33. CASE ReconcileApply
  BY <1>33 DEF ReconcileApply, PassOver, RunAfter, Account
<1>34. CASE ReconcileThrow
  BY <1>34 DEF ReconcileThrow, PassOver
<1>35. CASE StartBegin
  BY <1>35 DEF StartBegin
<1>36. ASSUME NEW r \in Runs, StartClose(r)
      PROVE  FleetParts'
  BY <1>36 DEF StartClose, AbortRunIfUnsent
<1>37. CASE StartReconcile
  BY <1>37 DEF StartReconcile, StartPass, PassOver
<1>38. CASE StartFinish
  BY <1>38 DEF StartFinish
<1>39. CASE Crash
  BY <1>39 DEF Crash, PassOver
<1>40. CASE UNCHANGED vars
  BY <1>40 DEF vars
<1> QED
  BY <1>1, <1>2, <1>3, <1>4, <1>5, <1>6, <1>7, <1>8, <1>9, <1>10, <1>11,
     <1>12, <1>13, <1>14, <1>15, <1>16, <1>17, <1>18, <1>19, <1>20, <1>21,
     <1>22, <1>23, <1>24, <1>25, <1>26, <1>27, <1>28, <1>29, <1>30, <1>31,
     <1>32, <1>33, <1>34, <1>35, <1>36, <1>37, <1>38, <1>39, <1>40
  DEF Next, Request, Wallet, Kill, Pass, Start

-----------------------------------------------------------------------------
(* A run that has ended stays ended *)

(* With one process and no hasty release, the run admission is about to       *)
(* reopen is still armed.                                                     *)
LEMMA FreshStep ==
  ASSUME FreshInv, Races \subseteq {"concurrent-kill"}, [Next]_vars
  PROVE  FreshParts'
<1> USE DEF FreshInv, FreshParts, BaseInv, BaseParts, TypeOK, CopyIsFresh, SeenOfRun,
    StartIsAlone, SentIsLate, SeenIsMined, Sent, HasReceipt, Admitting,
    ctl, ledger, notes, req, env
<1>1. ASSUME NEW r \in Runs, ArmCheck(r)
      PROVE  FreshParts'
  BY <1>1 DEF ArmCheck
<1>2. CASE ArmCommit
  BY <1>2 DEF ArmCommit
<1>3. CASE ExecuteCheck
  BY <1>3 DEF ExecuteCheck
<1>4. CASE ExecuteRefused
  BY <1>4 DEF ExecuteRefused
<1>5. CASE ExecuteAdmit
  BY <1>5 DEF ExecuteAdmit
<1>6. CASE ExecuteKilledAfterAdmission
  BY <1>6 DEF ExecuteKilledAfterAdmission, AbortRemaining
<1>7. CASE EngineStart
  BY <1>7 DEF EngineStart
<1>8. CASE EngineThrow
  BY <1>8 DEF EngineThrow, AbortRemaining, Returned
<1>9. CASE EngineReturn
  BY <1>9 DEF EngineReturn, Returned
<1>10. CASE RecordFacts
  BY <1>10 DEF RecordFacts, RecordedState, Account
<1>11. CASE ExecuteAbort
  BY <1>11 DEF ExecuteAbort, AbortRemaining
<1>12. CASE RequestEnd
  BY <1>12 DEF RequestEnd, CloseRequest, AbortRunIfUnsent
<1>13. ASSUME NEW e \in Execs, WalletUnsent(e)
      PROVE  FreshParts'
  BY <1>13 DEF WalletUnsent, At, To
<1>14. ASSUME NEW e \in Execs, WalletGate(e)
      PROVE  FreshParts'
  BY <1>14 DEF WalletGate, At, To
<1>15. ASSUME NEW e \in Execs, WalletSignFails(e)
      PROVE  FreshParts'
  BY <1>15 DEF WalletSignFails, At, To, Release
<1>16. ASSUME NEW e \in Execs, WalletSigned(e)
      PROVE  FreshParts'
  BY <1>16 DEF WalletSigned, At, To
<1>17. ASSUME NEW e \in Execs, WalletCheckKill(e)
      PROVE  FreshParts'
  BY <1>17 DEF WalletCheckKill, At, To, Release
<1>18. ASSUME NEW e \in Execs, WalletSend(e)
      PROVE  FreshParts'
  BY <1>18 DEF WalletSend, At, To
<1>19. ASSUME NEW e \in Execs, WalletRefused(e)
      PROVE  FreshParts'
  BY <1>19 DEF WalletRefused, At, To, Release
<1>20. ASSUME NEW e \in Execs, WalletAnswer(e)
      PROVE  FreshParts'
  BY <1>20 DEF WalletAnswer, At, To, KeepForRecovery
<1>21. ASSUME NEW e \in Execs, WalletTimeout(e)
      PROVE  FreshParts'
  BY <1>21 DEF WalletTimeout, At, To, KeepForRecovery
<1>22. ASSUME NEW e \in Execs, WalletReceipt(e)
      PROVE  FreshParts'
  BY <1>22 DEF WalletReceipt, At, To
<1>23. ASSUME NEW e \in Execs, WalletSettle(e)
      PROVE  FreshParts'
  BY <1>23 DEF WalletSettle, At, To, KeepForRecovery
<1>24. ASSUME NEW e \in Execs, Mine(e)
      PROVE  FreshParts'
  BY <1>24 DEF Mine
<1>25. CASE KillFile
  BY <1>25 DEF KillFile
<1>26. CASE KillFlag
  BY <1>26 DEF KillFlag
<1>27. CASE KillAbort
  BY <1>27 DEF KillAbort, AbortRemaining
<1>28. CASE ReleaseFlag
  BY <1>28 DEF ReleaseFlag
<1>29. CASE ReleaseFile
  BY <1>29 DEF ReleaseFile
<1>30. CASE ReconcileTimer
  BY <1>30 DEF ReconcileTimer, StartPass, PassOver
<1>31. CASE ReconcileOwner
  BY <1>31 DEF ReconcileOwner, StartPass, PassOver
<1>32. CASE ReconcileRead
  BY <1>32 DEF ReconcileRead, ExecsOf
<1>33. CASE ReconcileApply
  <2>1. pc \in {"arming", "readiness"} /\ rec.run = cur => rec.seen = {}
    OBVIOUS
  <2>2. rec.seen = {} => ReconcileResult = "unknown"
    BY DEF ReconcileResult
  <2>3. run' = [run EXCEPT ![rec.run] = RunAfter(run[rec.run], ReconcileResult)]
    BY <1>33 DEF ReconcileApply
  <2>4. UNCHANGED <<ctl, pc, cur, killPc, boot>> /\ rec'.seen = {}
    BY <1>33 DEF ReconcileApply, PassOver
  <2>5. pc \in {"arming", "readiness"} => run'[cur] = run[cur]
    BY <2>1, <2>2, <2>3 DEF RunAfter
  <2> QED
    BY <2>4, <2>5
<1>34. CASE ReconcileThrow
  BY <1>34 DEF ReconcileThrow, PassOver
<1>35. CASE StartBegin
  BY <1>35 DEF StartBegin
<1>36. ASSUME NEW r \in Runs, StartClose(r)
      PROVE  FreshParts'
  BY <1>36 DEF StartClose, AbortRunIfUnsent
<1>37. CASE StartReconcile
  BY <1>37 DEF StartReconcile, StartPass, PassOver
<1>38. CASE StartFinish
  BY <1>38 DEF StartFinish
<1>39. CASE Crash
  BY <1>39 DEF Crash, PassOver
<1>40. CASE UNCHANGED vars
  BY <1>40 DEF vars
<1> QED
  BY <1>1, <1>2, <1>3, <1>4, <1>5, <1>6, <1>7, <1>8, <1>9, <1>10, <1>11,
     <1>12, <1>13, <1>14, <1>15, <1>16, <1>17, <1>18, <1>19, <1>20, <1>21,
     <1>22, <1>23, <1>24, <1>25, <1>26, <1>27, <1>28, <1>29, <1>30, <1>31,
     <1>32, <1>33, <1>34, <1>35, <1>36, <1>37, <1>38, <1>39, <1>40
  DEF Next, Request, Wallet, Kill, Pass, Start

(* From such a state no step takes a run out of Aborted or Failed.            *)
LEMMA RunStep ==
  ASSUME FreshInv, [Next]_vars
  PROVE  RunKept
<1> USE DEF FreshInv, FreshParts, BaseInv, BaseParts, TypeOK, CopyIsFresh,
    RunKept, ctl, ledger, notes, req, env
<1>1. ASSUME NEW r \in Runs, ArmCheck(r)
      PROVE  RunKept
  BY <1>1 DEF ArmCheck
<1>2. CASE ArmCommit
  BY <1>2 DEF ArmCommit
<1>3. CASE ExecuteCheck
  BY <1>3 DEF ExecuteCheck
<1>4. CASE ExecuteRefused
  BY <1>4 DEF ExecuteRefused
<1>5. CASE ExecuteAdmit
  BY <1>5 DEF ExecuteAdmit, MayAdmit
<1>6. CASE ExecuteKilledAfterAdmission
  BY <1>6 DEF ExecuteKilledAfterAdmission, AbortRemaining
<1>7. CASE EngineStart
  BY <1>7 DEF EngineStart
<1>8. CASE EngineThrow
  BY <1>8 DEF EngineThrow, AbortRemaining, Returned
<1>9. CASE EngineReturn
  BY <1>9 DEF EngineReturn, Returned
<1>10. CASE RecordFacts
  BY <1>10 DEF RecordFacts, MayTransition
<1>11. CASE ExecuteAbort
  BY <1>11 DEF ExecuteAbort, AbortRemaining
<1>12. CASE RequestEnd
  BY <1>12 DEF RequestEnd, CloseRequest, AbortRunIfUnsent, MayAbortUnsent
<1>13. ASSUME NEW e \in Execs, WalletUnsent(e)
      PROVE  RunKept
  BY <1>13 DEF WalletUnsent, At, To
<1>14. ASSUME NEW e \in Execs, WalletGate(e)
      PROVE  RunKept
  BY <1>14 DEF WalletGate, At, To
<1>15. ASSUME NEW e \in Execs, WalletSignFails(e)
      PROVE  RunKept
  BY <1>15 DEF WalletSignFails, At, To, Release
<1>16. ASSUME NEW e \in Execs, WalletSigned(e)
      PROVE  RunKept
  BY <1>16 DEF WalletSigned, At, To
<1>17. ASSUME NEW e \in Execs, WalletCheckKill(e)
      PROVE  RunKept
  BY <1>17 DEF WalletCheckKill, At, To, Release
<1>18. ASSUME NEW e \in Execs, WalletSend(e)
      PROVE  RunKept
  BY <1>18 DEF WalletSend, At, To
<1>19. ASSUME NEW e \in Execs, WalletRefused(e)
      PROVE  RunKept
  BY <1>19 DEF WalletRefused, At, To, Release
<1>20. ASSUME NEW e \in Execs, WalletAnswer(e)
      PROVE  RunKept
  BY <1>20 DEF WalletAnswer, At, To, KeepForRecovery
<1>21. ASSUME NEW e \in Execs, WalletTimeout(e)
      PROVE  RunKept
  BY <1>21 DEF WalletTimeout, At, To, KeepForRecovery
<1>22. ASSUME NEW e \in Execs, WalletReceipt(e)
      PROVE  RunKept
  BY <1>22 DEF WalletReceipt, At, To
<1>23. ASSUME NEW e \in Execs, WalletSettle(e)
      PROVE  RunKept
  BY <1>23 DEF WalletSettle, At, To, KeepForRecovery
<1>24. ASSUME NEW e \in Execs, Mine(e)
      PROVE  RunKept
  BY <1>24 DEF Mine
<1>25. CASE KillFile
  BY <1>25 DEF KillFile
<1>26. CASE KillFlag
  BY <1>26 DEF KillFlag
<1>27. CASE KillAbort
  BY <1>27 DEF KillAbort, AbortRemaining
<1>28. CASE ReleaseFlag
  BY <1>28 DEF ReleaseFlag
<1>29. CASE ReleaseFile
  BY <1>29 DEF ReleaseFile
<1>30. CASE ReconcileTimer
  BY <1>30 DEF ReconcileTimer, StartPass, PassOver
<1>31. CASE ReconcileOwner
  BY <1>31 DEF ReconcileOwner, StartPass, PassOver
<1>32. CASE ReconcileRead
  BY <1>32 DEF ReconcileRead, ExecsOf
<1>33. CASE ReconcileApply
  BY <1>33 DEF ReconcileApply, PassOver, RunAfter, Account
<1>34. CASE ReconcileThrow
  BY <1>34 DEF ReconcileThrow, PassOver
<1>35. CASE StartBegin
  BY <1>35 DEF StartBegin
<1>36. ASSUME NEW r \in Runs, StartClose(r)
      PROVE  RunKept
  BY <1>36 DEF StartClose, AbortRunIfUnsent, MayAbortUnsent
<1>37. CASE StartReconcile
  BY <1>37 DEF StartReconcile, StartPass, PassOver
<1>38. CASE StartFinish
  BY <1>38 DEF StartFinish
<1>39. CASE Crash
  BY <1>39 DEF Crash, PassOver
<1>40. CASE UNCHANGED vars
  BY <1>40 DEF vars
<1> QED
  BY <1>1, <1>2, <1>3, <1>4, <1>5, <1>6, <1>7, <1>8, <1>9, <1>10, <1>11,
     <1>12, <1>13, <1>14, <1>15, <1>16, <1>17, <1>18, <1>19, <1>20, <1>21,
     <1>22, <1>23, <1>24, <1>25, <1>26, <1>27, <1>28, <1>29, <1>30, <1>31,
     <1>32, <1>33, <1>34, <1>35, <1>36, <1>37, <1>38, <1>39, <1>40
  DEF Next, Request, Wallet, Kill, Pass, Start

(* What is being armed stays out of the store, a release keeps the flag off   *)
(* until it is through, and a pass applies receipts to the run it read.       *)
LEMMA CorePartsStep ==
  ASSUME BaseInv, CoreParts, [Next]_vars
  PROVE  CoreParts'
<1> USE DEF CoreParts, BaseInv, BaseParts, TypeOK, ArmingIsNew, ReleaseIsOff, SeenOfRun,
    SentIsLate, SeenIsMined, Sent, HasReceipt, Admitting,
    ctl, ledger, notes, req, env
<1>1. ASSUME NEW r \in Runs, ArmCheck(r)
      PROVE  CoreParts'
  BY <1>1 DEF ArmCheck
<1>2. CASE ArmCommit
  BY <1>2 DEF ArmCommit
<1>3. CASE ExecuteCheck
  BY <1>3 DEF ExecuteCheck
<1>4. CASE ExecuteRefused
  BY <1>4 DEF ExecuteRefused
<1>5. CASE ExecuteAdmit
  BY <1>5 DEF ExecuteAdmit
<1>6. CASE ExecuteKilledAfterAdmission
  BY <1>6 DEF ExecuteKilledAfterAdmission, AbortRemaining
<1>7. CASE EngineStart
  BY <1>7 DEF EngineStart
<1>8. CASE EngineThrow
  BY <1>8 DEF EngineThrow, AbortRemaining, Returned
<1>9. CASE EngineReturn
  BY <1>9 DEF EngineReturn, Returned
<1>10. CASE RecordFacts
  BY <1>10 DEF RecordFacts, RecordedState, Account
<1>11. CASE ExecuteAbort
  BY <1>11 DEF ExecuteAbort, AbortRemaining
<1>12. CASE RequestEnd
  BY <1>12 DEF RequestEnd, CloseRequest, AbortRunIfUnsent
<1>13. ASSUME NEW e \in Execs, WalletUnsent(e)
      PROVE  CoreParts'
  BY <1>13 DEF WalletUnsent, At, To
<1>14. ASSUME NEW e \in Execs, WalletGate(e)
      PROVE  CoreParts'
  BY <1>14 DEF WalletGate, At, To
<1>15. ASSUME NEW e \in Execs, WalletSignFails(e)
      PROVE  CoreParts'
  BY <1>15 DEF WalletSignFails, At, To, Release
<1>16. ASSUME NEW e \in Execs, WalletSigned(e)
      PROVE  CoreParts'
  BY <1>16 DEF WalletSigned, At, To
<1>17. ASSUME NEW e \in Execs, WalletCheckKill(e)
      PROVE  CoreParts'
  BY <1>17 DEF WalletCheckKill, At, To, Release
<1>18. ASSUME NEW e \in Execs, WalletSend(e)
      PROVE  CoreParts'
  BY <1>18 DEF WalletSend, At, To
<1>19. ASSUME NEW e \in Execs, WalletRefused(e)
      PROVE  CoreParts'
  BY <1>19 DEF WalletRefused, At, To, Release
<1>20. ASSUME NEW e \in Execs, WalletAnswer(e)
      PROVE  CoreParts'
  BY <1>20 DEF WalletAnswer, At, To, KeepForRecovery
<1>21. ASSUME NEW e \in Execs, WalletTimeout(e)
      PROVE  CoreParts'
  BY <1>21 DEF WalletTimeout, At, To, KeepForRecovery
<1>22. ASSUME NEW e \in Execs, WalletReceipt(e)
      PROVE  CoreParts'
  BY <1>22 DEF WalletReceipt, At, To
<1>23. ASSUME NEW e \in Execs, WalletSettle(e)
      PROVE  CoreParts'
  BY <1>23 DEF WalletSettle, At, To, KeepForRecovery
<1>24. ASSUME NEW e \in Execs, Mine(e)
      PROVE  CoreParts'
  BY <1>24 DEF Mine
<1>25. CASE KillFile
  BY <1>25 DEF KillFile
<1>26. CASE KillFlag
  BY <1>26 DEF KillFlag
<1>27. CASE KillAbort
  BY <1>27 DEF KillAbort, AbortRemaining
<1>28. CASE ReleaseFlag
  BY <1>28 DEF ReleaseFlag
<1>29. CASE ReleaseFile
  BY <1>29 DEF ReleaseFile
<1>30. CASE ReconcileTimer
  BY <1>30 DEF ReconcileTimer, StartPass, PassOver
<1>31. CASE ReconcileOwner
  BY <1>31 DEF ReconcileOwner, StartPass, PassOver
<1>32. CASE ReconcileRead
  BY <1>32 DEF ReconcileRead, ExecsOf
<1>33. CASE ReconcileApply
  <2>1. pc = "arming" /\ rec.run = cur => rec.seen = {}
    OBVIOUS
  <2>2. rec.seen = {} => ReconcileResult = "unknown"
    BY DEF ReconcileResult
  <2>3. run' = [run EXCEPT ![rec.run] = RunAfter(run[rec.run], ReconcileResult)]
    BY <1>33 DEF ReconcileApply
  <2>4. UNCHANGED <<ctl, pc, cur, killPc, boot>> /\ rec'.seen = {}
    BY <1>33 DEF ReconcileApply, PassOver
  <2>5. pc = "arming" => run'[cur] = run[cur]
    BY <2>1, <2>2, <2>3 DEF RunAfter
  <2> QED
    BY <2>4, <2>5
<1>34. CASE ReconcileThrow
  BY <1>34 DEF ReconcileThrow, PassOver
<1>35. CASE StartBegin
  BY <1>35 DEF StartBegin
<1>36. ASSUME NEW r \in Runs, StartClose(r)
      PROVE  CoreParts'
  BY <1>36 DEF StartClose, AbortRunIfUnsent, MayAbortUnsent
<1>37. CASE StartReconcile
  BY <1>37 DEF StartReconcile, StartPass, PassOver
<1>38. CASE StartFinish
  BY <1>38 DEF StartFinish
<1>39. CASE Crash
  BY <1>39 DEF Crash, PassOver
<1>40. CASE UNCHANGED vars
  BY <1>40 DEF vars
<1> QED
  BY <1>1, <1>2, <1>3, <1>4, <1>5, <1>6, <1>7, <1>8, <1>9, <1>10, <1>11,
     <1>12, <1>13, <1>14, <1>15, <1>16, <1>17, <1>18, <1>19, <1>20, <1>21,
     <1>22, <1>23, <1>24, <1>25, <1>26, <1>27, <1>28, <1>29, <1>30, <1>31,
     <1>32, <1>33, <1>34, <1>35, <1>36, <1>37, <1>38, <1>39, <1>40
  DEF Next, Request, Wallet, Kill, Pass, Start

-----------------------------------------------------------------------------
(* Runs that are closed, runs that have ended *)

(* Only admission opens a run, never one that was closed unless it was       *)
(* overtaken, and not under the kill flag; what arm commits behind a kill is closed by its request.   *)
LEMMA ShutStep ==
  ASSUME ShutInv, [Next]_vars
  PROVE  ShutParts'
<1> USE DEF ShutInv, CoreInv, HeldInv, HeldParts, ReturnedIsDone, Outcomes, SentIsHeld, BaseInv, BaseParts, TypeOK,
    EngineBelongs, SentIsLate, SeenIsMined, HasReceipt, Sent, CoreParts, ArmingIsNew, ReleaseIsOff, SeenOfRun, Fleet, Admitting,
    ShutParts, ArmedIsClean, ServedIsAdmitted, KilledIsShut, ClosedStaysClosed, HasHash, ExecsOf, ctl, ledger, notes, req, env
<1>0. cur \in Runs /\ RunOf \in [Execs -> Runs]
  BY ConstantsAssumption
<1>1. ASSUME NEW r \in Runs, ArmCheck(r)
      PROVE  ShutParts'
  BY <1>1 DEF ArmCheck
<1>2. CASE ArmCommit
  BY <1>2 DEF ArmCommit
<1>3. CASE ExecuteCheck
  BY <1>3 DEF ExecuteCheck
<1>4. CASE ExecuteRefused
  BY <1>4 DEF ExecuteRefused
<1>5. CASE ExecuteAdmit
  <2>1. /\ pc = "readiness" /\ pc' = "admitted" /\ ~killed
        /\ UNCHANGED <<hashed, closed, overtaken, crashes, killed, killPc, cur, eng>>
        /\ run' = [run EXCEPT ![cur] = "Active"]
    BY <1>5 DEF ExecuteAdmit, MayAdmit
  <2>2. \A e \in Execs : RunOf[e] # cur => exec'[e] = exec[e] /\ resv'[e] = resv[e]
    BY <1>5 DEF ExecuteAdmit
  <2>3. \A r \in Runs : r # cur => run'[r] = run[r]
    BY <2>1
  <2>4. run'[cur] = "Active" /\ cur \notin closed \ overtaken
    BY <1>0, <2>1
  <2>5. closed \subseteq Runs
    OBVIOUS
  <2> HIDE DEF TypeOK
  <2>6. ArmedIsClean'
    BY <1>0, <2>1, <2>2, <2>3, <2>4
  <2>7. ServedIsAdmitted' /\ KilledIsShut'
    BY <1>0, <2>1, <2>4
  <2>8. ClosedStaysClosed'
    BY <1>0, <2>1, <2>2, <2>3, <2>4, <2>5
  <2> QED
    BY <2>6, <2>7, <2>8
<1>6. CASE ExecuteKilledAfterAdmission
  <2>1. /\ \A r \in Runs : run'[r] = IF run[r] \in {"Armed", "Active"} THEN "Aborted" ELSE run[r]
        /\ \A e \in Execs : exec'[e] # exec[e] => exec[e] # "none"
        /\ \A e \in Execs : resv'[e] \in {resv[e], "released"}
    BY <1>6, AbortCloses DEF ExecuteKilledAfterAdmission
  <2>2. UNCHANGED <<hashed, closed, overtaken, crashes, eng>> /\ pc # "idle" /\ pc' = "close" /\ cur' = cur
    BY <1>6 DEF ExecuteKilledAfterAdmission
  <2> HIDE DEF TypeOK
  <2>3. ArmedIsClean' /\ ServedIsAdmitted'
    BY <1>0, <2>1, <2>2
  <2>4. KilledIsShut'
    BY <1>0, <2>1, <2>2
  <2>5. ClosedStaysClosed'
    <3>1. \A r \in closed \ overtaken : run'[r] = "Aborted"
      BY <2>1 DEF TypeOK
    <3> QED
      BY <2>1, <2>2, <3>1
  <2> QED
    BY <2>3, <2>4, <2>5
<1>7. CASE EngineStart
  BY <1>7 DEF EngineStart
<1>8. CASE EngineThrow
  <2>1. /\ \A r \in Runs : run'[r] \in {run[r], "Aborted"} /\ (run[r] \in {"Aborted", "Completed", "Failed"} => run'[r] = run[r])
        /\ \A e \in Execs : exec'[e] # exec[e] => exec[e] # "none"
        /\ \A e \in Execs : resv'[e] \in {resv[e], "released"}
    BY <1>8, AbortCloses DEF EngineThrow
  <2>2. UNCHANGED <<hashed, closed, overtaken, crashes, killed, killPc, eng>> /\ pc \in {"admitted", "engine"} /\ pc' = "close" /\ cur' = cur
    BY <1>8 DEF EngineThrow, Returned
  <2> HIDE DEF TypeOK
  <2>3. ArmedIsClean' /\ ServedIsAdmitted'
    BY <1>0, <2>1, <2>2
  <2>4. KilledIsShut'
    BY <1>0, <2>1, <2>2
  <2>5. ClosedStaysClosed'
    <3>1. \A r \in closed \ overtaken : run'[r] = "Aborted"
      BY <2>1 DEF TypeOK
    <3> QED
      BY <2>1, <2>2, <3>1
  <2> QED
    BY <2>3, <2>4, <2>5
<1>9. CASE EngineReturn
  BY <1>9 DEF EngineReturn, Returned, ExecsOf
<1>10. CASE RecordFacts
  <2>1. /\ pc = "record" /\ pc' \in {"abort", "close"} /\ run[cur] \notin {"None", "Armed"}
        /\ UNCHANGED <<hashed, closed, overtaken, crashes, killed, killPc, cur, eng>>
    BY <1>10 DEF RecordFacts
  <2>2. /\ \A r \in Runs : r # cur => run'[r] = run[r]
        /\ \A e \in Execs : RunOf[e] # cur => exec'[e] = exec[e]
        /\ \A e \in Execs : resv'[e] \in {"reserved", "settled"} => resv[e] \in {"reserved", "settled"}
    BY <1>10 DEF RecordFacts, Account, ExecsOf
  <2>3. /\ run'[cur] \in {run[cur], "Aborted", "Failed", "Completed"}
        /\ run[cur] = "Aborted" => run'[cur] = "Aborted"
    BY <1>0, <1>10 DEF RecordFacts, RecordedState, MayTransition
  <2> HIDE DEF TypeOK
  <2>4. ArmedIsClean' /\ ServedIsAdmitted'
    BY <1>0, <2>1, <2>2, <2>3
  <2>5. KilledIsShut'
    BY <1>0, <2>1, <2>2, <2>3
  <2>6. ClosedStaysClosed'
    <3>1. \A r \in closed \ overtaken : run'[r] = "Aborted"
      BY <2>2, <2>3 DEF TypeOK
    <3> QED
      BY <2>1, <2>2, <3>1
  <2> QED
    BY <2>4, <2>5, <2>6
<1>11. CASE ExecuteAbort
  <2>1. /\ \A r \in Runs : run'[r] = IF run[r] \in {"Armed", "Active"} THEN "Aborted" ELSE run[r]
        /\ \A e \in Execs : exec'[e] # exec[e] => exec[e] # "none"
        /\ \A e \in Execs : resv'[e] \in {resv[e], "released"}
    BY <1>11, AbortCloses DEF ExecuteAbort
  <2>2. UNCHANGED <<hashed, closed, overtaken, crashes, eng>> /\ pc # "idle" /\ pc' = "close" /\ cur' = cur
    BY <1>11 DEF ExecuteAbort
  <2> HIDE DEF TypeOK
  <2>3. ArmedIsClean' /\ ServedIsAdmitted'
    BY <1>0, <2>1, <2>2
  <2>4. KilledIsShut'
    BY <1>0, <2>1, <2>2
  <2>5. ClosedStaysClosed'
    <3>1. \A r \in closed \ overtaken : run'[r] = "Aborted"
      BY <2>1 DEF TypeOK
    <3> QED
      BY <2>1, <2>2, <3>1
  <2> QED
    BY <2>3, <2>4, <2>5
<1>12. CASE RequestEnd
  <2>1. /\ \A r \in Runs : run'[r] = run[r] \/ (r = cur /\ run'[r] = "Aborted" /\ run[r] \in {"Armed", "Active"})
        /\ \A e \in Execs : exec'[e] # exec[e] => exec[e] # "none"
        /\ \A e \in Execs : resv'[e] \in {resv[e], "released"}
        /\ \/ closed' = closed
           \/ /\ closed' = closed \cup {cur} /\ run'[cur] = "Aborted" /\ ~HasHash(cur)
              /\ \A e \in ExecsOf(cur) : resv[e] = "reserved" => resv'[e] = "released"
        /\ run'[cur] # "Armed"
    <3>1. CASE run[cur] = "Completed"
      BY <1>0, <3>1, <1>12 DEF RequestEnd, CloseRequest
    <3>2. CASE run[cur] # "Completed"
      <4>1. AbortRunIfUnsent(cur)
        BY <3>2, <1>12 DEF RequestEnd, CloseRequest
      <4>2. run'[cur] # "Armed"
        <5>1. run[cur] = "Armed" => \A e \in ExecsOf(cur) : exec[e] = "none" /\ ~hashed[e]
          OBVIOUS
        <5> QED
          BY <1>0, <4>1, <5>1, CloseCloses
      <4> QED
        BY <1>0, <4>1, <4>2, CloseCloses
    <3> QED
      BY <3>1, <3>2
  <2>2. /\ UNCHANGED <<hashed, overtaken, killed, killPc, crashes>> /\ pc' = "idle" /\ pc = "close" /\ cur' = cur
        /\ eng' = [e \in Execs |-> "none"]
    BY <1>12 DEF RequestEnd
  <2>3. \A e \in Execs : resv[e] = "settled" => hashed[e]
    BY DEF SettledIsMined
  <2>4. \A r \in Runs : run[r] \in {"Aborted", "Completed", "Failed"} => run'[r] = run[r]
    BY <2>1
  <2>5. closed \subseteq Runs
    OBVIOUS
  <2> HIDE DEF TypeOK
  <2>6. ArmedIsClean' /\ ServedIsAdmitted'
    BY <1>0, <2>1, <2>2
  <2>7. KilledIsShut'
    BY <1>0, <2>1, <2>2
  <2>8. ClosedStaysClosed'
    BY <1>0, <2>1, <2>2, <2>3, <2>4, <2>5
  <2> QED
    BY <2>6, <2>7, <2>8
<1>13. ASSUME NEW e \in Execs, WalletUnsent(e)
      PROVE  ShutParts'
  BY <1>13 DEF WalletUnsent, At, To
<1>14. ASSUME NEW e \in Execs, WalletGate(e)
      PROVE  ShutParts'
  BY <1>14 DEF WalletGate, At, To, GateOpen
<1>15. ASSUME NEW e \in Execs, WalletSignFails(e)
      PROVE  ShutParts'
  BY <1>15 DEF WalletSignFails, At, To, Release
<1>16. ASSUME NEW e \in Execs, WalletSigned(e)
      PROVE  ShutParts'
  BY <1>16 DEF WalletSigned, At, To, SafeMove
<1>17. ASSUME NEW e \in Execs, WalletCheckKill(e)
      PROVE  ShutParts'
  BY <1>17 DEF WalletCheckKill, At, To, Release
<1>18. ASSUME NEW e \in Execs, WalletSend(e)
      PROVE  ShutParts'
  BY <1>18 DEF WalletSend, At, To
<1>19. ASSUME NEW e \in Execs, WalletRefused(e)
      PROVE  ShutParts'
  BY <1>19 DEF WalletRefused, At, To, Release, StoreAnswer, SafeMove
<1>20. ASSUME NEW e \in Execs, WalletAnswer(e)
      PROVE  ShutParts'
  BY <1>20 DEF WalletAnswer, At, To, KeepForRecovery, StoreAnswer, SafeMove
<1>21. ASSUME NEW e \in Execs, WalletTimeout(e)
      PROVE  ShutParts'
  BY <1>21 DEF WalletTimeout, At, To, KeepForRecovery
<1>22. ASSUME NEW e \in Execs, WalletReceipt(e)
      PROVE  ShutParts'
  BY <1>22 DEF WalletReceipt, At, To, SafeMove
<1>23. ASSUME NEW e \in Execs, WalletSettle(e)
      PROVE  ShutParts'
  BY <1>23 DEF WalletSettle, At, To, KeepForRecovery
<1>24. ASSUME NEW e \in Execs, Mine(e)
      PROVE  ShutParts'
  BY <1>24 DEF Mine
<1>25. CASE KillFile
  BY <1>25 DEF KillFile
<1>26. CASE KillFlag
  BY <1>26 DEF KillFlag
<1>27. CASE KillAbort
  <2>1. /\ \A r \in Runs : run'[r] = IF run[r] \in {"Armed", "Active"} THEN "Aborted" ELSE run[r]
        /\ \A e \in Execs : exec'[e] # exec[e] => exec[e] # "none"
        /\ \A e \in Execs : resv'[e] \in {resv[e], "released"}
    BY <1>27, AbortCloses DEF KillAbort
  <2>2. UNCHANGED <<hashed, closed, crashes>> /\ UNCHANGED <<pc, cur, eng>> /\ overtaken \subseteq overtaken'
    BY <1>27 DEF KillAbort
  <2> HIDE DEF TypeOK
  <2>3. ArmedIsClean' /\ ServedIsAdmitted'
    BY <1>0, <2>1, <2>2
  <2>4. KilledIsShut'
    BY <1>0, <2>1, <2>2
  <2>5. ClosedStaysClosed'
    <3>1. \A r \in closed \ overtaken : run'[r] = "Aborted"
      BY <2>1 DEF TypeOK
    <3> QED
      BY <2>1, <2>2, <3>1
  <2> QED
    BY <2>3, <2>4, <2>5
<1>28. CASE ReleaseFlag
  BY <1>28 DEF ReleaseFlag
<1>29. CASE ReleaseFile
  BY <1>29 DEF ReleaseFile
<1>30. CASE ReconcileTimer
  BY <1>30 DEF ReconcileTimer, StartPass, PassOver
<1>31. CASE ReconcileOwner
  BY <1>31 DEF ReconcileOwner, StartPass, PassOver
<1>32. CASE ReconcileRead
  BY <1>32 DEF ReconcileRead
<1>33. CASE ReconcileApply
  BY <1>33 DEF ReconcileApply, PassOver, RunAfter, Account, SafeMove
<1>34. CASE ReconcileThrow
  BY <1>34 DEF ReconcileThrow, PassOver
<1>35. CASE StartBegin
  BY <1>35 DEF StartBegin
<1>36. ASSUME NEW r \in Runs, StartClose(r)
      PROVE  ShutParts'
  <2>1. /\ \A s \in Runs : run'[s] = run[s] \/ (s = r /\ run'[s] = "Aborted" /\ run[s] \in {"Armed", "Active"})
        /\ \A e \in Execs : exec'[e] # exec[e] => exec[e] # "none"
        /\ \A e \in Execs : resv'[e] \in {resv[e], "released"}
        /\ \/ closed' = closed
           \/ /\ closed' = closed \cup {r} /\ run'[r] = "Aborted" /\ ~HasHash(r)
              /\ \A e \in ExecsOf(r) : resv[e] = "reserved" => resv'[e] = "released"
    BY <1>36, CloseCloses DEF StartClose
  <2>2. UNCHANGED <<hashed, killed, killPc, crashes, pc, cur, eng>> /\ overtaken \subseteq overtaken'
    BY <1>36 DEF StartClose
  <2>3. \A e \in Execs : resv[e] = "settled" => hashed[e]
    BY DEF SettledIsMined
  <2>4. \A s \in Runs : run[s] \in {"Aborted", "Completed", "Failed"} => run'[s] = run[s]
    BY <2>1
  <2>5. closed \subseteq Runs
    OBVIOUS
  <2>9. closed' = closed \/ (closed' = closed \cup {r} /\ (UsedMeanwhile(r) => r \in overtaken'))
    BY <1>36 DEF StartClose, AbortRunIfUnsent
  <2>10. ServedIsAdmitted'
    <3>1. /\ pc \in {"admitted", "engine", "record", "abort"} => run'[cur] \notin {"None", "Armed"}
          /\ pc = "readiness" => cur \notin closed' \ overtaken'
      BY <1>0, <2>1, <2>2, <2>9 DEF UsedMeanwhile
    <3>2. ASSUME NEW e \in Execs, eng[e] = "gated" PROVE RunOf[e] \notin closed' \ overtaken'
      BY <3>2, <2>2, <2>9 DEF UsedMeanwhile
    <3> QED
      BY <2>2, <3>1, <3>2
  <2> HIDE DEF TypeOK
  <2>6. ArmedIsClean'
    BY <1>0, <2>1, <2>2
  <2>7. KilledIsShut'
    BY <1>0, <2>1, <2>2
  <2>8. ClosedStaysClosed'
    BY <1>0, <2>1, <2>2, <2>3, <2>4, <2>5
  <2> QED
    BY <2>6, <2>7, <2>8, <2>10
<1>37. CASE StartReconcile
  BY <1>37 DEF StartReconcile, StartPass, PassOver
<1>38. CASE StartFinish
  BY <1>38 DEF StartFinish
<1>39. CASE Crash
  BY <1>39 DEF Crash, PassOver
<1>40. CASE UNCHANGED vars
  BY <1>40 DEF vars
<1> QED
  BY <1>1, <1>2, <1>3, <1>4, <1>5, <1>6, <1>7, <1>8, <1>9, <1>10, <1>11,
     <1>12, <1>13, <1>14, <1>15, <1>16, <1>17, <1>18, <1>19, <1>20, <1>21,
     <1>22, <1>23, <1>24, <1>25, <1>26, <1>27, <1>28, <1>29, <1>30, <1>31,
     <1>32, <1>33, <1>34, <1>35, <1>36, <1>37, <1>38, <1>39, <1>40
  DEF Next, Request, Wallet, Kill, Pass, Start

(* A run ends by the result of all its wallets, or by a pass that has seen   *)
(* one of them mined.                                                        *)
LEMMA EndedStep ==
  ASSUME EndedInv, [Next]_vars
  PROVE  EndedParts'
<1> USE DEF EndedInv, CoreInv, HeldInv, HeldParts, SentIsHeld, BaseInv, BaseParts, TypeOK,
    EngineBelongs, SentIsLate, StepTellsSent, SeenIsMined, HasReceipt, Sent, SettledIsMined, CoreParts, SeenOfRun, Fleet, Admitting, ReturnedIsDone,
    EndedParts, OutcomeTells, EndedIsMined, EndedIsResolved, SomeMined, SiblingMined, SomeReverted, SiblingReverted, ExecsOf, Outcomes, ctl, ledger, notes, req, env
<1>0. cur \in Runs /\ RunOf \in [Execs -> Runs]
  BY ConstantsAssumption
<1>1. ASSUME NEW r \in Runs, ArmCheck(r)
      PROVE  EndedParts'
  BY <1>1 DEF ArmCheck
<1>2. CASE ArmCommit
  BY <1>2 DEF ArmCommit
<1>3. CASE ExecuteCheck
  BY <1>3 DEF ExecuteCheck
<1>4. CASE ExecuteRefused
  BY <1>4 DEF ExecuteRefused
<1>5. CASE ExecuteAdmit
  BY <1>5 DEF ExecuteAdmit
<1>6. CASE ExecuteKilledAfterAdmission
  <2>1. /\ \A r \in Runs : run'[r] \in {"Completed", "Failed"} => run'[r] = run[r]
        /\ \A e \in Execs : hashed[e] => resv'[e] = resv[e]
    BY <1>6, AbortFacts, AbortCloses DEF ExecuteKilledAfterAdmission
  <2>2. /\ UNCHANGED <<hashed, chain, recon, cur>>
        /\ pc' = "close" /\ eng' = eng
    BY <1>6 DEF ExecuteKilledAfterAdmission
  <2>3. \A e \in Execs : eng[e] \in {"success", "reverted"} => hashed[e]
    OBVIOUS
  <2> HIDE DEF TypeOK
  <2>4. OutcomeTells'
    BY <2>1, <2>2, <2>3
  <2>5. EndedIsMined' /\ EndedIsResolved'
    BY <1>0, <2>1, <2>2
  <2> QED
    BY <2>4, <2>5
<1>7. CASE EngineStart
  BY <1>7 DEF EngineStart
<1>8. CASE EngineThrow
  <2>1. /\ \A r \in Runs : run'[r] \in {"Completed", "Failed"} => run'[r] = run[r]
        /\ \A e \in Execs : hashed[e] => resv'[e] = resv[e]
    BY <1>8, AbortFacts, AbortCloses DEF EngineThrow
  <2>2. /\ UNCHANGED <<hashed, chain, recon, cur>>
        /\ pc' = "close" /\ eng' = eng
    BY <1>8 DEF EngineThrow
  <2>3. \A e \in Execs : eng[e] \in {"success", "reverted"} => hashed[e]
    OBVIOUS
  <2> HIDE DEF TypeOK
  <2>4. OutcomeTells'
    BY <2>1, <2>2, <2>3
  <2>5. EndedIsMined' /\ EndedIsResolved'
    BY <1>0, <2>1, <2>2
  <2> QED
    BY <2>4, <2>5
<1>9. CASE EngineReturn
  BY <1>9 DEF EngineReturn, Returned, ExecsOf
<1>10. CASE RecordFacts
  <2>1. /\ pc = "record" /\ pc' \in {"abort", "close"}
        /\ UNCHANGED <<hashed, chain, recon, cur, eng>>
    BY <1>10 DEF RecordFacts
  <2>2. /\ \A r \in Runs : r # cur => run'[r] = run[r]
        /\ \A e \in Execs : resv'[e] = resv[e] \/ (resv'[e] = "settled" /\ resv[e] = "reserved")
    BY <1>10 DEF RecordFacts, Account
  <2>3. CASE run'[cur] = run[cur] \/ run'[cur] \notin {"Completed", "Failed"}
    BY <1>0, <2>1, <2>2, <2>3
  <2>4. CASE run'[cur] # run[cur] /\ run'[cur] \in {"Completed", "Failed"}
    <3>1. RecordedState = run'[cur] /\ ResultState \in {"Failed", "Confirmed"}
      BY <1>0, <2>4, <1>10 DEF RecordFacts, RecordedState
    <3>2. \A e \in ExecsOf(cur) : eng[e] \in {"unsent", "failedSigned", "success", "reverted"}
      <4>1. \A e \in ExecsOf(cur) : eng[e] \in Outcomes \ {"noid"}
        BY <2>1
      <4>2. \A e \in ExecsOf(cur) : eng[e] \notin {"timeout", "unstored"}
        BY <3>1, SMTT(30) DEF ResultState
      <4> QED
        BY <4>1, <4>2
    <3>3. \A e \in ExecsOf(cur) : Sent(e) => resv[e] = "settled"
      BY <3>2
    <3> HIDE DEF TypeOK
    <3>4. EndedIsResolved'
      BY <1>0, <2>1, <2>2, <3>3
    <3>5. OutcomeTells' /\ EndedIsMined'
      BY <1>0, <2>1, <2>2
    <3> QED
      BY <3>4, <3>5
  <2> QED
    BY <2>3, <2>4
<1>11. CASE ExecuteAbort
  <2>1. /\ \A r \in Runs : run'[r] \in {"Completed", "Failed"} => run'[r] = run[r]
        /\ \A e \in Execs : hashed[e] => resv'[e] = resv[e]
    BY <1>11, AbortFacts, AbortCloses DEF ExecuteAbort
  <2>2. /\ UNCHANGED <<hashed, chain, recon, cur>>
        /\ pc' = "close" /\ eng' = eng
    BY <1>11 DEF ExecuteAbort
  <2>3. \A e \in Execs : eng[e] \in {"success", "reverted"} => hashed[e]
    OBVIOUS
  <2> HIDE DEF TypeOK
  <2>4. OutcomeTells'
    BY <2>1, <2>2, <2>3
  <2>5. EndedIsMined' /\ EndedIsResolved'
    BY <1>0, <2>1, <2>2
  <2> QED
    BY <2>4, <2>5
<1>12. CASE RequestEnd
  <2>1. /\ \A r \in Runs : run'[r] \in {"Completed", "Failed"} => run'[r] = run[r]
        /\ \A e \in Execs : hashed[e] => resv'[e] = resv[e]
    <3>1. CASE run[cur] = "Completed"
      BY <3>1, <1>12 DEF RequestEnd, CloseRequest
    <3>2. CASE run[cur] # "Completed"
      <4>1. AbortRunIfUnsent(cur)
        BY <3>2, <1>12 DEF RequestEnd, CloseRequest
      <4> QED
        BY <1>0, <4>1, CloseFacts, CloseCloses
    <3> QED
      BY <3>1, <3>2
  <2>2. /\ UNCHANGED <<hashed, chain, recon, cur>>
        /\ pc' = "idle" /\ eng' = [e \in Execs |-> "none"]
    BY <1>12 DEF RequestEnd
  <2>3. \A e \in Execs : eng[e] \in {"success", "reverted"} => hashed[e]
    OBVIOUS
  <2> HIDE DEF TypeOK
  <2>4. OutcomeTells'
    BY <2>1, <2>2, <2>3
  <2>5. EndedIsMined' /\ EndedIsResolved'
    BY <1>0, <2>1, <2>2
  <2> QED
    BY <2>4, <2>5
<1>13. ASSUME NEW e \in Execs, WalletUnsent(e)
      PROVE  EndedParts'
  BY <1>13 DEF WalletUnsent, At, To
<1>14. ASSUME NEW e \in Execs, WalletGate(e)
      PROVE  EndedParts'
  BY <1>14 DEF WalletGate, At, To
<1>15. ASSUME NEW e \in Execs, WalletSignFails(e)
      PROVE  EndedParts'
  BY <1>15 DEF WalletSignFails, At, To, Release
<1>16. ASSUME NEW e \in Execs, WalletSigned(e)
      PROVE  EndedParts'
  BY <1>16 DEF WalletSigned, At, To, SafeMove
<1>17. ASSUME NEW e \in Execs, WalletCheckKill(e)
      PROVE  EndedParts'
  BY <1>17 DEF WalletCheckKill, At, To, Release
<1>18. ASSUME NEW e \in Execs, WalletSend(e)
      PROVE  EndedParts'
  BY <1>18 DEF WalletSend, At, To
<1>19. ASSUME NEW e \in Execs, WalletRefused(e)
      PROVE  EndedParts'
  BY <1>19 DEF WalletRefused, At, To, Release, StoreAnswer, SafeMove
<1>20. ASSUME NEW e \in Execs, WalletAnswer(e)
      PROVE  EndedParts'
  BY <1>20 DEF WalletAnswer, At, To, KeepForRecovery, StoreAnswer, SafeMove
<1>21. ASSUME NEW e \in Execs, WalletTimeout(e)
      PROVE  EndedParts'
  BY <1>21 DEF WalletTimeout, At, To, KeepForRecovery
<1>22. ASSUME NEW e \in Execs, WalletReceipt(e)
      PROVE  EndedParts'
  BY <1>22 DEF WalletReceipt, At, To, SafeMove
<1>23. ASSUME NEW e \in Execs, WalletSettle(e)
      PROVE  EndedParts'
  BY <1>23 DEF WalletSettle, At, To, KeepForRecovery
<1>24. ASSUME NEW e \in Execs, Mine(e)
      PROVE  EndedParts'
  BY <1>24 DEF Mine
<1>25. CASE KillFile
  BY <1>25 DEF KillFile
<1>26. CASE KillFlag
  BY <1>26 DEF KillFlag
<1>27. CASE KillAbort
  <2>1. /\ \A r \in Runs : run'[r] \in {"Completed", "Failed"} => run'[r] = run[r]
        /\ \A e \in Execs : hashed[e] => resv'[e] = resv[e]
    BY <1>27, AbortFacts, AbortCloses DEF KillAbort
  <2>2. /\ UNCHANGED <<hashed, chain, recon, cur>>
        /\ UNCHANGED <<pc, eng>>
    BY <1>27 DEF KillAbort
  <2>3. \A e \in Execs : eng[e] \in {"success", "reverted"} => hashed[e]
    OBVIOUS
  <2> HIDE DEF TypeOK
  <2>4. OutcomeTells'
    BY <2>1, <2>2, <2>3
  <2>5. EndedIsMined' /\ EndedIsResolved'
    BY <1>0, <2>1, <2>2
  <2> QED
    BY <2>4, <2>5
<1>28. CASE ReleaseFlag
  BY <1>28 DEF ReleaseFlag
<1>29. CASE ReleaseFile
  BY <1>29 DEF ReleaseFile
<1>30. CASE ReconcileTimer
  BY <1>30 DEF ReconcileTimer, StartPass, PassOver
<1>31. CASE ReconcileOwner
  BY <1>31 DEF ReconcileOwner, StartPass, PassOver
<1>32. CASE ReconcileRead
  BY <1>32 DEF ReconcileRead
<1>33. CASE ReconcileApply
  <2>1. /\ run' = [run EXCEPT ![rec.run] = RunAfter(run[rec.run], ReconcileResult)]
        /\ resv' = Account(rec.seen)
        /\ recon' = IF rec.had = {} THEN recon ELSE [recon EXCEPT ![rec.run] = ReadBack(ReconcileResult)]
        /\ UNCHANGED <<hashed, chain, cur, eng, pc>>
        /\ rec.run \in Runs
    BY <1>33 DEF ReconcileApply
  <2>2. /\ ReconcileResult = "confirmed" => \E f \in rec.seen : HasReceipt(f)
        /\ ReconcileResult = "failed" => \E f \in rec.seen : chain[f] = "reverted"
    BY DEF ReconcileResult
  <2>3. /\ \A r \in Runs : r # rec.run => run'[r] = run[r] /\ recon'[r] = recon[r]
        /\ run'[rec.run] = "Completed" /\ run[rec.run] # "Completed" => ReconcileResult = "confirmed"
        /\ run'[rec.run] = "Failed" /\ run[rec.run] # "Failed" => ReconcileResult = "failed"
        /\ recon'[rec.run] = "confirmed" => recon[rec.run] = "confirmed" \/ ReconcileResult = "confirmed"
    BY <2>1 DEF RunAfter, ReadBack
  <2>4. \A e \in Execs :
           /\ resv[e] = "settled" => resv'[e] = "settled"
           /\ resv'[e] = "reserved" => resv[e] = "reserved" /\ e \notin rec.seen
    BY <2>1 DEF Account
  <2>0. /\ OutcomeTells /\ EndedIsMined /\ EndedIsResolved /\ rec.seen \in SUBSET Execs /\ SeenOfRun /\ SeenIsMined
        /\ cur \in Runs /\ RunOf \in [Execs -> Runs]
    BY <1>0
  <2> HIDE DEF TypeOK, EndedInv, CoreInv, HeldInv, BaseInv
  <2>5. OutcomeTells'
    BY <2>0, <2>1, <2>4
  <2>6. EndedIsMined'
    BY <2>0, <2>1, <2>2, <2>3
  <2>7. EndedIsResolved'
    <3>1. ASSUME NEW e \in Execs, chain[e] = "pool", run'[RunOf[e]] \in {"Completed", "Failed"}
          PROVE  SiblingMined(e)
      <4>1. CASE run'[RunOf[e]] = run[RunOf[e]]
        BY <2>0, <3>1, <4>1
      <4>2. CASE run'[RunOf[e]] # run[RunOf[e]]
        <5>1. RunOf[e] = rec.run /\ ReconcileResult \in {"confirmed", "failed"}
          BY <2>0, <2>3, <3>1, <4>2
        <5>2. PICK f \in rec.seen : f \in Execs /\ RunOf[f] = rec.run /\ HasReceipt(f)
          BY <2>0, <2>2, <5>1
        <5> QED
          BY <3>1, <5>1, <5>2
      <4> QED
        BY <4>1, <4>2
    <3>2. ASSUME NEW e \in Execs, chain[e] = "pool" \/ (Sent(e) /\ resv'[e] = "reserved"), run'[RunOf[e]] = "Failed"
          PROVE  SiblingReverted(e)
      <4>0. e \notin rec.seen /\ (chain[e] = "pool" \/ (Sent(e) /\ resv[e] = "reserved"))
        BY <2>0, <2>4, <3>2
      <4>1. CASE run[RunOf[e]] = "Failed"
        BY <2>0, <4>0, <4>1
      <4>2. CASE run[RunOf[e]] # "Failed"
        <5>1. RunOf[e] = rec.run /\ ReconcileResult = "failed"
          BY <2>0, <2>3, <3>2, <4>2
        <5>2. PICK f \in rec.seen : f \in Execs /\ RunOf[f] = rec.run /\ chain[f] = "reverted"
          BY <2>0, <2>2, <5>1
        <5> QED
          BY <4>0, <5>1, <5>2
      <4> QED
        BY <4>1, <4>2
    <3> QED
      BY <2>1, <3>1, <3>2
  <2> QED
    BY <2>5, <2>6, <2>7
<1>34. CASE ReconcileThrow
  BY <1>34 DEF ReconcileThrow, PassOver
<1>35. CASE StartBegin
  BY <1>35 DEF StartBegin
<1>36. ASSUME NEW r \in Runs, StartClose(r)
      PROVE  EndedParts'
  <2>1. /\ \A s \in Runs : run'[s] \in {"Completed", "Failed"} => run'[s] = run[s]
        /\ \A e \in Execs : hashed[e] => resv'[e] = resv[e]
    BY <1>36, CloseFacts, CloseCloses DEF StartClose
  <2>2. /\ UNCHANGED <<hashed, chain, recon, cur>>
        /\ UNCHANGED <<pc, eng>>
    BY <1>36 DEF StartClose
  <2>3. \A e \in Execs : eng[e] \in {"success", "reverted"} => hashed[e]
    OBVIOUS
  <2> HIDE DEF TypeOK
  <2>4. OutcomeTells'
    BY <2>1, <2>2, <2>3
  <2>5. EndedIsMined' /\ EndedIsResolved'
    BY <1>0, <2>1, <2>2
  <2> QED
    BY <2>4, <2>5
<1>37. CASE StartReconcile
  BY <1>37 DEF StartReconcile, StartPass, PassOver
<1>38. CASE StartFinish
  BY <1>38 DEF StartFinish
<1>39. CASE Crash
  BY <1>39 DEF Crash, PassOver
<1>40. CASE UNCHANGED vars
  BY <1>40 DEF vars
<1> QED
  BY <1>1, <1>2, <1>3, <1>4, <1>5, <1>6, <1>7, <1>8, <1>9, <1>10, <1>11,
     <1>12, <1>13, <1>14, <1>15, <1>16, <1>17, <1>18, <1>19, <1>20, <1>21,
     <1>22, <1>23, <1>24, <1>25, <1>26, <1>27, <1>28, <1>29, <1>30, <1>31,
     <1>32, <1>33, <1>34, <1>35, <1>36, <1>37, <1>38, <1>39, <1>40
  DEF Next, Request, Wallet, Kill, Pass, Start

(* Only the first step of a release begins one.                              *)
LEMMA OnlyReleaseBegins ==
  ASSUME [Next]_vars, killPc' = "releasing", killPc # "releasing"
  PROVE  ReleaseFlag
<1> USE DEF env, req, ctl
<1>1. CASE \E r \in Runs : ArmCheck(r)
  BY <1>1 DEF ArmCheck
<1>2. CASE Request
  BY <1>2 DEF Request, ArmCommit, ExecuteCheck, ExecuteRefused, ExecuteAdmit, ExecuteKilledAfterAdmission,
     EngineStart, EngineThrow, EngineReturn, RecordFacts, ExecuteAbort, RequestEnd
<1>3. ASSUME NEW e \in Execs, Wallet(e) \/ Mine(e) PROVE FALSE
  BY <1>3 DEF Wallet, WalletUnsent, WalletGate, WalletSignFails, WalletSigned, WalletCheckKill, WalletSend,
     WalletRefused, WalletAnswer, WalletTimeout, WalletReceipt, WalletSettle, Mine
<1>4. CASE Kill
  BY <1>4 DEF Kill, KillFile, KillFlag, KillAbort, ReleaseFile
<1>5. CASE ReconcileTimer \/ ReconcileOwner \/ Pass
  BY <1>5 DEF ReconcileTimer, ReconcileOwner, Pass, ReconcileRead, ReconcileApply, ReconcileThrow
<1>6. CASE Start \/ Crash
  BY <1>6 DEF Start, StartBegin, StartClose, StartReconcile, StartFinish, Crash
<1>7. CASE UNCHANGED vars
  BY <1>7 DEF vars
<1> QED
  BY <1>1, <1>2, <1>3, <1>4, <1>5, <1>6, <1>7 DEF Next

-----------------------------------------------------------------------------
(* The theorems *)

(* The initial states satisfy every part of the invariants.                  *)
LEMMA InitHolds == Init => HeldInv /\ FleetInv /\ FreshInv
<1> SUFFICES ASSUME Init PROVE HeldInv /\ FleetInv /\ FreshInv
  OBVIOUS
<1> USE DEF Init, PassOver
<1>1. 1 \in Runs /\ 0 \in 0..MaxCrashes /\ 0 \in 0..MaxKills
  BY ConstantsAssumption DEF Runs
<1>2. TypeOK
  BY <1>1 DEF TypeOK, RunStates, ExecStates, ResvStates, Network, ReqSteps, EngSteps
<1>3. BaseParts
  BY DEF BaseParts, EngineBelongs, SentIsLate, RequestHasRun, StepTellsSent,
     SeenIsMined, SettledIsMined, Sent, Admitting, Fleet
<1>4. HeldParts
  BY DEF HeldParts, GateKeepsMoney, ReturnedIsDone, SentIsHeld, Sent
<1>5. FleetParts
  BY DEF FleetParts, OneInside, LateIsLast, Critical
<1>6. FreshParts
  BY DEF FreshParts, CopyIsFresh, SeenOfRun, StartIsAlone
<1> QED
  BY <1>2, <1>3, <1>4, <1>5, <1>6 DEF HeldInv, FleetInv, FreshInv, BaseInv

(* The initial states satisfy these invariants too.                          *)
LEMMA CoreInit == Init => ShutInv /\ EndedInv
<1> SUFFICES ASSUME Init PROVE ShutInv /\ EndedInv
  OBVIOUS
<1>1. CoreInv
  <2>1. CoreParts
    BY DEF Init, PassOver, CoreParts, ArmingIsNew, ReleaseIsOff, SeenOfRun
  <2> QED
    BY <2>1, InitHolds DEF CoreInv
<1>2. ShutParts
  BY DEF Init, ShutParts, ArmedIsClean, ServedIsAdmitted, KilledIsShut, ClosedStaysClosed
<1>3. OutcomeTells
  BY DEF Init, OutcomeTells, Sent
<1>4. EndedIsMined /\ EndedIsResolved
  BY DEF Init, EndedIsMined, EndedIsResolved, Sent
<1> QED
  BY <1>1, <1>2, <1>3, <1>4 DEF ShutInv, EndedInv, EndedParts

(* Every step keeps them, whatever races with the request.                   *)
LEMMA CoreStep ==
  ASSUME CoreInv, [Next]_vars
  PROVE  CoreInv'
<1>1. TypeOK' /\ BaseParts'
  BY TypeStep, BaseStep DEF CoreInv, HeldInv, BaseInv
<1>2. HeldParts'
  BY HeldStep DEF CoreInv
<1>3. CoreParts'
  BY CorePartsStep DEF CoreInv, HeldInv
<1> QED
  BY <1>1, <1>2, <1>3 DEF CoreInv, HeldInv, BaseInv

(* Every variable of the controlled-execution model keeps its type, for any  *)
(* number of runs and wallets and whatever races with the request; the       *)
(* stored reconciliation result in particular is one the store can read back *)
(* (canonical-store.ts databaseReconciliationState).                         *)
THEOREM TypeCorrect == Spec => []TypeOK
<1>1. Init => TypeOK
  BY InitHolds DEF FleetInv, BaseInv
<1>2. TypeOK /\ [Next]_vars => TypeOK'
  BY TypeStep
<1> QED
  BY <1>1, <1>2, PTL DEF Spec

(* Money is settled only against a transaction the network included,         *)
(* whichever of the engine, the recorded facts or a reconcile pass settles   *)
(* it, and whatever kills, crashes and other processes do meanwhile.         *)
THEOREM SettledMined == Spec => []SettledIsMined
<1>1. Init => BaseInv
  BY InitHolds DEF FleetInv
<1>2. BaseInv /\ [Next]_vars => BaseInv'
  BY TypeStep, BaseStep DEF BaseInv
<1>3. BaseInv => SettledIsMined
  BY DEF BaseInv, BaseParts
<1> QED
  BY <1>1, <1>2, <1>3, PTL DEF Spec

(* Whatever overlaps with the request - a kill that writes flag and file     *)
(* side by side, a second process that starts up, a hasty release - a        *)
(* transaction that reached the network always has a stored hash and         *)
(* reserved or settled money, unless its run was overtaken: an abort took    *)
(* the money of a wallet inside the gate and the kill file did not stop it   *)
(* (coordinator.ts kill, mint-engine.ts preSignReservationGate).             *)
THEOREM SentHeld == Spec => []SentIsHeld
<1>1. Init => HeldInv
  BY InitHolds
<1>2. HeldInv /\ [Next]_vars => HeldInv'
  BY TypeStep, BaseStep, HeldStep DEF HeldInv, BaseInv
<1>3. HeldInv => SentIsHeld
  BY DEF HeldInv, HeldParts
<1> QED
  BY <1>1, <1>2, <1>3, PTL DEF Spec

(* For a fleet of any size, at most one wallet goes out after the stored     *)
(* kill flag is set, as long as the switch is not released under the running *)
(* request (mint-engine.ts admissionGate).                                   *)
THEOREM FleetStopped ==
  ASSUME "quick-release" \notin Races
  PROVE  Spec => []KillStopsFleet
<1>1. Init => FleetInv
  BY InitHolds
<1>2. FleetInv /\ [Next]_vars => FleetInv'
  BY TypeStep, BaseStep, FleetStep DEF FleetInv, BaseInv
<1>3. FleetInv => KillStopsFleet
  <2> SUFFICES ASSUME FleetInv PROVE Cardinality(late) <= 1
    BY DEF KillStopsFleet
  <2>1. CASE late = {}
    BY <2>1, FS_EmptySet
  <2>2. ASSUME NEW e \in late PROVE Cardinality(late) <= 1
    <3>1. late = {e}
      BY <2>2 DEF FleetInv, FleetParts, LateIsLast
    <3> QED
      BY <3>1, FS_Singleton
  <2> QED
    BY <2>1, <2>2
<1> QED
  BY <1>1, <1>2, <1>3, PTL DEF Spec

(* A run never leaves Aborted or Failed, and Completed only for Failed, even *)
(* though admission reopens the run from a copy read before an await, when   *)
(* only kills race with the request (coordinator.ts transition).             *)
THEOREM RunsStayEnded ==
  ASSUME Races \subseteq {"concurrent-kill"}
  PROVE  Spec => TerminalStays
<1>1. Init => FreshInv
  BY InitHolds
<1>2. FreshInv /\ [Next]_vars => FreshInv'
  BY TypeStep, BaseStep, FreshStep DEF FreshInv, BaseInv
<1>3. FreshInv /\ [Next]_vars =>
        [\A r \in Runs :
           /\ run[r] \in {"Aborted", "Failed"} => run'[r] = run[r]
           /\ run[r] = "Completed" => run'[r] \in {"Completed", "Failed"}]_vars
  BY RunStep DEF RunKept
<1> QED
  BY <1>1, <1>2, <1>3, PTL DEF Spec, TerminalStays

(* Whatever overlaps with the request, a kill that was carried out and whose *)
(* interrupted request has ended leaves no run open, for any number of runs  *)
(* and kills short of a crash; and a run closed as unsent stays aborted,     *)
(* unsigned and without money set aside, unless a second process closed it   *)
(* while its request was about to admit it or inside the gate                *)
(* (coordinator.ts kill, canonical-store.ts abortRunIfUnsent,                *)
(* live-request.ts closeRun).                                                *)
THEOREM RunsAreClosed == Spec => []RunsClose
<1>1. Init => ShutInv
  BY CoreInit
<1>2. ShutInv /\ [Next]_vars => ShutInv'
  BY CoreStep, ShutStep DEF ShutInv
<1>3. ShutInv => RunsClose
  <2> SUFFICES ASSUME ShutInv PROVE RunsClose
    OBVIOUS
  <2>1. KillClosesRuns
    BY DEF ShutInv, ShutParts, KilledIsShut, KillClosesRuns
  <2> QED
    BY <2>1 DEF RunsClose, ShutInv, ShutParts
<1> QED
  BY <1>1, <1>2, <1>3, PTL DEF Spec

(* Whatever overlaps with the request, what is pending or still has money    *)
(* set aside when no request runs is read again by the next reconcile pass,  *)
(* the rest of a mixed fleet included, or a reverted wallet of the same run  *)
(* has failed the run; across crashes, kills and failing receipt reads       *)
(* (coordinator.ts reconcileOnce).                                           *)
THEOREM NothingIsOrphaned == Spec => []NoOrphan
<1>1. Init => EndedInv
  BY CoreInit
<1>2. EndedInv /\ [Next]_vars => EndedInv'
  BY CoreStep, EndedStep DEF EndedInv
<1>3. EndedInv => NoOrphan
  <2> SUFFICES ASSUME EndedInv, NEW e \in Execs, RunOf[e] \notin Candidates,
                      chain[e] = "pool" \/ (Sent(e) /\ resv[e] = "reserved")
               PROVE  Stranded(e)
    BY DEF NoOrphan
  <2>1. RunOf[e] \in Runs /\ run[RunOf[e]] \in RunStates /\ hashed[e] /\ run[RunOf[e]] # "None" /\ recon[RunOf[e]] # "final"
    BY ConstantsAssumption DEF EndedInv, CoreInv, HeldInv, HeldParts, SentIsHeld, BaseInv, BaseParts, TypeOK, SentIsLate, Sent
  <2>2. run[RunOf[e]] = "Failed"
    BY <2>1 DEF Candidates, HasHash, ExecsOf, RunStates
  <2> QED
    BY <2>2 DEF EndedInv, EndedParts, EndedIsResolved, SiblingReverted, Stranded
<1> QED
  BY <1>1, <1>2, <1>3, PTL DEF Spec

(* Whatever overlaps with the request, the kill switch is not released over  *)
(* a transaction that is still in the pool unless a wallet of its run has    *)
(* been mined (kill-switch-release.ts unresolvedRunIds).                     *)
THEOREM ReleaseWaitsForAll == Spec => ReleaseWaits
<1>1. Init => EndedInv
  BY CoreInit
<1>2. EndedInv /\ [Next]_vars => EndedInv'
  BY CoreStep, EndedStep DEF EndedInv
<1>3. EndedInv /\ [Next]_vars =>
        [killPc' = "releasing" /\ killPc # "releasing" => \A e \in Execs : chain[e] = "pool" => SiblingMined(e)]_vars
  <2> SUFFICES ASSUME EndedInv, [Next]_vars, killPc' = "releasing", killPc # "releasing",
                      NEW e \in Execs, chain[e] = "pool"
               PROVE  SiblingMined(e)
    OBVIOUS
  <2>1. Unresolved = {}
    BY OnlyReleaseBegins DEF ReleaseFlag, MayRelease
  <2>2. /\ RunOf[e] \in Runs /\ run[RunOf[e]] \in RunStates /\ hashed[e] /\ run[RunOf[e]] # "None"
        /\ recon[RunOf[e]] \in {"none", "unknown", "confirmed"}
    BY ConstantsAssumption DEF EndedInv, CoreInv, HeldInv, HeldParts, SentIsHeld, BaseInv, BaseParts, TypeOK, SentIsLate,
       SettledIsMined, Sent
  <2>3. CASE run[RunOf[e]] \in {"Completed", "Failed"}
    BY <2>2, <2>3 DEF EndedInv, EndedParts, EndedIsResolved, Sent
  <2>4. CASE run[RunOf[e]] \notin {"Completed", "Failed"}
    <3>1. recon[RunOf[e]] = "confirmed"
      BY <2>1, <2>2, <2>4 DEF Unresolved, Terminal, HasHash, ExecsOf, RunStates
    <3> QED
      BY <2>2, <3>1 DEF EndedInv, EndedParts, EndedIsMined, SomeMined, SiblingMined, HasReceipt, ExecsOf
  <2> QED
    BY <2>3, <2>4
<1> QED
  BY <1>1, <1>2, <1>3, PTL DEF Spec, ReleaseWaits

=============================================================================
