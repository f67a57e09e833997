-------------------------- MODULE ExecutionControl --------------------------
(***************************************************************************)
(* Controlled execution of live requests on Ethereum: the request poller   *)
(* (packages/cli/src/live-request.ts), the coordinator                     *)
(* (packages/backend/src/coordinator.ts), the canonical store transactions *)
(* it calls (packages/backend/src/canonical-store.ts), the per-wallet      *)
(* pipeline of the engine (packages/engine/src/mint-engine.ts) behind its  *)
(* adapter (packages/cli/src/engine-adapter.ts), and the two kill switches *)
(* (the stored flag and the kill-switch file).                             *)
(*                                                                         *)
(* A step is one SQLite transaction, or one stretch of code between two    *)
(* awaits.  An execution stands for one wallet of one run; amounts,        *)
(* calldata and nonces are abstracted away, and the spend caps (module     *)
(* SpendLedger) appear here as a refusal that may happen.  The public      *)
(* broadcaster is modelled: one endpoint, one answer, no replacement.  The *)
(* network is external: a transaction handed to the provider is pooled,    *)
(* refused or lost, and a pooled one may be mined, mined as reverted, or   *)
(* stay pooled for ever.                                                   *)
(***************************************************************************)
EXTENDS Naturals, FiniteSets

CONSTANTS
  NumRuns,       \* runs are numbered in the order the store lists them
  Execs,         \* executions, one per run and wallet
  RunOf,         \* the run of each execution
  MaxCrashes,    \* bound: crashes of the service in one behaviour
  MaxKills,      \* bound: kills in one behaviour
  FlakyRpc,      \* TRUE: reading an existing receipt may fail
  Races          \* what the environment may overlap with a request

Runs == 1..NumRuns

(***************************************************************************)
(* "concurrent-kill": the stored flag and the kill file are engaged side   *)
(* by side (Telegram, fleet watcher) instead of the file first (CLI).      *)
(* "operator-start": a CLI command in another process runs                 *)
(* coordinator.start on the same database while a request executes.        *)
(* "quick-release": the kill switch is released while a request or a kill  *)
(* is still running.                                                       *)
(***************************************************************************)
RaceKinds == {"concurrent-kill", "operator-start", "quick-release"}

ASSUME ConstantsAssumption ==
  /\ NumRuns \in Nat \ {0}
  /\ RunOf \in [Execs -> Runs]
  /\ IsFiniteSet(Execs)
  /\ MaxCrashes \in Nat
  /\ MaxKills \in Nat
  /\ FlakyRpc \in BOOLEAN
  /\ Races \subseteq RaceKinds

VARIABLES
  killed,     \* stored kill switch
  killFile,   \* the engine's kill-switch file exists
  startup,    \* runtime.startupState
  overtaken,  \* history: runs taken from under their running request, see Robbed, UsedMeanwhile
  run,        \* execution_run.state
  exec,       \* execution.state ("none": no row)
  resv,       \* spend_reservation.status ("none": no row)
  hashed,     \* a transaction_attempt row of the execution carries a hash
  facts,      \* the run has an execution_facts_recorded event
  closed,     \* runs with a run_closed_unsent event
  recon,      \* the run's last reconciliation, as the store reads it back
  chain,      \* what the network knows of the execution's transaction
  pc,         \* where the request being processed is
  cur,        \* the run of that request
  sawKill,    \* killedAfterExecution
  eng,        \* step of each wallet in executeFleet
  late,       \* history: executions this request sent while killed was set
  killPc,     \* "flagged": kill() has set the flag and abortRemaining is due;
              \* "releasing": the flag is off and the file is still to be removed
  boot,       \* progress of coordinator.start
  toClose,    \* runs start() still has to offer to closeUnsentRun
  rec,        \* the reconcile pass
  crashes,    \* crashes so far
  kills       \* kills so far

ctl    == <<killed, killFile, startup, overtaken>>
ledger == <<run, exec, resv, hashed>>
notes  == <<facts, closed, recon>>
req    == <<pc, cur, sawKill, eng, late>>
env    == <<killPc, boot, toClose, rec, crashes, kills>>
vars   == <<ctl, ledger, notes, chain, req, env>>

RunStates  == {"None", "Armed", "Active", "Completed", "Failed", "Aborted"}
ExecStates == {"none", "prepared", "signed", "submitted", "confirmed", "failed", "aborted"}
ResvStates == {"none", "reserved", "settled", "released"}
Network    == {"absent", "pool", "mined", "reverted"}
ReqSteps   == {"idle", "arming", "armed", "readiness", "admitted", "engine", "record", "abort", "close"}
Critical   == {"gated", "signed", "sending", "inflight", "refused", "lost"}
Outcomes   == {"unsent", "noid", "failedSigned", "timeout", "unstored", "success", "reverted"}
EngSteps   == {"none", "waiting", "accepted", "receipt"} \cup Critical \cup Outcomes

TypeOK ==
  /\ killed \in BOOLEAN /\ killFile \in BOOLEAN
  /\ startup \in {"Cold", "Reconciling", "Ready", "Blocked"}
  /\ overtaken \in SUBSET Runs
  /\ run \in [Runs -> RunStates]
  /\ exec \in [Execs -> ExecStates]
  /\ resv \in [Execs -> ResvStates]
  /\ hashed \in [Execs -> BOOLEAN]
  /\ facts \in [Runs -> BOOLEAN]
  /\ closed \in SUBSET Runs
  /\ recon \in [Runs -> {"none", "unknown", "confirmed"}]
  /\ chain \in [Execs -> Network]
  /\ pc \in ReqSteps
  /\ cur \in Runs
  /\ sawKill \in BOOLEAN
  /\ eng \in [Execs -> EngSteps]
  /\ late \in SUBSET Execs
  /\ killPc \in {"idle", "flagged", "releasing"}
  /\ boot \in {"down", "closing", "reconciling", "up"}
  /\ toClose \in SUBSET Runs
  /\ rec \in [pc : {"idle", "next", "read"}, todo : SUBSET Runs, run : Runs,
              seen : SUBSET Execs, had : SUBSET Execs]
  /\ crashes \in 0..MaxCrashes /\ kills \in 0..MaxKills

-----------------------------------------------------------------------------
(* Views of the store *)

ExecsOf(r) == {e \in Execs : RunOf[e] = r}

HasHash(r) == \E e \in ExecsOf(r) : hashed[e]

(* Wrong variant: the stored result is read back unconverted. *)
ReadBackRaw(result) == result

(* What readReconciliations returns for a result written by the pass:       *)
(* "failed" is stored as "ambiguous" and reads back as "unknown".           *)
ReadBack(result) == IF result = "confirmed" THEN "confirmed" ELSE "unknown"

(* The results that start() and unresolvedRunIds take as settled. *)
Terminal(r) == recon[r] \in {"failed", "final", "confirmed"}

(* Wrong variant: an aborted run never blocks. *)
UnresolvedOpenOnly == {r \in Runs : run[r] \in {"Armed", "Active"} /\ ~Terminal(r)}

Unresolved ==
  {r \in Runs : /\ \/ run[r] \in {"Armed", "Active"}
                   \/ run[r] = "Aborted" /\ HasHash(r)
                /\ ~Terminal(r)}

(* Wrong variant: the pass forgets runs that a kill aborted. *)
CandidatesNotAborted ==
  {r \in Runs : run[r] \in {"Armed", "Active"} \/ (run[r] = "Completed" /\ recon[r] # "final")}

(* Runs a reconcile pass reads; no Ethereum result is "final", so a         *)
(* completed run is read again on every pass.                               *)
Candidates ==
  {r \in Runs : \/ run[r] \in {"Armed", "Active"}
                \/ run[r] = "Completed" /\ recon[r] # "final"
                \/ run[r] = "Aborted" /\ HasHash(r)}

(* coordinator.transition; FALSE stands for its throw. *)
MayTransition(old, new) ==
  \/ old = new
  \/ old = "Armed" /\ new \in {"Active", "Aborted", "Failed"}
  \/ old = "Active" /\ new \in {"Completed", "Failed", "Aborted"}
  \/ old = "Completed" /\ new = "Failed"

(* The state trigger of the execution table, on the states used here. *)
MayMove(old, new) ==
  \/ old = new
  \/ old = "prepared" /\ new \in {"signed", "submitted", "failed", "aborted"}
  \/ old = "signed" /\ new \in {"submitted", "failed", "aborted"}
  \/ old = "submitted" /\ new \in {"confirmed", "failed", "aborted"}

(* transitionExecutionSafe: an aborted execution stays aborted, a prepared  *)
(* one is confirmed by way of submitted, the rest is up to the trigger.     *)
SafeMove(old, new) == IF old = "aborted" THEN old ELSE new

MaySafeMove(old, new) ==
  \/ old = "aborted"
  \/ old = "prepared" /\ new = "confirmed"
  \/ MayMove(old, new)

-----------------------------------------------------------------------------
(* Store transactions shared by several handlers *)

(* Wrong variant: the kill aborts signed and submitted executions too. *)
AbortableOpen(e) == exec[e] \in {"prepared", "signed", "submitted"}

(* The executions a kill aborts: open, and no attempt carries a hash. *)
Abortable(e) == exec[e] \in {"prepared", "signed", "submitted"} /\ ~hashed[e]

AbortRemaining ==
  LET gone == {e \in Execs : Abortable(e)}
  IN  /\ exec' = [e \in Execs |-> IF e \in gone THEN "aborted" ELSE exec[e]]
      /\ resv' = [e \in Execs |-> IF e \in gone /\ resv[e] = "reserved"
                                  THEN "released" ELSE resv[e]]
      /\ run' = [r \in Runs |-> IF run[r] \in {"Armed", "Active"} THEN "Aborted" ELSE run[r]]

MayAbortUnsent(r) ==
  /\ run[r] \in {"Armed", "Active"}
  /\ \A e \in ExecsOf(r) : ~hashed[e] /\ exec[e] \in {"none", "prepared", "aborted"}

AbortRunIfUnsent(r) ==
  IF MayAbortUnsent(r)
  THEN /\ exec' = [e \in Execs |-> IF RunOf[e] = r /\ exec[e] = "prepared"
                                   THEN "aborted" ELSE exec[e]]
       /\ resv' = [e \in Execs |-> IF RunOf[e] = r /\ resv[e] = "reserved"
                                   THEN "released" ELSE resv[e]]
       /\ run' = [run EXCEPT ![r] = "Aborted"]
       /\ closed' = closed \cup {r}
  ELSE UNCHANGED <<exec, resv, run, closed>>

(* The reservation handle's release(): only a reserved row is released. *)
Release(e) == resv' = [resv EXCEPT ![e] = IF @ = "reserved" THEN "released" ELSE @]

(* Wrong variant: one wallet of the fleet settles and the others are left. *)
AccountOne(S) ==
  [e \in Execs |-> IF e \in S /\ e = (CHOOSE f \in S : TRUE) /\ resv[e] = "reserved"
                   THEN "settled" ELSE resv[e]]

(* applyAccountingToState: the reserved money of an execution with a        *)
(* terminal receipt is settled; a settled or released row is left alone.    *)
Account(S) == [e \in Execs |-> IF e \in S /\ resv[e] = "reserved" THEN "settled" ELSE resv[e]]

(* A reconcile pass that has yet to read the runs in todo. *)
PassOver(todo) ==
  [pc |-> IF todo = {} THEN "idle" ELSE "next", todo |-> todo, run |-> 1, seen |-> {}, had |-> {}]

-----------------------------------------------------------------------------
Init ==
  /\ killed = FALSE /\ killFile = FALSE /\ startup = "Cold" /\ overtaken = {}
  /\ run = [r \in Runs |-> "None"]
  /\ exec = [e \in Execs |-> "none"]
  /\ resv = [e \in Execs |-> "none"]
  /\ hashed = [e \in Execs |-> FALSE]
  /\ facts = [r \in Runs |-> FALSE]
  /\ closed = {}
  /\ recon = [r \in Runs |-> "none"]
  /\ chain = [e \in Execs |-> "absent"]
  /\ pc = "idle" /\ cur = 1 /\ sawKill = FALSE
  /\ eng = [e \in Execs |-> "none"]
  /\ late = {}
  /\ killPc = "idle"
  /\ boot = "down" /\ toClose = {}
  /\ rec = PassOver({})
  /\ crashes = 0 /\ kills = 0

-----------------------------------------------------------------------------
(* The request: arm, execute, close.  The poller runs one request at a time. *)

(* arm() reads the store, then may await a readiness refresh.  A refused arm *)
(* creates no run and is a stuttering step.                                  *)
ArmCheck(r) ==
  /\ boot = "up" /\ pc = "idle" /\ run[r] = "None"
  /\ startup = "Ready" /\ ~killed
  /\ pc' = "arming" /\ cur' = r
  /\ UNCHANGED <<ctl, ledger, notes, chain, sawKill, eng, late, env>>

(* The transaction that inserts the run; it does not look at the kill flag. *)
ArmCommit ==
  /\ pc = "arming"
  /\ run' = [run EXCEPT ![cur] = "Armed"]
  /\ pc' = "armed"
  /\ UNCHANGED <<ctl, exec, resv, hashed, notes, chain, cur, sawKill, eng, late, env>>

ExecuteCheck ==
  /\ pc = "armed"
  /\ ~killed /\ startup = "Ready"
  /\ run[cur] = "Armed" /\ ~HasHash(cur) /\ ~facts[cur]
  /\ pc' = "readiness"
  /\ UNCHANGED <<ctl, ledger, notes, chain, cur, sawKill, eng, late, env>>

(* Any refusal before admission commits: kill flag, startup state, run      *)
(* state, readiness, evidence, enablement, clock or a spend cap.            *)
ExecuteRefused ==
  /\ pc \in {"armed", "readiness"}
  /\ pc' = "close"
  /\ UNCHANGED <<ctl, ledger, notes, chain, cur, sawKill, eng, late, env>>

(* admitExecution re-reads the kill flag and the reservations.  The state   *)
(* of the run it checks is the copy read by ExecuteCheck.                   *)
MayAdmit(r) == ~killed /\ \A e \in ExecsOf(r) : resv[e] # "released"

ExecuteAdmit ==
  /\ pc = "readiness" /\ MayAdmit(cur)
  /\ exec' = [e \in Execs |-> IF RunOf[e] = cur /\ exec[e] = "none" THEN "prepared" ELSE exec[e]]
  /\ resv' = [e \in Execs |-> IF RunOf[e] = cur /\ resv[e] = "none" THEN "reserved" ELSE resv[e]]
  /\ run' = [run EXCEPT ![cur] = "Active"]
  /\ pc' = "admitted"
  /\ UNCHANGED <<ctl, hashed, notes, chain, cur, sawKill, eng, late, env>>

ExecuteKilledAfterAdmission ==
  /\ pc = "admitted" /\ killed
  /\ AbortRemaining
  /\ pc' = "close"
  /\ UNCHANGED <<ctl, hashed, notes, chain, cur, sawKill, eng, late, env>>

(* The engine starts only while the store has the run armed or active       *)
(* (persistEngineRun).                                                      *)
EngineStart ==
  /\ pc = "admitted" /\ ~killed
  /\ run[cur] \in {"Armed", "Active"}
  /\ pc' = "engine"
  /\ eng' = [e \in Execs |-> IF RunOf[e] = cur THEN "waiting" ELSE "none"]
  /\ UNCHANGED <<ctl, ledger, notes, chain, cur, sawKill, late, env>>

Returned == pc = "engine" /\ \A e \in ExecsOf(cur) : eng[e] \in Outcomes

(* engine.execute throws: before any wallet starts, or because a wallet     *)
(* came back without an identity.  Executed facts are not recorded.         *)
EngineThrow ==
  /\ \/ pc = "admitted" /\ ~killed
     \/ Returned /\ \E e \in ExecsOf(cur) : eng[e] = "noid"
  /\ IF killed THEN AbortRemaining ELSE UNCHANGED <<exec, resv, run>>
  /\ pc' = "close"
  /\ UNCHANGED <<ctl, hashed, notes, chain, cur, sawKill, eng, late, env>>

EngineReturn ==
  /\ Returned /\ \A e \in ExecsOf(cur) : eng[e] # "noid"
  /\ sawKill' = killed
  /\ pc' = "record"
  /\ UNCHANGED <<ctl, ledger, notes, chain, cur, eng, late, env>>

(* mapResult: one pending wallet makes the result pending. *)
ResultState ==
  LET ends == {eng[e] : e \in ExecsOf(cur)}
  IN  IF ends \cap {"timeout", "unstored"} # {} THEN "Pending"
      ELSE IF ends \subseteq {"success"} THEN "Confirmed" ELSE "Failed"

RecordedState ==
  IF sawKill /\ run[cur] = "Active" THEN "Aborted"
  ELSE IF ResultState = "Failed" THEN "Failed"
  ELSE IF ResultState = "Confirmed" THEN "Completed" ELSE run[cur]

(* The transaction that records the engine's facts.  A forbidden run        *)
(* transition, or an attempt whose execution may not move, rolls it back    *)
(* and execute() throws.                                                    *)
RecordFacts ==
  /\ pc = "record"
  /\ IF /\ MayTransition(run[cur], RecordedState)
        /\ \A e \in ExecsOf(cur) : eng[e] = "unstored" => MaySafeMove(exec[e], "submitted")
     THEN /\ facts' = [facts EXCEPT ![cur] = TRUE]
          /\ run' = [run EXCEPT ![cur] = RecordedState]
          /\ exec' = [e \in Execs |-> IF RunOf[e] = cur /\ eng[e] = "unstored"
                                       THEN SafeMove(exec[e], "submitted") ELSE exec[e]]
          /\ resv' = Account({e \in ExecsOf(cur) : eng[e] \in {"success", "reverted"}})
          /\ pc' = IF sawKill THEN "abort" ELSE "close"
     ELSE /\ pc' = "close"
          /\ UNCHANGED <<facts, run, exec, resv>>
  /\ UNCHANGED <<ctl, hashed, closed, recon, chain, cur, sawKill, eng, late, env>>

ExecuteAbort ==
  /\ pc = "abort"
  /\ AbortRemaining
  /\ pc' = "close"
  /\ UNCHANGED <<ctl, hashed, notes, chain, cur, sawKill, eng, late, env>>

(* Wrong variant: a stopped request leaves its run open. *)
CloseNothing(r) == UNCHANGED <<exec, resv, run, closed>>

(* The poller offers every request that did not finish to closeUnsentRun. *)
CloseRequest(r) ==
  IF run[r] = "Completed" THEN UNCHANGED <<exec, resv, run, closed>> ELSE AbortRunIfUnsent(r)

RequestEnd ==
  /\ pc = "close"
  /\ CloseRequest(cur)
  /\ pc' = "idle" /\ sawKill' = FALSE /\ late' = {}
  /\ eng' = [e \in Execs |-> "none"]
  /\ UNCHANGED <<ctl, hashed, facts, recon, chain, cur, env>>

-----------------------------------------------------------------------------
(* The wallets of executeFleet run side by side; admissionGate makes the     *)
(* stretch from the gate to the stored broadcast answer exclusive.           *)

At(e, step) == pc = "engine" /\ eng[e] = step
To(e, step) == eng' = [eng EXCEPT ![e] = step]

(* Stopped before the reservation handle exists: skipped, killed, refused by *)
(* the gate.  Nothing is released.                                           *)
WalletUnsent(e) ==
  /\ At(e, "waiting")
  /\ \E out \in {"unsent", "noid"} : To(e, out)
  /\ UNCHANGED <<ctl, ledger, notes, chain, pc, cur, sawKill, late, env>>

(* Wrong variant: the wallets do not wait for one another. *)
GateOpenToAll(e) == ~killFile /\ ~killed /\ resv[e] = "reserved"

(* The admission gate is free, and neither kill switch is on, and the        *)
(* reservation, read again, is still held.                                   *)
GateOpen(e) ==
  /\ \A o \in Execs : eng[o] \notin Critical
  /\ ~killFile /\ ~killed
  /\ resv[e] = "reserved"

WalletGate(e) ==
  /\ At(e, "waiting") /\ GateOpen(e)
  /\ To(e, "gated")
  /\ UNCHANGED <<ctl, ledger, notes, chain, pc, cur, sawKill, late, env>>

(* The signer, the kill file or the check of the signed bytes refuses. *)
WalletSignFails(e) ==
  /\ At(e, "gated")
  /\ Release(e) /\ To(e, "unsent")
  /\ UNCHANGED <<ctl, run, exec, hashed, notes, chain, pc, cur, sawKill, late, env>>

(* The signed attempt is stored before anything is sent.  The kill file was  *)
(* last read before an await, so it may exist by now.                        *)
WalletSigned(e) ==
  /\ At(e, "gated") /\ MaySafeMove(exec[e], "signed")
  /\ hashed' = [hashed EXCEPT ![e] = TRUE]
  /\ exec' = [exec EXCEPT ![e] = SafeMove(@, "signed")]
  /\ To(e, "signed")
  /\ UNCHANGED <<ctl, run, resv, notes, chain, pc, cur, sawKill, late, env>>

WalletCheckKill(e) ==
  /\ At(e, "signed")
  /\ IF killFile THEN Release(e) /\ To(e, "failedSigned")
     ELSE To(e, "sending") /\ UNCHANGED resv
  /\ UNCHANGED <<ctl, run, exec, hashed, notes, chain, pc, cur, sawKill, late, env>>

(* The provider pools the transaction, refuses it, or never receives it. *)
WalletSend(e) ==
  /\ At(e, "sending")
  /\ \/ /\ To(e, "inflight")
        /\ chain' = [chain EXCEPT ![e] = "pool"]
        /\ late' = IF killed THEN late \cup {e} ELSE late
     \/ /\ \E answer \in {"refused", "lost"} : To(e, answer)
        /\ UNCHANGED <<chain, late>>
  /\ UNCHANGED <<ctl, ledger, notes, pc, cur, sawKill, env>>

(* The catch block of a wallet that may have been sent: the reservation is   *)
(* kept and an unresolved reconciliation is recorded, if the store takes it. *)
KeepForRecovery ==
  /\ recon' \in {recon, [recon EXCEPT ![cur] = "unknown"]}
  /\ UNCHANGED resv

StoreAnswer(e, state) ==
  IF killFile THEN UNCHANGED exec ELSE exec' = [exec EXCEPT ![e] = SafeMove(@, state)]

(* A refusal: nothing was sent and the reservation is released.  With the    *)
(* kill file present the answer itself is not stored.                        *)
WalletRefused(e) ==
  /\ At(e, "refused")
  /\ MaySafeMove(exec[e], "failed")
  /\ StoreAnswer(e, "failed")
  /\ Release(e) /\ To(e, "failedSigned")
  /\ UNCHANGED <<ctl, run, hashed, notes, chain, pc, cur, sawKill, late, env>>

(* Accepted: wait for the receipt.  Ambiguous, or killed after the send, or  *)
(* an answer the execution's state does not allow: kept for recovery.        *)
WalletAnswer(e) ==
  /\ \/ At(e, "inflight") \/ At(e, "lost")
  /\ IF killFile \/ MaySafeMove(exec[e], "submitted")
     THEN /\ StoreAnswer(e, "submitted")
          /\ \/ eng[e] = "inflight" /\ ~killFile /\ To(e, "accepted") /\ UNCHANGED <<recon, resv>>
             \/ To(e, "timeout") /\ KeepForRecovery
     ELSE To(e, "unstored") /\ KeepForRecovery /\ UNCHANGED exec
  /\ UNCHANGED <<ctl, run, hashed, facts, closed, chain, pc, cur, sawKill, late, env>>

WalletTimeout(e) ==
  /\ At(e, "accepted")
  /\ To(e, "timeout") /\ KeepForRecovery
  /\ UNCHANGED <<ctl, run, exec, hashed, facts, closed, chain, pc, cur, sawKill, late, env>>

(* Wrong variant: a transaction the provider knows counts as mined. *)
KnownToProvider(e) == chain[e] # "absent"

HasReceipt(e) == chain[e] \in {"mined", "reverted"}

ReceiptState(e) == IF chain[e] = "mined" THEN "confirmed" ELSE "failed"

(* The receipt and a "matched" reconciliation are stored, for a reverted     *)
(* transaction too (reconcileByHashAndNonce).                                *)
WalletReceipt(e) ==
  /\ At(e, "accepted") /\ HasReceipt(e)
  /\ MaySafeMove(exec[e], ReceiptState(e))
  /\ exec' = [exec EXCEPT ![e] = SafeMove(@, ReceiptState(e))]
  /\ recon' = [recon EXCEPT ![cur] = "confirmed"]
  /\ To(e, "receipt")
  /\ UNCHANGED <<ctl, run, resv, hashed, facts, closed, chain, pc, cur, sawKill, late, env>>

WalletSettle(e) ==
  /\ At(e, "receipt")
  /\ IF resv[e] \in {"reserved", "settled"}
     THEN /\ resv' = [resv EXCEPT ![e] = "settled"]
          /\ To(e, IF chain[e] = "mined" THEN "success" ELSE "reverted")
          /\ UNCHANGED recon
     ELSE To(e, "timeout") /\ KeepForRecovery
  /\ UNCHANGED <<ctl, run, exec, hashed, facts, closed, chain, pc, cur, sawKill, late, env>>

(* Wallets inside the gate that have lost their reservation to somebody      *)
(* else's abort, and that nothing but the kill file will stop.               *)
Robbed(money) == {e \in Execs : eng[e] \in {"gated", "signed"} /\ money[e] # "reserved"}

(* External: the network includes a pooled transaction. *)
Mine(e) ==
  /\ chain[e] = "pool"
  /\ \E end \in {"mined", "reverted"} : chain' = [chain EXCEPT ![e] = end]
  /\ UNCHANGED <<ctl, ledger, notes, req, env>>

-----------------------------------------------------------------------------
(* The kill switches *)

KillFile ==
  /\ ~killFile
  /\ kills < MaxKills \/ (killed /\ "concurrent-kill" \in Races)
  /\ killFile' = TRUE
  /\ UNCHANGED <<killed, startup, overtaken, ledger, notes, chain, req, env>>

(* First transaction of coordinator.kill. *)
KillFlag ==
  /\ killPc = "idle" /\ kills < MaxKills
  /\ killFile \/ "concurrent-kill" \in Races
  /\ killed' = TRUE
  /\ startup' = IF killed THEN startup ELSE "Blocked"
  /\ killPc' = "flagged" /\ kills' = kills + 1
  /\ UNCHANGED <<killFile, overtaken, ledger, notes, chain, req, boot, toClose, rec, crashes>>

KillAbort ==
  /\ killPc = "flagged"
  /\ AbortRemaining
  /\ killPc' = "idle"
  /\ overtaken' = IF killFile THEN overtaken
                  ELSE overtaken \cup {RunOf[e] : e \in Robbed(resv')}
  /\ UNCHANGED <<killed, killFile, startup, hashed, notes, chain, req, boot, toClose, rec, crashes, kills>>

MayRelease == (killed \/ killFile) /\ Unresolved = {}

ReleaseFlag ==
  /\ killPc = "idle" /\ MayRelease
  /\ pc = "idle" \/ "quick-release" \in Races
  /\ killed' = FALSE
  /\ killPc' = "releasing"
  /\ UNCHANGED <<killFile, startup, overtaken, ledger, notes, chain, req, boot, toClose, rec, crashes, kills>>

ReleaseFile ==
  /\ killPc = "releasing"
  /\ killFile' = FALSE
  /\ killPc' = "idle"
  /\ overtaken' = overtaken \cup {RunOf[e] : e \in Robbed(resv)}
  /\ UNCHANGED <<killed, startup, ledger, notes, chain, req, boot, toClose, rec, crashes, kills>>

-----------------------------------------------------------------------------
(* Reconcile passes.  One pass at a time; a run is read (awaiting the        *)
(* provider) and then its update is applied in one transaction.              *)

StartPass == rec' = PassOver(Candidates)

(* The service timer skips the pass while the kill flag is set. *)
ReconcileTimer ==
  /\ boot = "up" /\ rec.pc = "idle" /\ ~killed
  /\ StartPass
  /\ UNCHANGED <<ctl, ledger, notes, chain, req, killPc, boot, toClose, crashes, kills>>

(* The owner's /reconcile does not. *)
ReconcileOwner ==
  /\ boot = "up" /\ rec.pc = "idle"
  /\ StartPass
  /\ UNCHANGED <<ctl, ledger, notes, chain, req, killPc, boot, toClose, crashes, kills>>

(* The attempts of the run and the receipts the provider returns for them. *)
ReconcileRead ==
  /\ rec.pc = "next"
  /\ \E r \in rec.todo :
       /\ \A other \in rec.todo : r <= other
       /\ LET had   == {e \in ExecsOf(r) : hashed[e]}
              there == {e \in had : HasReceipt(e)}
          IN  \E seen \in SUBSET there :
                /\ FlakyRpc \/ seen = there
                /\ rec' = [pc |-> "read", todo |-> rec.todo, run |-> r, seen |-> seen, had |-> had]
  /\ UNCHANGED <<ctl, ledger, notes, chain, req, killPc, boot, toClose, crashes, kills>>

ReconcileResult ==
  IF rec.seen = {} THEN "unknown"
  ELSE IF \A e \in rec.seen : chain[e] = "mined" THEN "confirmed" ELSE "failed"

(* The checks that make the pass throw: assertReconciliationCoherence, and   *)
(* an execution the state trigger will not move.                             *)
MayApply ==
  /\ ReconcileResult = "confirmed" => rec.had = rec.seen
  /\ \A e \in rec.seen : MaySafeMove(exec[e], ReceiptState(e))

(* Wrong variant: the result of the pass overrides a kill. *)
RunAfterKillToo(state, result) ==
  IF result = "confirmed" /\ state \in {"Armed", "Active", "Aborted"} THEN "Completed"
  ELSE IF result = "failed" THEN "Failed" ELSE state

RunAfter(state, result) ==
  IF result = "confirmed" /\ state \in {"Armed", "Active"} THEN "Completed"
  ELSE IF result = "failed" /\ state # "Aborted" THEN "Failed" ELSE state

ReconcileApply ==
  /\ rec.pc = "read" /\ MayApply
  /\ exec' = [e \in Execs |-> IF e \in rec.seen THEN SafeMove(exec[e], ReceiptState(e)) ELSE exec[e]]
  /\ recon' = IF rec.had = {} THEN recon ELSE [recon EXCEPT ![rec.run] = ReadBack(ReconcileResult)]
  /\ run' = [run EXCEPT ![rec.run] = RunAfter(@, ReconcileResult)]
  /\ resv' = Account(rec.seen)
  /\ rec' = PassOver(rec.todo \ {rec.run})
  /\ UNCHANGED <<ctl, hashed, facts, closed, chain, req, killPc, boot, toClose, crashes, kills>>

(* A throw ends the whole pass; during start() it leaves the service up and  *)
(* blocked.                                                                  *)
ReconcileThrow ==
  /\ rec.pc = "read" /\ ~MayApply
  /\ rec' = PassOver({})
  /\ IF boot = "reconciling" THEN boot' = "up" /\ startup' = "Blocked"
     ELSE UNCHANGED <<boot, startup>>
  /\ UNCHANGED <<killed, killFile, overtaken, ledger, notes, chain, req, killPc, toClose, crashes, kills>>

-----------------------------------------------------------------------------
(* coordinator.start, and the crash that makes it necessary *)

StartBegin ==
  /\ boot = "down" \/ (boot = "up" /\ "operator-start" \in Races)
  /\ startup' = "Reconciling"
  /\ toClose' = {r \in Runs : run[r] = "Armed"}
  /\ boot' = "closing"
  /\ UNCHANGED <<killed, killFile, overtaken, ledger, notes, chain, req, killPc, rec, crashes, kills>>

(* The request in the other process will go on with run r regardless: it is *)
(* about to admit the run from the copy it has read, or a wallet of it is in *)
(* the gate.                                                                 *)
UsedMeanwhile(r) ==
  r = cur /\ (pc = "readiness" \/ \E e \in ExecsOf(r) : eng[e] = "gated")

StartClose(r) ==
  /\ boot = "closing" /\ r \in toClose
  /\ AbortRunIfUnsent(r)
  /\ toClose' = toClose \ {r}
  /\ overtaken' = IF MayAbortUnsent(r) /\ UsedMeanwhile(r) THEN overtaken \cup {r} ELSE overtaken
  /\ UNCHANGED <<killed, killFile, startup, hashed, facts, recon, chain, req, killPc, boot, rec, crashes, kills>>

StartReconcile ==
  /\ boot = "closing" /\ toClose = {} /\ rec.pc = "idle"
  /\ StartPass
  /\ boot' = "reconciling"
  /\ UNCHANGED <<ctl, ledger, notes, chain, req, killPc, toClose, crashes, kills>>

StartFinish ==
  /\ boot = "reconciling" /\ rec.pc = "idle"
  /\ startup' = IF Unresolved = {} THEN "Ready" ELSE "Blocked"
  /\ boot' = "up"
  /\ UNCHANGED <<killed, killFile, overtaken, ledger, notes, chain, req, killPc, toClose, rec, crashes, kills>>

(* The process stops between two steps; a kill or release driven from the    *)
(* CLI goes on, one driven by the service stops with it.                     *)
Crash ==
  /\ boot # "down" /\ crashes < MaxCrashes
  /\ crashes' = crashes + 1
  /\ boot' = "down" /\ toClose' = {}
  /\ pc' = "idle" /\ sawKill' = FALSE /\ late' = {} /\ eng' = [e \in Execs |-> "none"]
  /\ rec' = PassOver({})
  /\ killPc' \in {killPc, "idle"}
  /\ UNCHANGED <<ctl, ledger, notes, chain, cur, kills>>

-----------------------------------------------------------------------------
Request ==
  \/ ArmCommit \/ ExecuteCheck \/ ExecuteRefused \/ ExecuteAdmit
  \/ ExecuteKilledAfterAdmission \/ EngineStart \/ EngineThrow \/ EngineReturn
  \/ RecordFacts \/ ExecuteAbort \/ RequestEnd

Wallet(e) ==
  \/ WalletUnsent(e) \/ WalletGate(e) \/ WalletSignFails(e) \/ WalletSigned(e)
  \/ WalletCheckKill(e) \/ WalletSend(e) \/ WalletRefused(e) \/ WalletAnswer(e)
  \/ WalletTimeout(e) \/ WalletReceipt(e) \/ WalletSettle(e)

Kill == KillFile \/ KillFlag \/ KillAbort \/ ReleaseFlag \/ ReleaseFile

Pass == ReconcileRead \/ ReconcileApply \/ ReconcileThrow

Start == StartBegin \/ (\E r \in Runs : StartClose(r)) \/ StartReconcile \/ StartFinish

Next ==
  \/ \E r \in Runs : ArmCheck(r)
  \/ Request
  \/ \E e \in Execs : Wallet(e) \/ Mine(e)
  \/ Kill
  \/ ReconcileTimer \/ ReconcileOwner \/ Pass
  \/ Start \/ Crash

(* What the running service does by itself: the timer starts passes, a pass  *)
(* that has begun goes on, a crashed service is started again by its         *)
(* supervisor and start-up comes to an end.  The request may hang for ever,  *)
(* and the network, the owner and crashes owe nothing.                       *)
Fairness ==
  /\ WF_vars(ReconcileTimer \/ Pass)
  /\ WF_vars(boot # "up" /\ Start)

Spec == Init /\ [][Next]_vars

FairSpec == Spec /\ Fairness

-----------------------------------------------------------------------------
(* Safety *)

Sent(e) == chain[e] # "absent"

(* A transaction the network holds always has a stored hash and money set    *)
(* aside for it: no kill, failed request, crash or start-up releases the     *)
(* reservation of something that was sent (mint-engine.ts catch block,       *)
(* abortRemaining, abortRunIfUnsent).  The one exception is a run that was   *)
(* overtaken: an abort took the money of a wallet between the gate and the   *)
(* stored hash, and the kill file was not there, or did not stay, to stop    *)
(* the send.                                                                 *)
SentIsHeld ==
  \A e \in Execs : Sent(e) =>
    hashed[e] /\ (resv[e] \in {"reserved", "settled"} \/ RunOf[e] \in overtaken)

(* Money is settled only against a mined transaction, whoever settles it:    *)
(* the engine, the recorded facts or a reconcile pass.                       *)
SettledIsMined == \A e \in Execs : resv[e] = "settled" => chain[e] \in {"mined", "reverted"}

(* Once the stored kill flag is set, at most the one wallet that is inside   *)
(* the admission gate still goes out; the rest of the fleet is stopped       *)
(* (mint-engine.ts admissionGate, engine-adapter.ts preSignReservationGate). *)
KillStopsFleet == Cardinality(late) <= 1

(* After a kill has run and the request it interrupted has ended, no run is  *)
(* left open, although arm commits without looking at the kill flag and      *)
(* admission reopens a run unconditionally (coordinator.ts kill, execute;    *)
(* live-request.ts closeRun).  A crash may cut the kill itself short.        *)
KillClosesRuns ==
  killed /\ killPc = "idle" /\ pc = "idle" /\ crashes = 0
    => \A r \in Runs : run[r] \notin {"Armed", "Active"}

(* A run closed as unsent stays closed: it is aborted, nothing of it was     *)
(* signed and none of its money is set aside (canonical-store.ts             *)
(* abortRunIfUnsent), unless a second process closed it under its request.   *)
ClosedStaysClosed ==
  \A r \in closed \ overtaken :
    run[r] = "Aborted" /\ ~HasHash(r) /\ \A e \in ExecsOf(r) : resv[e] \notin {"reserved", "settled"}

(* Runs end: a kill that has been carried out leaves no run open, and a run  *)
(* closed as unsent is never used again.                                     *)
RunsClose == KillClosesRuns /\ ClosedStaysClosed

(* A pass ended the run as failed because of a reverted wallet, and does not *)
(* come back for the others.                                                 *)
Stranded(e) ==
  run[RunOf[e]] = "Failed" /\ \E f \in Execs \ {e} : RunOf[f] = RunOf[e] /\ chain[f] = "reverted"

(* When no request is running, every transaction that was sent and is still  *)
(* pending, or whose money is still set aside, belongs to a run the next     *)
(* reconcile pass will read, also when another wallet of the fleet has its   *)
(* result already; only a wallet that reverted takes the run away from the   *)
(* others (coordinator.ts reconcileOnce).                                    *)
NoOrphan ==
  pc = "idle" => \A e \in Execs :
    chain[e] = "pool" \/ (Sent(e) /\ resv[e] = "reserved") => RunOf[e] \in Candidates \/ Stranded(e)

-----------------------------------------------------------------------------
(* Action properties *)

(* A run never leaves Aborted or Failed, and leaves Completed only for       *)
(* Failed, over every writer of the run state: execute, kill, close, start   *)
(* and reconcile (coordinator.ts transition).                                *)
TerminalStays ==
  [][\A r \in Runs :
       /\ run[r] \in {"Aborted", "Failed"} => run'[r] = run[r]
       /\ run[r] = "Completed" => run'[r] \in {"Completed", "Failed"}]_vars

(* A wallet of the same run was mined.  Its recorded result counts for the   *)
(* whole run when the kill switch is to be released.                         *)
SiblingMined(e) == \E f \in Execs \ {e} : RunOf[f] = RunOf[e] /\ chain[f] \in {"mined", "reverted"}

(* The kill switch is not released while a transaction is waiting in the     *)
(* network, unless a wallet of the same run has its result already           *)
(* (kill-switch-release.ts).                                                 *)
ReleaseWaits ==
  [][killPc' = "releasing" /\ killPc # "releasing" => \A e \in Execs : chain[e] = "pool" => SiblingMined(e)]_vars

-----------------------------------------------------------------------------
(* Liveness *)

(* Everything of run r that was signed is mined and its answer is stored.   *)
AllAnswered(r) ==
  /\ \E e \in ExecsOf(r) : hashed[e]
  /\ \A e \in ExecsOf(r) :
       hashed[e] => chain[e] \in {"mined", "reverted"} /\ exec[e] \in {"submitted", "confirmed", "failed"}

(* Wallets whose money waits although the answers of their whole fleet are   *)
(* known and stored.                                                         *)
Owed ==
  {e \in Execs : hashed[e] /\ AllAnswered(RunOf[e]) /\ resv[e] # "settled" /\ ~Stranded(e)}

(* The money of every wallet of a run whose broadcast answers were stored is *)
(* settled sooner or later, by the engine or by a reconcile pass, unless the *)
(* kill switch is on: across a crash, a receipt timeout, the races of the    *)
(* two, and a fleet that stops between two receipts (coordinator.ts          *)
(* reconcileOnce, mint-engine.ts).  A wallet a reverted one leaves stranded  *)
(* is the exception.                                                         *)
AnsweredSettles == []<>(Owed = {} \/ killed)

=============================================================================
