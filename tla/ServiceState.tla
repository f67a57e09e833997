--------------------------- MODULE ServiceState ---------------------------
(***************************************************************************)
(* Who may say that the service is Ready.  One stored record (start-up     *)
(* state, blocking reasons, dependency flags) is written by five actors    *)
(* that share nothing but the store: the coordinator's start (in the       *)
(* service and in any command a second process runs), the scheduler tick,  *)
(* the dependency flags pass, a kill and the release of a kill.  Each      *)
(* actor awaits a file or a probe between reading and writing.             *)
(*                                                                         *)
(* The backup job is here too: its status file is one of the facts the     *)
(* tick turns into a blocking reason.                                      *)
(***************************************************************************)
EXTENDS Naturals, FiniteSets

CONSTANTS
  Events,           \* bound: what the owner, the host and the network do
  FailuresBeforeOff \* NOTIFICATION_FAILURES_BEFORE_OFF (dependency-flags.ts:31)

ASSUME EventsAssumption == Events \in Nat
ASSUME FailuresAssumption == FailuresBeforeOff \in Nat \ {0}

VARIABLES
  killFlag,   \* the stored kill flag
  killFile,   \* the kill file exists
  startup,    \* stored startupState
  reasons,    \* stored blockingReasons
  deps,       \* stored dependency flags
  unresolved, \* some run is in flight or unresolved (unresolvedRunIds)
  boot,       \* where the service process is
  cli,        \* coordinator.start of a command in a second process
  ticking,    \* the scheduler tick: its step and what it has read
  flags,      \* the dependency flags pass: its step and what it has read
  failures,   \* failed notification checks in a row
  release,    \* the step of a kill release that is under way
  facts,      \* the world: what a probe of engine and chain, of Telegram says
  backup,     \* what the backup status file says
  job,        \* the step of the backup job
  events,     \* events left
  interrupted,\* history: a kill was recorded while a run was unresolved
  restorable  \* history: the snapshot of the last "ok" passed its restore check

serviceVars == <<killFlag, killFile, startup, reasons, deps, unresolved, boot, cli, ticking, flags,
          failures, release, facts, backup, job, events, interrupted, restorable>>
world == <<killFile, unresolved, facts, backup, job, restorable>>
loops == <<boot, cli, ticking, flags, failures, release>>

Startup == {"Cold", "Reconciling", "Ready", "Blocked"}
Reasons == {"IN_PROGRESS", "FAILED", "UNRESOLVED", "BACKUP", "DEPENDENCIES", "KILLED", "KILL_ENGAGED"}
Dependencies == {"backup", "link", "notify"}

ServiceTypeOK ==
  /\ killFlag \in BOOLEAN /\ killFile \in BOOLEAN /\ unresolved \in BOOLEAN
  /\ startup \in Startup /\ reasons \subseteq Reasons
  /\ deps \in [Dependencies -> BOOLEAN]
  /\ boot \in {"down", "runtime", "loop", "up"} /\ cli \in {"idle", "starting"}
  /\ ticking \in [pc : {"idle", "flag", "backup", "probe", "killed", "lift", "again", "unresolved"}, ok : BOOLEAN]
  /\ flags \in [pc : {"idle", "write", "recheck", "block"}, link : BOOLEAN, notify : BOOLEAN, killed : BOOLEAN]
  /\ failures \in 0 .. FailuresBeforeOff
  /\ release \in {"idle", "reason", "file"}
  /\ facts \in [{"link", "notify"} -> BOOLEAN]
  /\ backup \in {"fresh", "due", "stale", "failed"} /\ job \in {"idle", "snapshot", "checked"}
  /\ events \in 0 .. Events
  /\ interrupted \in BOOLEAN /\ restorable \in BOOLEAN

\* A snapshot read while the flag is stored says Blocked and KILLED, whatever is stored.
Read == IF killFlag THEN [startup |-> "Blocked", reasons |-> reasons \cup {"KILLED"}]
                  ELSE [startup |-> startup, reasons |-> reasons]
\* A transaction works on what was read and stores the record only if it changed.
StoreRecord(s, r, d) ==
  IF s = Read.startup /\ r = Read.reasons /\ d = deps
  THEN UNCHANGED <<startup, reasons, deps>>
  ELSE startup' = s /\ reasons' = r /\ deps' = d
Block(reason) == StoreRecord("Blocked", Read.reasons \cup {reason}, deps)
RecordKill == /\ Block("KILL_ENGAGED")
              /\ interrupted' = (interrupted \/ unresolved)
\* backupReady: the last status is "ok" and within its maximum age.
BackupReady == backup \in {"fresh", "due"}
KillOn == killFlag \/ killFile

ServiceInit ==
  /\ killFlag = FALSE /\ killFile = FALSE
  /\ startup = "Cold" /\ reasons = {}
  /\ deps = [d \in Dependencies |-> FALSE]
  /\ unresolved = FALSE /\ boot = "down" /\ cli = "idle"
  /\ ticking = [pc |-> "idle", ok |-> FALSE]
  /\ flags = [pc |-> "idle", link |-> FALSE, notify |-> FALSE, killed |-> TRUE]
  /\ failures = 0 /\ release = "idle"
  /\ facts = [f \in {"link", "notify"} |-> TRUE]
  /\ backup = "fresh" /\ job = "idle"
  /\ events = Events
  /\ interrupted = FALSE /\ restorable = TRUE

---------------------------------------------------------------------------
(* coordinator.start, run by the service twice (when its runtime is made   *)
(* and when its loop starts) and by a command in a second process          *)

StartBegin == StoreRecord("Reconciling", {"IN_PROGRESS"}, deps)
\* The end of a start replaces every reason there is.
StartEnd == StoreRecord(IF unresolved THEN "Blocked" ELSE "Ready",
                  IF unresolved THEN {"UNRESOLVED"} ELSE {}, deps)

Boot ==
  /\ boot = "down"
  /\ StartBegin
  /\ boot' = "runtime"
  /\ UNCHANGED <<killFlag, cli, ticking, flags, failures, release, events, interrupted, world>>

RuntimeStarted ==
  /\ boot = "runtime"
  /\ StartEnd
  /\ boot' = "loop"
  /\ UNCHANGED <<killFlag, cli, ticking, flags, failures, release, events, interrupted, world>>

LoopStarted ==
  /\ boot = "loop"
  /\ StartEnd
  /\ boot' = "up"
  /\ UNCHANGED <<killFlag, cli, ticking, flags, failures, release, events, interrupted, world>>

\* The reconciliation of the loop's start throws: the service goes on, blocked until it is started again.
LoopStartFails ==
  /\ boot = "loop" /\ events > 0
  /\ StoreRecord("Blocked", {"IN_PROGRESS", "FAILED"}, deps)
  /\ boot' = "up" /\ events' = events - 1
  /\ UNCHANGED <<killFlag, cli, ticking, flags, failures, release, interrupted, world>>

CommandStart ==
  /\ cli = "idle" /\ events > 0
  /\ StartBegin
  /\ cli' = "starting" /\ events' = events - 1
  /\ UNCHANGED <<killFlag, boot, ticking, flags, failures, release, interrupted, world>>

CommandStarted ==
  /\ cli = "starting"
  /\ StartEnd
  /\ cli' = "idle"
  /\ UNCHANGED <<killFlag, boot, ticking, flags, failures, release, events, interrupted, world>>

\* The service process stops; the host's supervisor starts it again.
ProcessCrash ==
  /\ boot # "down" /\ events > 0
  /\ boot' = "down" /\ events' = events - 1
  /\ ticking' = [ticking EXCEPT !.pc = "idle"] /\ flags' = [flags EXCEPT !.pc = "idle"]
  /\ failures' = 0 /\ release' = "idle" /\ job' = "idle"
  /\ UNCHANGED <<killFlag, killFile, startup, reasons, deps, unresolved, cli, facts, backup, interrupted, restorable>>

---------------------------------------------------------------------------
(* OrchestratorService.tick: `ticking` lets one run at a time              *)

TickStep(from, to) ==
  /\ boot = "up" /\ ticking.pc = from
  /\ ticking' = [ticking EXCEPT !.pc = to]
  /\ UNCHANGED <<killFlag, boot, cli, flags, failures, release, events, world>>

TickObserve ==
  /\ boot = "up" /\ ticking.pc = "idle"
  /\ ticking' = [pc |-> "flag", ok |-> BackupReady]
  /\ UNCHANGED <<killFlag, startup, reasons, deps, boot, cli, flags, failures, release, events, interrupted, world>>

TickFlag ==
  /\ TickStep("flag", "backup")
  /\ StoreRecord(Read.startup, Read.reasons, [deps EXCEPT !["backup"] = ticking.ok])
  /\ UNCHANGED interrupted

TickBackupMissing ==
  /\ ~ticking.ok
  /\ TickStep("backup", "idle")
  /\ Block("BACKUP")
  /\ UNCHANGED interrupted

Lifted(reason, otherwise) ==
  LET left == Read.reasons \ {reason}
  IN  StoreRecord(IF left = {} THEN "Ready" ELSE otherwise, left, deps)

TickBackupReady ==
  /\ ticking.ok
  /\ TickStep("backup", "probe")
  /\ IF "BACKUP" \in Read.reasons THEN Lifted("BACKUP", Read.startup)
     ELSE UNCHANGED <<startup, reasons, deps>>
  /\ UNCHANGED interrupted

\* Mutant: only the stored flag is looked at.
TickProbeFlag ==
  /\ TickStep("probe", IF killFlag THEN "killed" ELSE "lift")
  /\ UNCHANGED <<startup, reasons, deps, interrupted>>
TickProbe ==
  /\ TickStep("probe", IF KillOn THEN "killed" ELSE "lift")
  /\ UNCHANGED <<startup, reasons, deps, interrupted>>

TickKilled == TickStep("killed", "idle") /\ RecordKill

\* The kill file is gone: its reason is lifted, or replaced when a run it interrupted is unresolved.
LiftKill ==
  IF killFlag THEN UNCHANGED <<startup, reasons, deps>>
  ELSE LET left == (Read.reasons \ {"KILL_ENGAGED"}) \cup (IF unresolved THEN {"UNRESOLVED"} ELSE {})
       IN  StoreRecord(IF left = {} THEN "Ready" ELSE "Blocked", left, deps)

TickLift ==
  /\ "KILL_ENGAGED" \in Read.reasons
  /\ TickStep("lift", "again")
  /\ LiftKill
  /\ UNCHANGED interrupted

TickNothingToLift ==
  /\ "KILL_ENGAGED" \notin Read.reasons
  /\ TickStep("lift", "unresolved")
  /\ UNCHANGED <<startup, reasons, deps, interrupted>>

\* The file is read again after the lift.
TickAgain ==
  \/ killFile /\ TickStep("again", "idle") /\ RecordKill
  \/ ~killFile /\ TickStep("again", "unresolved") /\ UNCHANGED <<startup, reasons, deps, interrupted>>

TickUnresolved ==
  /\ TickStep("unresolved", "idle")
  /\ IF "UNRESOLVED" \in Read.reasons /\ ~killFlag /\ ~unresolved
     THEN Lifted("UNRESOLVED", Read.startup)
     ELSE UNCHANGED <<startup, reasons, deps>>
  /\ UNCHANGED interrupted

---------------------------------------------------------------------------
(* The dependency flags pass                                               *)

FlagsStep(from, to) ==
  /\ boot = "up" /\ flags.pc = from
  /\ flags' = [flags EXCEPT !.pc = to]
  /\ UNCHANGED <<killFlag, boot, cli, ticking, failures, release, events, world>>

\* All probes are awaited together; only Telegram may fail a few times in a row before its flag goes off.
FlagsProbe ==
  /\ boot = "up" /\ flags.pc = "idle"
  /\ LET failed == IF facts["notify"] THEN 0
                   ELSE IF failures < FailuresBeforeOff THEN failures + 1 ELSE failures
     IN  /\ failures' = failed
         /\ flags' = [pc |-> "write", link |-> facts["link"], killed |-> KillOn,
                      notify |-> facts["notify"] \/ (deps["notify"] /\ failed < FailuresBeforeOff)]
  /\ UNCHANGED <<killFlag, startup, reasons, deps, boot, cli, ticking, release, events, interrupted, world>>

FlagsWrite ==
  /\ FlagsStep("write", "recheck")
  /\ LET next == [deps EXCEPT !["link"] = flags.link, !["notify"] = flags.notify]
         others == Read.reasons \ {"DEPENDENCIES"}
         remaining == others \cup (IF killFlag THEN {"KILLED"} ELSE {}) \cup (IF flags.killed THEN {"KILL_ENGAGED"} ELSE {})
         clear == "DEPENDENCIES" \in Read.reasons /\ Read.startup = "Blocked" /\ remaining = {} /\ ~unresolved
     IN  /\ IF \A d \in Dependencies : next[d]
            THEN StoreRecord(IF clear THEN "Ready" ELSE Read.startup, remaining, next)
            ELSE StoreRecord("Blocked", others \cup {"DEPENDENCIES"}, next)
         /\ interrupted' = (interrupted \/ (unresolved /\ startup' = "Blocked" /\ "KILL_ENGAGED" \in reasons'))

\* The kill is read again when the pass leaves the service Ready.
FlagsRecheck ==
  /\ FlagsStep("recheck", IF Read.startup = "Ready" /\ KillOn THEN "block" ELSE "idle")
  /\ UNCHANGED <<startup, reasons, deps, interrupted>>

FlagsBlock == FlagsStep("block", "idle") /\ RecordKill

---------------------------------------------------------------------------
(* The kill switch and its release                                         *)

KillFile ==
  /\ ~killFile /\ events > 0
  /\ killFile' = TRUE /\ events' = events - 1
  /\ UNCHANGED <<killFlag, startup, reasons, deps, loops, unresolved, facts, backup, job, interrupted, restorable>>

CoordinatorKill ==
  /\ ~killFlag /\ events > 0
  /\ killFlag' = TRUE /\ events' = events - 1
  /\ startup' = "Blocked" /\ reasons' = reasons \cup {"KILLED"}
  /\ interrupted' = (interrupted \/ unresolved)
  /\ UNCHANGED <<deps, loops, world>>

RemoveFile ==
  /\ killFile /\ release = "idle"
  /\ killFile' = FALSE
  /\ UNCHANGED <<killFlag, startup, reasons, deps, loops, unresolved, facts, backup, job, events, interrupted, restorable>>

\* killReleaseAction: refused while a run is unresolved; then flag, reason and file, one after the other.
ReleaseFlag ==
  /\ release = "idle" /\ KillOn /\ ~unresolved
  /\ killFlag' = FALSE /\ release' = IF killFlag THEN "reason" ELSE "file"
  /\ UNCHANGED <<startup, reasons, deps, boot, cli, ticking, flags, failures, events, interrupted, world>>

ReleaseReason ==
  /\ release = "reason" /\ release' = "file"
  /\ StoreRecord(Read.startup, Read.reasons \ {"KILLED"}, deps)
  /\ UNCHANGED <<killFlag, boot, cli, ticking, flags, failures, events, interrupted, world>>

ReleaseFile ==
  /\ release = "file" /\ release' = "idle"
  /\ killFile' = FALSE
  /\ UNCHANGED <<killFlag, startup, reasons, deps, boot, cli, ticking, flags, failures, events, unresolved, facts, backup, job, interrupted, restorable>>

---------------------------------------------------------------------------
(* The world the actors read                                               *)

RunStarts ==
  /\ boot = "up" /\ Read.startup = "Ready" /\ ~killFile /\ ~unresolved /\ events > 0
  /\ \A d \in Dependencies : deps[d]
  /\ unresolved' = TRUE /\ events' = events - 1
  /\ UNCHANGED <<killFlag, killFile, startup, reasons, deps, loops, facts, backup, job, interrupted, restorable>>

RunResolves ==
  /\ unresolved /\ unresolved' = FALSE /\ interrupted' = FALSE
  /\ UNCHANGED <<killFlag, killFile, startup, reasons, deps, loops, facts, backup, job, events, restorable>>

ProbeFails ==
  /\ events > 0 /\ events' = events - 1
  /\ \E f \in DOMAIN facts : facts[f] /\ facts' = [facts EXCEPT ![f] = FALSE]
  /\ UNCHANGED <<killFlag, killFile, startup, reasons, deps, loops, unresolved, backup, job, interrupted, restorable>>

ProbeRecovers ==
  /\ \E f \in DOMAIN facts : ~facts[f] /\ facts' = [facts EXCEPT ![f] = TRUE]
  /\ UNCHANGED <<killFlag, killFile, startup, reasons, deps, loops, unresolved, backup, job, events, interrupted, restorable>>

BackupAges ==
  /\ backup \in {"fresh", "due"} /\ events > 0
  /\ backup' = (IF backup = "fresh" THEN "due" ELSE "stale") /\ events' = events - 1
  /\ UNCHANGED <<killFlag, killFile, startup, reasons, deps, loops, unresolved, facts, job, interrupted, restorable>>

---------------------------------------------------------------------------
(* The backup job: snapshot, restore check, upload, status                 *)

BackupQuiet == UNCHANGED <<killFlag, killFile, startup, reasons, deps, loops, unresolved, facts, interrupted>>

\* Due: the last good one is old, or the last one failed.
BackupDue == backup # "fresh"

\* Mutant: backup.mjs is given the status path and says "ok" before the restore check.
BackupSnapshotSaysOk ==
  /\ boot = "up" /\ job = "idle" /\ BackupDue
  /\ job' = "snapshot" /\ backup' = "fresh" /\ restorable' = FALSE
  /\ BackupQuiet /\ UNCHANGED events

BackupSnapshot ==
  /\ boot = "up" /\ job = "idle" /\ BackupDue
  /\ job' = "snapshot"
  /\ BackupQuiet /\ UNCHANGED <<backup, events, restorable>>

BackupChecked ==
  /\ job = "snapshot" /\ job' = "checked"
  /\ BackupQuiet /\ UNCHANGED <<backup, events, restorable>>

BackupOk ==
  /\ job = "checked" /\ job' = "idle"
  /\ backup' = "fresh" /\ restorable' = TRUE
  /\ BackupQuiet /\ UNCHANGED events

\* Any step throws: an unchecked snapshot is discarded and the status says failed.
BackupFails ==
  /\ job # "idle" /\ events > 0 /\ events' = events - 1
  /\ job' = "idle" /\ backup' = "failed" /\ restorable' = FALSE
  /\ BackupQuiet

---------------------------------------------------------------------------
Start == Boot \/ RuntimeStarted \/ LoopStarted
SchedulerTick == \/ TickObserve \/ TickFlag \/ TickBackupMissing \/ TickBackupReady \/ TickProbe
        \/ TickKilled \/ TickLift \/ TickNothingToLift \/ TickAgain \/ TickUnresolved
Flags == FlagsProbe \/ FlagsWrite \/ FlagsRecheck \/ FlagsBlock
ReleaseGoesOn == ReleaseReason \/ ReleaseFile
Backup == BackupSnapshot \/ BackupChecked \/ BackupOk

ServiceNext ==
  \/ Start \/ SchedulerTick \/ Flags \/ ReleaseGoesOn \/ Backup
  \/ LoopStartFails \/ CommandStart \/ CommandStarted \/ ProcessCrash
  \/ KillFile \/ CoordinatorKill \/ RemoveFile \/ ReleaseFlag
  \/ RunStarts \/ RunResolves \/ ProbeFails \/ ProbeRecovers \/ BackupAges \/ BackupFails

\* The supervisor restarts the service; its timers and awaited calls go on.  Nothing
\* forces a command, an owner, a probe or a run to end.
Fairness == /\ WF_serviceVars(Start) /\ WF_serviceVars(SchedulerTick) /\ WF_serviceVars(Flags)
            /\ WF_serviceVars(ReleaseGoesOn) /\ WF_serviceVars(Backup)
ServiceSpec == ServiceInit /\ [][ServiceNext]_serviceVars /\ Fairness

---------------------------------------------------------------------------
(* Properties                                                              *)

\* A run that a kill interrupted keeps the service from being Ready until it is resolved, whatever
\* the tick, the flags pass, a restart or a second process writes in between
\* (service-orchestrator.ts:174-189, dependency-flags.ts:72-76).
InterruptedHolds == interrupted /\ boot = "up" => Read.startup # "Ready"

\* A status "ok" stands only for a snapshot whose restore check passed (backup-job.mjs:28, 88-103).
OkIsRestorable == backup # "failed" => restorable

Fault(f) == CASE f = "kill" -> KillOn
              [] f = "backup" -> ~BackupReady
              [] f = "link" -> ~facts["link"]
              [] f = "notify" -> ~facts["notify"]

\* A fault that stays is seen by every later read of the service's state: no other actor's lift
\* survives it (service-orchestrator.ts:147-189, dependency-flags.ts:68-100).
FaultBlocks ==
  \A f \in {"kill", "backup", "link", "notify"} :
     <>[](boot = "up" /\ Fault(f)) => <>[](Read.startup # "Ready")

\* What holds in every state of the service record: a run that was interrupted keeps it from Ready,
\* and a backup status "ok" stands for a snapshot that can be restored.
ServiceSafety == ServiceTypeOK /\ InterruptedHolds /\ OkIsRestorable
===========================================================================
