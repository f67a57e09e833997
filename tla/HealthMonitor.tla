--------------------------- MODULE HealthMonitor ---------------------------
(***************************************************************************)
(* The bot's own health (HealthMonitor, ScanTracker, runHealth): a timer   *)
(* samples when the chain scan last worked, how many scans failed, disk,   *)
(* backup, undelivered messages and old reservations; a trouble that       *)
(* begins opens an episode and is told, it is told again if it gets worse  *)
(* and from time to time while it lasts, and its end is told.              *)
(*                                                                         *)
(* The sample is taken in two steps and every message is a step of its     *)
(* own, between which scans end and facts change.  Episodes are memory:    *)
(* a restart forgets them, the stored alerts remain.                       *)
(***************************************************************************)
EXTENDS Naturals, FiniteSets

CONSTANTS
  StallTime, CriticalTime,  \* scanStalledMs, scanCriticalMs
  AttemptWindow,  \* HOUR_MS: how long a scan counts
  MaxAttempts,    \* MAX_ATTEMPTS: how many scans are kept
  MinAttempts,    \* minEndpointSample
  ErrorShare,     \* endpointErrorRatio: one failed scan in so many
  BackupMaxAge,   \* backupMaxAgeSeconds
  RetryAge,       \* RETRY_WINDOW_MS: how long a message is retried
  Deadline,       \* how long a reservation may stay pending
  ReminderTime,   \* reminderMs
  LastHour,       \* bound: the last time of the clock
  MaxUpsets       \* bound: changes of the facts, alerts that were not stored, restarts

ASSUME HealthAssumption ==
  /\ {StallTime, CriticalTime, AttemptWindow, MaxAttempts, MinAttempts, ErrorShare,
      BackupMaxAge, RetryAge, Deadline, ReminderTime, LastHour} \subseteq Nat \ {0}
  /\ StallTime <= CriticalTime
  /\ MaxUpsets \in Nat

VARIABLES
  clock,
  tracker,   \* ScanTracker: the start, the last good scan, the latest scans
  host,      \* disk, backup, failed messages, pending reservations: what a sample reads
  checkup,   \* the check in progress; at rest, the time of the last one
  episodes,  \* the open trouble of each kind
  messages,  \* the stored health alerts
  cut,       \* history: episodes with an alert that was not stored, or open at a restart
  upsets

healthVars == <<clock, tracker, host, checkup, episodes, messages, cut, upsets>>

Hours == 1 .. LastHour
NoHour == 0

\* In the order in which they are told.
Rank == [scan_stalled |-> 1, endpoint_errors |-> 2, disk_pressure |-> 3,
         backup_stale |-> 4, delivery_trouble |-> 5, pending_exposure |-> 6]
Troubles == DOMAIN Rank
Severities == {"none", "attention", "critical"}
Well == [k \in Troubles |-> "none"]

\* `id' is the time of the sample that opened it, NoHour when there is none.
NoEpisode == [id |-> NoHour, severity |-> "none", sentAt |-> NoHour, reminders |-> 0]
Open(k) == episodes[k].id # NoHour
Started == [start |-> clock, ok |-> NoHour, attempts |-> {}]

HealthTypeOK ==
  /\ clock \in Hours
  /\ tracker \in [start : Hours, ok : Hours \union {NoHour}, attempts : SUBSET [at : Hours, ok : BOOLEAN]]
  /\ host \in [low : BOOLEAN, backup : {"none", "ok", "failed"}, saved : Hours \union {NoHour},
               failed : SUBSET Hours, pending : SUBSET Hours, garbled : BOOLEAN]
  /\ checkup \in [pc : {"idle", "host", "tell"}, at : Hours, active : [Troubles -> Severities], todo : SUBSET Troubles]
  /\ episodes \in [Troubles -> [id : Hours \union {NoHour}, severity : Severities,
                                sentAt : Hours \union {NoHour}, reminders : Nat]]
  /\ messages \subseteq [key : Troubles, id : Hours, stage : {"open", "critical", "reminder", "recovered"}, n : Nat, at : Hours]
  /\ cut \subseteq Troubles \X Hours
  /\ upsets \in 0 .. MaxUpsets

HealthInit ==
  /\ clock = 1
  /\ tracker = Started
  /\ host = [low |-> FALSE, backup |-> "none", saved |-> NoHour, failed |-> {}, pending |-> {}, garbled |-> FALSE]
  /\ checkup = [pc |-> "idle", at |-> clock, active |-> Well, todo |-> {}]
  /\ episodes = [k \in Troubles |-> NoEpisode]
  /\ messages = {} /\ cut = {} /\ upsets = 0

-----------------------------------------------------------------------------
(* What a sample reads                                                     *)

\* ScanTracker: the scans of the window, the newest of them.
Recent(S, at) == {a \in S : a.at + AttemptWindow > at}
Newest(S) == {a \in S : Cardinality({b \in S : b.at > a.at}) < MaxAttempts}

\* One scan at a time ends, well or not; the tracker keeps when, not why.
ScanEnds ==
  \E ok \in BOOLEAN :
    /\ \A a \in tracker.attempts : a.at # clock
    /\ tracker' = [tracker EXCEPT
         !.attempts = Newest(Recent(@ \union {[at |-> clock, ok |-> ok]}, clock)),
         !.ok = IF ok THEN clock ELSE @]
    /\ UNCHANGED <<clock, host, checkup, episodes, messages, cut, upsets>>

Upset == upsets < MaxUpsets /\ upsets' = upsets + 1

Change(h) ==
  /\ Upset
  /\ host' = h
  /\ UNCHANGED <<clock, tracker, checkup, episodes, messages, cut>>

\* The disk fills or is cleared, a backup ends, a message fails or arrives, money
\* is reserved or accounted for, a reservation's date stops being readable.
HostChanges ==
  \/ Change([host EXCEPT !.low = ~@])
  \/ \E status \in {"ok", "failed"} : Change([host EXCEPT !.backup = status, !.saved = clock])
  \/ Change([host EXCEPT !.failed = @ \union {clock}])
  \/ \E t \in host.failed : Change([host EXCEPT !.failed = @ \ {t}])
  \/ Change([host EXCEPT !.pending = @ \union {clock}])
  \/ \E t \in host.pending : Change([host EXCEPT !.pending = @ \ {t}])
  \/ Change([host EXCEPT !.garbled = ~@])

-----------------------------------------------------------------------------
(* evaluate: which troubles a sample shows                                 *)

\* The stall clock begins at the start until a scan succeeds.
LastGood == IF tracker.ok = NoHour THEN tracker.start ELSE tracker.ok

\* endpointThresholds: an open trouble clears only below half of its trigger.
Share == IF Open("endpoint_errors") THEN 2 * ErrorShare ELSE ErrorShare
Failing(S) == /\ Cardinality(S) >= MinAttempts
              /\ Share * Cardinality({a \in S : ~a.ok}) >= Cardinality(S)

\* `read' are the facts the host could supply: what is not read is not judged.
Active(k, at, read) ==
  CASE k = "scan_stalled" ->
         IF at < LastGood + StallTime THEN "none" ELSE IF at < LastGood + CriticalTime THEN "attention" ELSE "critical"
    [] k = "endpoint_errors" -> IF Failing(Recent(tracker.attempts, at)) THEN "attention" ELSE "none"
    [] k = "disk_pressure" -> IF "disk" \in read /\ host.low THEN "critical" ELSE "none"
    [] k = "backup_stale" ->
         IF "backup" \in read /\ (host.backup = "failed" \/ (host.backup = "ok" /\ at > host.saved + BackupMaxAge))
         THEN "critical" ELSE "none"
    [] k = "delivery_trouble" -> IF \E t \in host.failed : at <= t + RetryAge THEN "attention" ELSE "none"
    [] k = "pending_exposure" ->
         IF host.garbled \/ \E t \in host.pending : at >= t + Deadline THEN "critical" ELSE "none"

\* What the check owes the owner about an episode, if anything.
Owed(e, active, at) ==
  CASE e.id = NoHour /\ active # "none" -> IF active = "critical" THEN "critical" ELSE "open"
    [] e.id # NoHour /\ active = "none" -> "recovered"
    [] e.id # NoHour /\ active = "critical" /\ e.severity = "attention" -> "critical"
    [] e.id # NoHour /\ active # "none" /\ ~(active = "critical" /\ e.severity = "attention")
         /\ at >= e.sentAt + ReminderTime -> "reminder"
    [] OTHER -> "none"

\* The episode after the message, which is changed before the message is awaited.
After(e, active, at) ==
  IF e.id = NoHour THEN [id |-> at, severity |-> active, sentAt |-> at, reminders |-> 0]
  ELSE CASE Owed(e, active, at) = "recovered" -> NoEpisode
         [] Owed(e, active, at) = "critical" -> [e EXCEPT !.severity = "critical", !.sentAt = at]
         [] OTHER -> [e EXCEPT !.reminders = @ + 1, !.sentAt = at]

-----------------------------------------------------------------------------
(* The check                                                               *)

\* The timer; the time is read before the host answers, the other facts after.
CheckBegin ==
  /\ checkup.pc = "idle" /\ clock > checkup.at
  /\ checkup' = [checkup EXCEPT !.pc = "host", !.at = clock]
  /\ UNCHANGED <<clock, tracker, host, episodes, messages, cut, upsets>>

CheckSample ==
  /\ checkup.pc = "host"
  /\ \E read \in SUBSET {"disk", "backup"} :
       LET active == [k \in Troubles |-> Active(k, checkup.at, read)]
           todo == {k \in Troubles : Owed(episodes[k], active[k], checkup.at) # "none"} IN
       checkup' = [checkup EXCEPT !.pc = IF todo = {} THEN "idle" ELSE "tell", !.active = active, !.todo = todo]
  /\ UNCHANGED <<clock, tracker, host, episodes, messages, cut, upsets>>

\* The identity of a message is health:<key>:<id>:<stage>.
MessageOf(k) ==
  LET e == episodes[k]
      stage == Owed(e, checkup.active[k], checkup.at) IN
  [key |-> k, id |-> IF e.id = NoHour THEN checkup.at ELSE e.id, stage |-> stage,
   n |-> IF stage = "reminder" THEN e.reminders + 1 ELSE 0, at |-> checkup.at]
Same(m, n) == m.key = n.key /\ m.id = n.id /\ m.stage = n.stage /\ m.n = n.n

\* One message: an alert that cannot be stored is logged and passed over.
Tell ==
  \E k \in checkup.todo :
    LET m == MessageOf(k) IN
    /\ checkup.pc = "tell"
    /\ \A j \in checkup.todo : Rank[k] <= Rank[j]
    /\ episodes' = [episodes EXCEPT ![k] = After(episodes[k], checkup.active[k], checkup.at)]
    /\ \/ /\ messages' = IF \E n \in messages : Same(m, n) THEN messages ELSE messages \union {m}
          /\ UNCHANGED <<cut, upsets>>
       \/ /\ Upset
          /\ cut' = cut \union {<<k, m.id>>}
          /\ UNCHANGED messages
    /\ checkup' = [checkup EXCEPT !.todo = @ \ {k}, !.pc = IF checkup.todo = {k} THEN "idle" ELSE "tell"]
    /\ UNCHANGED <<clock, tracker, host>>

\* A restart: nothing is read back, and the first check comes an interval later.
HealthCrash ==
  /\ Upset
  /\ cut' = cut \union {<<k, episodes[k].id>> : k \in {k \in Troubles : Open(k)}}
  /\ episodes' = [k \in Troubles |-> NoEpisode]
  /\ tracker' = Started
  /\ checkup' = [pc |-> "idle", at |-> clock, active |-> Well, todo |-> {}]
  /\ UNCHANGED <<clock, host, messages>>

HourPasses ==
  /\ clock < LastHour
  /\ clock' = clock + 1
  /\ UNCHANGED <<tracker, host, checkup, episodes, messages, cut, upsets>>

HealthNext ==
  ScanEnds \/ HostChanges \/ CheckBegin \/ CheckSample \/ Tell \/ HealthCrash \/ HourPasses

-----------------------------------------------------------------------------
(* Properties                                                              *)

Opens(m) == m.stage \in {"open", "critical"}
OfOne(m, n) == m.key = n.key /\ m.id = n.id

\* An open trouble has been told, as critical if it is: one missed alert excepted,
\* the owner never has to ask.
OpenIsTold ==
  \A k \in Troubles : Open(k) /\ <<k, episodes[k].id>> \notin cut =>
    \E m \in messages : /\ m.key = k /\ m.id = episodes[k].id /\ Opens(m)
                        /\ m.stage = "critical" <=> episodes[k].severity = "critical"

\* A trouble that was told is still open or its end was told, unless an alert was
\* not stored or a restart forgot the episode.
ToldIsClosed ==
  \A m \in messages :
    \/ episodes[m.key].id = m.id
    \/ <<m.key, m.id>> \in cut
    \/ \E n \in messages : OfOne(m, n) /\ n.stage = "recovered"

\* Nothing of an episode is told after its end, and an episode of a kind begins
\* only when everything of the one before has been told, over restarts too.
EpisodesInTurn ==
  \A m, n \in messages : m.key = n.key =>
    /\ m.id < n.id => m.at < n.id
    /\ m.id = n.id /\ m.stage = "recovered" => n.at <= m.at

\* A reminder keeps its distance from whatever was told of the trouble before it.
RemindersApart ==
  \A m, n \in messages : OfOne(m, n) /\ n.stage = "reminder" /\ m.stage # "recovered" /\ m # n /\ m.at <= n.at =>
    m.at + ReminderTime <= n.at

\* The end of a stall is told only after a scan that worked since it was told.
RecoveryIsEarned ==
  LET k == "scan_stalled" IN
  checkup.pc = "tell" /\ k \in checkup.todo /\ Open(k) /\ checkup.active[k] = "none" =>
    tracker.ok >= episodes[k].id

HealthSafety ==
  HealthTypeOK /\ OpenIsTold /\ ToldIsClosed /\ EpisodesInTurn /\ RemindersApart /\ RecoveryIsEarned
=============================================================================
