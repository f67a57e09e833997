------------------------------ MODULE Outbox ------------------------------
(***************************************************************************)
(* Alerts on their way to the owner: the alert manager stores an event,    *)
(* the outbox keeps one record per event, the dispatcher leases a record,  *)
(* sends it and marks it, a timer retries what is undelivered, and         *)
(* reminders are grouped into digests.  The process may stop anywhere, an  *)
(* answer may be lost, Telegram may refuse or ask for a pause.             *)
(*                                                                         *)
(* Times are countdowns: how long a lease, a backoff or a requested pause  *)
(* still lasts.                                                            *)
(***************************************************************************)
EXTENDS Naturals, FiniteSets

CONSTANTS
  Immediate,  \* alerts sent at once (kill, cap, sent, confirmed, ...)
  Grouped,    \* alerts that wait for a digest
  LeaseTime, RetryTime, PauseTime, \* leaseMs, the backoff, Telegram's retry_after
  Faults      \* bound: crashes, lost answers, refusals, failing transactions, alerts that grow old

ASSUME TimesAssumption == {LeaseTime, RetryTime, PauseTime} \subseteq Nat \ {0}
ASSUME FaultsAssumption == Faults \in Nat

\* The identity of a digest is the set of alerts it includes.
Digests == (SUBSET Grouped) \ {{}}
Messages == {<<a>> : a \in Immediate} \cup {<<"digest", d>> : d \in Digests}
Digest(d) == <<"digest", d>>
ASSUME KindsAssumption == Immediate \cap Grouped = {} /\ Grouped \cap Messages = {}

VARIABLES
  events,    \* the stored events
  box,       \* the outbox record of an event
  work,      \* the dispatcher's step for an event
  flushing,  \* the alerts a flush has read and not yet put in a digest
  stale,     \* events older than the retry window
  faults,
  sent,      \* history: how often Telegram accepted the message
  excused,   \* history: how often an acceptance was not recorded
  pause      \* history: how long Telegram's pause, once recorded, still lasts

vars == <<events, box, work, flushing, stale, faults, sent, excused, pause>>

NoRecord == [state |-> "none", lease |-> 0, wait |-> 0, limited |-> FALSE]
Pending == [NoRecord EXCEPT !.state = "pending"]
MaxWait == IF RetryTime > PauseTime THEN RetryTime ELSE PauseTime

TypeOK ==
  /\ events \subseteq Grouped \cup Messages
  /\ box \in [Messages -> [state : {"none", "pending", "delivering", "failed", "delivered"},
                           lease : 0 .. LeaseTime, wait : 0 .. MaxWait, limited : BOOLEAN]]
  /\ work \in [Messages -> {"idle", "queue", "pace", "send", "mark", "fail", "limited"}]
  /\ flushing \subseteq Grouped /\ stale \subseteq Messages
  /\ faults \in 0 .. Faults /\ pause \in 0 .. PauseTime
  /\ sent \in [Messages -> Nat] /\ excused \in [Messages -> Nat]

Init ==
  /\ events = {} /\ flushing = {} /\ stale = {} /\ faults = Faults /\ pause = 0
  /\ box = [m \in Messages |-> NoRecord]
  /\ work = [m \in Messages |-> "idle"]
  /\ sent = [m \in Messages |-> 0] /\ excused = [m \in Messages |-> 0]

\* enqueueNotification: one record per event.
Enqueued(m) == IF box[m].state = "none" THEN Pending ELSE box[m]

\* sharedBackoff: any undelivered record that Telegram answered with 429 holds all of them.
Backoff == {box[n].wait : n \in {n \in Messages : box[n].limited /\ box[n].state # "delivered"}} \cup {0}
Longest(S) == CHOOSE x \in S : \A y \in S : y <= x
Held == \E t \in Backoff : t > 0
\* deferForProvider: a record that is neither delivered nor leased waits as long as the pause.
Deferred(r) == IF r.state # "delivered" /\ r.lease = 0
               THEN [r EXCEPT !.wait = Longest(Backoff \cup {r.wait})] ELSE r

---------------------------------------------------------------------------
(* The alert manager                                                       *)

\* emit, intelligence: event and outbox record in one transaction, then dispatch.
Emit(a) ==
  LET m == <<a>> IN
  /\ m \notin events
  /\ events' = events \cup {m}
  /\ box' = [box EXCEPT ![m] = Enqueued(m)]
  /\ work' = [work EXCEPT ![m] = "queue"]
  /\ UNCHANGED <<flushing, stale, faults, sent, excused, pause>>

EmitGrouped(g) ==
  /\ g \notin events
  /\ events' = events \cup {g}
  /\ UNCHANGED <<box, work, flushing, stale, faults, sent, excused, pause>>

\* flushDigest: digests without a record are dispatched again; what no digest covers is read.
Covered == UNION {d \in Digests : Digest(d) \in events}

\* Mutant: a digest that was stored and not dispatched is left alone.
FlushBeginNewOnly ==
  /\ flushing = {} /\ flushing' = (events \cap Grouped) \ Covered /\ flushing' # {}
  /\ UNCHANGED <<events, box, work, stale, faults, sent, excused, pause>>

FlushBegin ==
  /\ flushing = {} /\ flushing' = (events \cap Grouped) \ Covered
  /\ work' = [m \in Messages |->
        IF m \in events /\ m \in {Digest(d) : d \in Digests} /\ box[m].state = "none" /\ work[m] = "idle"
        THEN "queue" ELSE work[m]]
  /\ flushing' # {} \/ work' # work
  /\ UNCHANGED <<events, box, stale, faults, sent, excused, pause>>

FlushStore ==
  /\ flushing # {} /\ flushing' = {}
  /\ events' = events \cup {Digest(flushing)}
  /\ work' = [work EXCEPT ![Digest(flushing)] = "queue"]
  /\ UNCHANGED <<box, stale, faults, sent, excused, pause>>

\* retryUndelivered: undelivered, young enough and due; `active` keeps one dispatch per event.
Retry(m) ==
  /\ box[m].state \notin {"none", "delivered"} /\ box[m].wait = 0
  /\ m \notin stale /\ work[m] = "idle"
  /\ work' = [work EXCEPT ![m] = "queue"]
  /\ UNCHANGED <<events, box, flushing, stale, faults, sent, excused, pause>>

---------------------------------------------------------------------------
(* NotificationDispatcher.dispatch                                         *)

\* The first transaction queues the record before the pacing delay.
Queue(m) ==
  /\ work[m] = "queue"
  /\ LET r == Enqueued(m)
         eligible == r.state # "delivered" /\ ~Held
     IN  /\ box' = [box EXCEPT ![m] = IF r.state # "delivered" /\ Held THEN Deferred(r) ELSE r]
         /\ work' = [work EXCEPT ![m] = IF eligible THEN "pace" ELSE "idle"]
  /\ UNCHANGED <<events, flushing, stale, faults, sent, excused, pause>>

MayLease(m) == box[m].state # "delivered" /\ ~Held /\ box[m].wait = 0 /\ box[m].lease = 0

\* The second transaction takes the lease.
Lease(m) ==
  /\ work[m] = "pace"
  /\ IF MayLease(m)
     THEN /\ box' = [box EXCEPT ![m] = [state |-> "delivering", lease |-> LeaseTime, wait |-> 0, limited |-> FALSE]]
          /\ work' = [work EXCEPT ![m] = "send"]
     ELSE /\ box' = [box EXCEPT ![m] = IF Held THEN Deferred(box[m]) ELSE box[m]]
          /\ work' = [work EXCEPT ![m] = "idle"]
  /\ UNCHANGED <<events, flushing, stale, faults, sent, excused, pause>>

\* TelegramNotifier.send: accepted and answered; accepted but the answer is lost or times out;
\* refused; or refused with a pause (429).
Answer(m, next, accepted) ==
  /\ work[m] = "send"
  /\ work' = [work EXCEPT ![m] = next]
  /\ sent' = [sent EXCEPT ![m] = @ + (IF accepted THEN 1 ELSE 0)]
  /\ excused' = [excused EXCEPT ![m] = @ + (IF accepted /\ next = "fail" THEN 1 ELSE 0)]
  /\ faults' = faults - (IF next = "mark" THEN 0 ELSE 1)
  /\ UNCHANGED <<events, box, flushing, stale, pause>>
Accepted(m) == Answer(m, "mark", TRUE)
AnswerLost(m) == faults > 0 /\ Answer(m, "fail", TRUE)
Refused(m) == faults > 0 /\ Answer(m, "fail", FALSE)
RateLimited(m) == faults > 0 /\ Answer(m, "limited", FALSE)

\* Mutant: the record is put back in the queue and never marked.
MarkNothing(m) ==
  /\ work[m] = "mark"
  /\ box' = [box EXCEPT ![m] = Pending]
  /\ work' = [work EXCEPT ![m] = "idle"]
  /\ UNCHANGED <<events, flushing, stale, faults, sent, excused, pause>>

Mark(m) ==
  /\ work[m] = "mark"
  /\ box' = [box EXCEPT ![m] = [NoRecord EXCEPT !.state = "delivered"]]
  /\ work' = [work EXCEPT ![m] = "idle"]
  /\ UNCHANGED <<events, flushing, stale, faults, sent, excused, pause>>

Fail(m) ==
  /\ work[m] \in {"fail", "limited"}
  /\ box' = [box EXCEPT ![m] = [state |-> "failed", lease |-> 0, limited |-> work[m] = "limited",
                                wait |-> IF work[m] = "limited" THEN MaxWait ELSE RetryTime]]
  /\ work' = [work EXCEPT ![m] = "idle"]
  /\ pause' = IF work[m] = "limited" THEN PauseTime ELSE pause
  /\ UNCHANGED <<events, flushing, stale, faults, sent, excused>>

\* A transaction of the dispatch fails and the process goes on: a failing mark is recorded as a failed
\* attempt, so the message is sent again; if that fails too, the lease runs out.
StoreFails(m) ==
  /\ faults > 0 /\ faults' = faults - 1
  /\ work[m] \in {"queue", "pace", "mark", "fail", "limited"}
  /\ work' = [work EXCEPT ![m] = IF @ = "mark" THEN "fail" ELSE "idle"]
  /\ excused' = [excused EXCEPT ![m] = @ + (IF work[m] = "mark" THEN 1 ELSE 0)]
  /\ UNCHANGED <<events, box, flushing, stale, sent, pause>>

\* The digest of a flush cannot be stored; what it read is read again by the next one.
FlushFails ==
  /\ faults > 0 /\ faults' = faults - 1
  /\ flushing # {} /\ flushing' = {}
  /\ UNCHANGED <<events, box, work, stale, sent, excused, pause>>

---------------------------------------------------------------------------
\* The process stops: the steps of the dispatcher and of a flush are lost.
Crash ==
  /\ faults > 0 /\ faults' = faults - 1
  /\ excused' = [m \in Messages |-> excused[m] + (IF work[m] = "mark" THEN 1 ELSE 0)]
  /\ work' = [m \in Messages |-> "idle"] /\ flushing' = {}
  /\ UNCHANGED <<events, box, stale, sent, pause>>

Less(n) == IF n = 0 THEN 0 ELSE n - 1
Tick ==
  /\ pause > 0 \/ \E m \in Messages : box[m].lease > 0 \/ box[m].wait > 0
  /\ box' = [m \in Messages |-> [box[m] EXCEPT !.lease = Less(@), !.wait = Less(@)]]
  /\ pause' = Less(pause)
  /\ UNCHANGED <<events, work, flushing, stale, faults, sent, excused>>

GrowOld(m) ==
  /\ faults > 0 /\ faults' = faults - 1
  /\ m \in events /\ m \notin stale /\ stale' = stale \cup {m}
  /\ UNCHANGED <<events, box, work, flushing, sent, excused, pause>>

Dispatch(m) == Queue(m) \/ Lease(m) \/ Mark(m) \/ Fail(m)
Flush == FlushBegin \/ FlushStore
Next ==
  \/ Flush \/ FlushFails \/ Crash \/ Tick
  \/ \E a \in Immediate : Emit(a)
  \/ \E g \in Grouped : EmitGrouped(g)
  \/ \E m \in Messages : \/ Retry(m) \/ Dispatch(m) \/ Accepted(m) \/ AnswerLost(m)
                         \/ Refused(m) \/ RateLimited(m) \/ StoreFails(m) \/ GrowOld(m)

\* The timers of the intelligence service call retry and flush for ever, a dispatch that has begun
\* goes on, and every send has a timeout: it ends, and not always badly (faults are bounded).
Fairness == /\ WF_vars(Flush) /\ WF_vars(Tick)
            /\ \A m \in Messages : WF_vars(Dispatch(m)) /\ WF_vars(Retry(m)) /\ WF_vars(Accepted(m))
Spec == Init /\ [][Next]_vars /\ Fairness

---------------------------------------------------------------------------
(* Properties                                                              *)

\* The owner gets a message twice only when an acceptance could not be recorded: the process
\* stopped before the mark, the mark failed, or Telegram's answer was lost (notifications.ts:136-187).
OnceUnlessLost == \A m \in Messages : sent[m] <= 1 + excused[m]

\* A reminder is part of one digest, whatever stops between storing, sending and marking it
\* (alerts.ts:138-154).
OneDigestEach == \A d, e \in Digests : Digest(d) \in events /\ Digest(e) \in events /\ d # e => d \cap e = {}

Told == {a \in Immediate : sent[<<a>>] > 0} \cup UNION {d \in Digests : sent[Digest(d)] > 0}
Outdated == {a \in Immediate : <<a>> \in stale} \cup UNION {d \in Digests : Digest(d) \in stale}
Delivers == INSTANCE Delivery WITH
  Alerts <- Immediate \cup Grouped, told <- Told, dropped <- Outdated,
  recorded <- {a \in Immediate : <<a>> \in events} \cup (events \cap Grouped)

\* Every alert that was recorded is told or grows too old; nothing is told that was not recorded
\* (notifications.ts:44-58, alerts.ts:138-184).
EveryAlertArrives == Delivers!Spec

\* What holds in every state of the outbox: no message twice without a lost answer, no reminder in
\* two digests.
Safety == TypeOK /\ OnceUnlessLost /\ OneDigestEach
===========================================================================
