--------------------------- MODULE TelegramProofs ---------------------------
(***************************************************************************)
(* Proofs about both directions of the owner's chat.  The alerts that are  *)
(* sent: Outbox is safe for any alerts, times and number of faults, and    *)
(* every step of it is a step of Delivery.  The commands that come in:     *)
(* CommandAccess is safe, and lets a command through only after a new      *)
(* code, for any workers, updates and number of faults.  And the guided    *)
(* flows: the last button of a flow does what its summary showed.          *)
(***************************************************************************)
EXTENDS Outbox, MCTelegram, NumberLemmas, FiniteSetTheorems, TLAPS

States == {"none", "pending", "delivering", "failed", "delivered"}
Box == [state : States, lease : 0 .. LeaseTime, wait : 0 .. MaxWait, limited : BOOLEAN]
Works == {"idle", "queue", "pace", "send", "mark", "fail", "limited"}

\* Nothing is under way for a message that is not an event.
EventsFirst ==
  \A m \in Messages : m \notin events => box[m].state = "none" /\ work[m] = "idle" /\ sent[m] = 0

\* A digest is made of events.
DigestOfEvents == \A d \in Digests : Digest(d) \in events => d \subseteq events

\* What a flush has read is in no digest yet.
FlushingIsNew == flushing \subseteq events /\ flushing \cap Covered = {}

\* A message with the dispatcher is not marked as delivered.
LeaseIsOpen == \A m \in Messages : work[m] \in {"send", "mark", "fail", "limited"} => box[m].state # "delivered"

\* Until a message is about to be marked, every acceptance of it was lost.
OnlyLostSoFar ==
  \A m \in Messages : box[m].state # "delivered" /\ work[m] # "mark" => sent[m] <= excused[m]

OutboxInv ==
  TypeOK /\ EventsFirst /\ DigestOfEvents /\ FlushingIsNew /\ LeaseIsOpen
    /\ OnlyLostSoFar /\ OnceUnlessLost /\ OneDigestEach

-----------------------------------------------------------------------------
(* The types                                                               *)

\* Changing the entry of one message leaves the others as they are.
LEMMA OneEntry ==
  ASSUME NEW S, NEW f \in [Messages -> S], NEW m \in Messages, NEW e
  PROVE  LET g == [f EXCEPT ![m] = e] IN
         /\ g[m] = e
         /\ \A n \in Messages : n # m => g[n] = f[n]
         /\ e \in S => g \in [Messages -> S]
OBVIOUS

\* A digest is a message, and messages and reminders are told apart.
LEMMA Names ==
  /\ \A d \in Digests : Digest(d) \in Messages /\ Digest(d) \notin Grouped
  /\ \A a \in Immediate : <<a>> \in Messages /\ <<a>> \notin Grouped /\ a \notin Grouped
  /\ \A d, e \in Digests : Digest(d) = Digest(e) => d = e
  /\ \A a \in Immediate, d \in Digests : <<a>> # Digest(d)
  /\ \A m \in Messages : (\E a \in Immediate : m = <<a>>) \/ (\E d \in Digests : m = Digest(d))
<1> USE KindsAssumption DEF Digests, Messages, Digest
<1>1. \A d, e \in Digests : Digest(d) = Digest(e) => d = e
  OBVIOUS
<1>2. \A a \in Immediate, d \in Digests : <<a>> # Digest(d)
  OBVIOUS
<1>3. /\ \A d \in Digests : Digest(d) \in Messages /\ Digest(d) \notin Grouped
      /\ \A a \in Immediate : <<a>> \in Messages /\ <<a>> \notin Grouped /\ a \notin Grouped
  OBVIOUS
<1>4. \A m \in Messages : (\E a \in Immediate : m = <<a>>) \/ (\E d \in Digests : m = Digest(d))
  OBVIOUS
<1> QED
  BY <1>1, <1>2, <1>3, <1>4

LEMMA Waits == LeaseTime \in Nat /\ RetryTime \in 0 .. MaxWait /\ PauseTime \in 0 .. MaxWait /\ MaxWait \in Nat
BY TimesAssumption DEF MaxWait

\* The record a 429 defers is a record.
LEMMA DeferredType ==
  ASSUME TypeOK, NEW r \in Box
  PROVE  Deferred(r) \in Box /\ Deferred(r).state = r.state
<1> DEFINE S == Backoff \cup {r.wait}
<1>1. \A n \in Messages : box[n].wait \in 0 .. MaxWait
  BY DEF TypeOK
<1>2. S \in SUBSET (0 .. MaxWait) /\ S # {}
  BY <1>1, Waits DEF Backoff, Box
<1>3. \E x \in S : \A y \in S : y <= x
  BY <1>2, Waits, LargestOf
<1>4. Longest(S) \in S
  BY <1>3 DEF Longest
<1>5. Longest(S) \in 0 .. MaxWait
  BY <1>2, <1>4
<1> HIDE DEF S
<1>6. [r EXCEPT !.wait = Longest(S)] \in Box /\ [r EXCEPT !.wait = Longest(S)].state = r.state
  BY <1>5 DEF Box
<1> QED
  BY <1>6 DEF Deferred, S

LEMMA RecordTypes ==
  /\ NoRecord \in Box /\ Pending \in Box /\ [NoRecord EXCEPT !.state = "delivered"] \in Box
  /\ [state |-> "delivering", lease |-> LeaseTime, wait |-> 0, limited |-> FALSE] \in Box
  /\ \A b \in BOOLEAN : [state |-> "failed", lease |-> 0, limited |-> b, wait |-> IF b THEN MaxWait ELSE RetryTime] \in Box
<1> USE Waits DEF NoRecord, Pending, Box, States
<1>0. 0 \in 0 .. LeaseTime /\ LeaseTime \in 0 .. LeaseTime /\ 0 \in 0 .. MaxWait /\ MaxWait \in 0 .. MaxWait
  OBVIOUS
<1>1. NoRecord \in Box /\ Pending \in Box /\ [NoRecord EXCEPT !.state = "delivered"] \in Box
  BY <1>0
<1>2. [state |-> "delivering", lease |-> LeaseTime, wait |-> 0, limited |-> FALSE] \in Box
  BY <1>0
<1>3. ASSUME NEW b \in BOOLEAN
      PROVE  [state |-> "failed", lease |-> 0, limited |-> b, wait |-> IF b THEN MaxWait ELSE RetryTime] \in Box
  BY <1>0
<1> QED
  BY <1>1, <1>2, <1>3

LEMMA EnqueuedType ==
  ASSUME TypeOK, NEW m \in Messages
  PROVE  Enqueued(m) \in Box /\ (Enqueued(m).state = "delivered" <=> box[m].state = "delivered")
<1>1. box[m] \in Box
  BY DEF TypeOK, Box, States
<1> QED
  BY <1>1, RecordTypes DEF Enqueued, Pending, NoRecord

LEMMA LessType == \A n \in Nat : Less(n) \in 0 .. n
BY DEF Less

\* Every action keeps the types.
LEMMA TypeStep ==
  ASSUME TypeOK, [Next]_vars
  PROVE  TypeOK'
<1>0. /\ events \subseteq Grouped \cup Messages /\ box \in [Messages -> Box] /\ work \in [Messages -> Works]
      /\ flushing \subseteq Grouped /\ stale \subseteq Messages /\ faults \in 0 .. Faults /\ pause \in 0 .. PauseTime
      /\ sent \in [Messages -> Nat] /\ excused \in [Messages -> Nat]
  BY DEF TypeOK, Box, States, Works
<1> DEFINE AllTyped ==
      /\ events' \subseteq Grouped \cup Messages /\ box' \in [Messages -> Box] /\ work' \in [Messages -> Works]
      /\ flushing' \subseteq Grouped /\ stale' \subseteq Messages /\ faults' \in 0 .. Faults /\ pause' \in 0 .. PauseTime
      /\ sent' \in [Messages -> Nat] /\ excused' \in [Messages -> Nat]
<1> SUFFICES AllTyped
  BY DEF TypeOK, Box, States, Works
<1> USE FaultsAssumption, Waits
<1>1. CASE UNCHANGED vars
  BY <1>0, <1>1 DEF vars
<1>2. ASSUME NEW a \in Immediate, Emit(a) PROVE AllTyped
  <2>1. <<a>> \in Messages /\ Enqueued(<<a>>) \in Box /\ "queue" \in Works
    BY Names, EnqueuedType DEF Works
  <2>2. box' = [box EXCEPT ![<<a>>] = Enqueued(<<a>>)] /\ work' = [work EXCEPT ![<<a>>] = "queue"]
    BY <1>2 DEF Emit
  <2>3. box' \in [Messages -> Box] /\ work' \in [Messages -> Works]
    BY <1>0, <2>1, <2>2, OneEntry
  <2> QED
    BY <1>0, <1>2, <2>1, <2>3 DEF Emit
<1>3. ASSUME NEW g \in Grouped, EmitGrouped(g) PROVE AllTyped
  BY <1>0, <1>3 DEF EmitGrouped
<1>4. CASE FlushBegin
  <2>1. work' \in [Messages -> Works]
    BY <1>0, <1>4 DEF FlushBegin, Works
  <2> QED
    BY <1>0, <1>4, <2>1 DEF FlushBegin
<1>5. CASE FlushStore
  <2>1. flushing \in Digests
    BY <1>0, <1>5 DEF FlushStore, Digests
  <2>2. Digest(flushing) \in Messages /\ "queue" \in Works
    BY <2>1, Names DEF Works
  <2>3. work' \in [Messages -> Works]
    BY <1>0, <1>5, <2>2 DEF FlushStore
  <2> QED
    BY <1>0, <1>5, <2>2, <2>3 DEF FlushStore
<1>6. ASSUME NEW m \in Messages, Retry(m) PROVE AllTyped
  BY <1>0, <1>6, OneEntry DEF Retry, Works
<1>7. ASSUME NEW m \in Messages, Queue(m) PROVE AllTyped
  <2>1. Enqueued(m) \in Box /\ Deferred(Enqueued(m)) \in Box
    BY EnqueuedType, DeferredType
  <2> DEFINE e == IF Enqueued(m).state # "delivered" /\ Held THEN Deferred(Enqueued(m)) ELSE Enqueued(m)
             s == IF Enqueued(m).state # "delivered" /\ ~Held THEN "pace" ELSE "idle"
  <2>3. box' = [box EXCEPT ![m] = e] /\ work' = [work EXCEPT ![m] = s]
    BY <1>7 DEF Queue
  <2>4. e \in Box /\ s \in Works
    BY <2>1 DEF Works
  <2> HIDE DEF e, s
  <2>2. box' \in [Messages -> Box] /\ work' \in [Messages -> Works]
    BY <1>0, <2>3, <2>4, OneEntry
  <2> QED
    BY <1>0, <1>7, <2>2 DEF Queue
<1>8. ASSUME NEW m \in Messages, Lease(m) PROVE AllTyped
  <2>1. box[m] \in Box /\ Deferred(box[m]) \in Box
    BY <1>0, DeferredType
  <2>2. box' \in [Messages -> Box] /\ work' \in [Messages -> Works]
    <3>1. CASE MayLease(m)
      <4> DEFINE e == [state |-> "delivering", lease |-> LeaseTime, wait |-> 0, limited |-> FALSE]
      <4>1. box' = [box EXCEPT ![m] = e] /\ work' = [work EXCEPT ![m] = "send"]
        BY <1>8, <3>1 DEF Lease
      <4>2. e \in Box
        BY RecordTypes
      <4> HIDE DEF e
      <4> QED
        BY <1>0, <4>1, <4>2, OneEntry DEF Works
    <3>2. CASE ~MayLease(m)
      <4> DEFINE e == IF Held THEN Deferred(box[m]) ELSE box[m]
      <4>1. box' = [box EXCEPT ![m] = e] /\ work' = [work EXCEPT ![m] = "idle"]
        BY <1>8, <3>2 DEF Lease
      <4>2. e \in Box
        BY <2>1
      <4> HIDE DEF e
      <4> QED
        BY <1>0, <4>1, <4>2, OneEntry DEF Works
    <3> QED
      BY <3>1, <3>2
  <2> QED
    BY <1>0, <1>8, <2>2 DEF Lease
<1>9. ASSUME NEW m \in Messages, NEW next \in {"mark", "fail", "limited"}, NEW accepted \in BOOLEAN,
             Answer(m, next, accepted), faults > 0 \/ next = "mark"
      PROVE  AllTyped
  <2>1. work' \in [Messages -> Works]
    BY <1>0, <1>9, OneEntry DEF Answer, Works
  <2>2. sent' \in [Messages -> Nat] /\ excused' \in [Messages -> Nat]
    BY <1>0, <1>9 DEF Answer
  <2>3. faults' \in 0 .. Faults
    BY <1>0, <1>9 DEF Answer
  <2> QED
    BY <1>0, <1>9, <2>1, <2>2, <2>3 DEF Answer
<1>10. ASSUME NEW m \in Messages, Mark(m) PROVE AllTyped
  BY <1>0, <1>10, RecordTypes, OneEntry DEF Mark, Works
<1>11. ASSUME NEW m \in Messages, Fail(m) PROVE AllTyped
  <2> DEFINE b == work[m] = "limited"
             r == [state |-> "failed", lease |-> 0, limited |-> b, wait |-> IF b THEN MaxWait ELSE RetryTime]
  <2>1. r \in Box
    BY RecordTypes
  <2>2. box' = [box EXCEPT ![m] = r]
    BY <1>11 DEF Fail
  <2> HIDE DEF r
  <2>3. box' \in [Messages -> Box]
    BY <1>0, <2>1, <2>2, OneEntry
  <2> QED
    BY <1>0, <1>11, <2>3, OneEntry, TimesAssumption DEF Fail, Works
<1>12. CASE Crash
  <2>1. excused' \in [Messages -> Nat] /\ work' \in [Messages -> Works]
    BY <1>0, <1>12 DEF Crash, Works
  <2> QED
    BY <1>0, <1>12, <2>1 DEF Crash
<1>13. CASE Tick
  <2>1. ASSUME NEW m \in Messages
        PROVE  [box[m] EXCEPT !.lease = Less(@), !.wait = Less(@)] \in Box
    <3>1. box[m] \in Box
      BY <1>0
    <3>2. ASSUME NEW r \in Box, NEW l \in 0 .. LeaseTime, NEW t \in 0 .. MaxWait
          PROVE  [r EXCEPT !.lease = l, !.wait = t] \in Box
      BY DEF Box
    <3>3. Less(box[m].lease) \in 0 .. LeaseTime /\ Less(box[m].wait) \in 0 .. MaxWait
      BY <3>1 DEF Less, Box
    <3> QED
      BY <3>1, <3>2, <3>3
  <2>2. box' \in [Messages -> Box]
    BY <1>13, <2>1 DEF Tick
  <2>3. pause' \in 0 .. PauseTime
    <3>1. PauseTime \in Nat /\ pause \in 0 .. PauseTime /\ pause' = Less(pause)
      BY <1>0, <1>13, TimesAssumption DEF Tick
    <3> QED
      BY <3>1 DEF Less
  <2> QED
    BY <1>0, <1>13, <2>2, <2>3 DEF Tick
<1>14. ASSUME NEW m \in Messages, GrowOld(m) PROVE AllTyped
  BY <1>0, <1>14 DEF GrowOld
<1>15. ASSUME NEW m \in Messages, Accepted(m) \/ AnswerLost(m) \/ Refused(m) \/ RateLimited(m) PROVE AllTyped
  BY <1>9, <1>15 DEF Accepted, AnswerLost, Refused, RateLimited
<1>16. ASSUME NEW m \in Messages, StoreFails(m) PROVE AllTyped
  <2> DEFINE w == IF work[m] = "mark" THEN "fail" ELSE "idle"
             e == excused[m] + (IF work[m] = "mark" THEN 1 ELSE 0)
  <2>1. w \in Works /\ e \in Nat /\ work' = [work EXCEPT ![m] = w] /\ excused' = [excused EXCEPT ![m] = e]
    BY <1>0, <1>16 DEF StoreFails, Works
  <2> HIDE DEF w, e
  <2> QED
    BY <1>0, <1>16, <2>1 DEF StoreFails
<1>17. CASE FlushFails
  BY <1>0, <1>17 DEF FlushFails
<1> HIDE DEF AllTyped
<1> QED
  BY <1>1, <1>2, <1>3, <1>4, <1>5, <1>6, <1>7, <1>8, <1>10, <1>11, <1>12, <1>13, <1>14, <1>15, <1>16, <1>17
  DEF Next, Flush, Dispatch

-----------------------------------------------------------------------------
(* What a step does to one message                                         *)

Delivered(m) == box[m].state = "delivered"

\* Nothing that counts: no acceptance, no mark; a message about to be marked is
\* left alone, and a lease is taken only on a message that is not delivered.
Waiting(m) ==
  /\ sent'[m] = sent[m] /\ excused'[m] = excused[m]
  /\ box'[m].state = "delivered" <=> Delivered(m)
  /\ \/ work'[m] = work[m]
     \/ /\ work[m] # "mark"
        /\ work'[m] \in {"idle", "queue", "pace"} \/ (work'[m] = "send" /\ ~Delivered(m))

\* An answer to a send.
Answered(m) ==
  /\ work[m] = "send" /\ box'[m] = box[m]
  /\ \/ work'[m] = "mark" /\ sent'[m] = sent[m] + 1 /\ excused'[m] = excused[m]
     \/ work'[m] = "fail" /\ sent'[m] = sent[m] + 1 /\ excused'[m] = excused[m] + 1
     \/ work'[m] \in {"fail", "limited"} /\ sent'[m] = sent[m] /\ excused'[m] = excused[m]

\* The mark, or the stop or failure that loses it.
MarkedOrLost(m) ==
  /\ work[m] = "mark" /\ sent'[m] = sent[m]
  /\ \/ work'[m] = "idle" /\ box'[m].state = "delivered" /\ excused'[m] = excused[m]
     \/ work'[m] \in {"idle", "fail"} /\ box'[m] = box[m] /\ excused'[m] = excused[m] + 1

Untouched(m) == /\ work'[m] = work[m] /\ sent'[m] = sent[m] /\ excused'[m] = excused[m]
                /\ box'[m].state = box[m].state

LEMMA MessageStep ==
  ASSUME OutboxInv, Next, NEW m \in Messages
  PROVE  /\ Waiting(m) \/ Answered(m) \/ MarkedOrLost(m)
         /\ m \notin events' => m \notin events /\ Untouched(m)
<1> DEFINE Goal == /\ Waiting(m) \/ Answered(m) \/ MarkedOrLost(m)
                   /\ m \notin events' => m \notin events /\ Untouched(m)
<1> SUFFICES Goal
  OBVIOUS
<1>0. /\ box \in [Messages -> Box] /\ work \in [Messages -> Works]
      /\ sent \in [Messages -> Nat] /\ excused \in [Messages -> Nat]
  BY DEF OutboxInv, TypeOK, Box, States, Works
<1>q. Untouched(m) => Waiting(m)
  BY DEF Untouched, Waiting, Delivered
<1>1. ASSUME NEW a \in Immediate, Emit(a) PROVE Goal
  <2>1. <<a>> \in Messages
    BY Names
  <2>2. box[<<a>>].state = "none" /\ work[<<a>>] = "idle"
    BY <1>1, <2>1 DEF Emit, OutboxInv, EventsFirst
  <2>3. Enqueued(<<a>>).state # "delivered"
    BY <2>2, <2>1, EnqueuedType DEF OutboxInv
  <2>4. /\ box' = [box EXCEPT ![<<a>>] = Enqueued(<<a>>)] /\ work' = [work EXCEPT ![<<a>>] = "queue"]
        /\ sent' = sent /\ excused' = excused /\ events' = events \cup {<<a>>}
    BY <1>1 DEF Emit
  <2> QED
    BY <1>0, <2>1, <2>2, <2>3, <2>4, OneEntry DEF Waiting, Untouched, Delivered
<1>2. ASSUME NEW g \in Grouped, EmitGrouped(g) PROVE Goal
  BY <1>2, <1>q DEF EmitGrouped, Untouched
<1>3. CASE FlushBegin
  BY <1>0, <1>3 DEF FlushBegin, Waiting, Untouched, Delivered
<1>4. CASE FlushStore
  <2>1. flushing \in Digests
    BY <1>4 DEF FlushStore, Digests, OutboxInv, TypeOK
  <2>2. Digest(flushing) \in Messages
    BY <2>1, Names
  <2>3. Digest(flushing) \notin events
    BY <1>4, <2>1 DEF OutboxInv, FlushingIsNew, Covered, FlushStore
  <2>4. work[Digest(flushing)] = "idle"
    BY <2>2, <2>3 DEF OutboxInv, EventsFirst
  <2> QED
    BY <1>0, <1>4, <2>2, <2>4, OneEntry DEF FlushStore, Waiting, Untouched, Delivered
<1>5. CASE Crash
  <2>1. work'[m] = "idle" /\ excused'[m] = excused[m] + (IF work[m] = "mark" THEN 1 ELSE 0)
    BY <1>5 DEF Crash
  <2>2. box' = box /\ sent' = sent /\ events' = events
    BY <1>5 DEF Crash
  <2> QED
    BY <1>0, <2>1, <2>2 DEF Waiting, MarkedOrLost, Untouched, Delivered, OutboxInv, EventsFirst
<1>6. CASE Tick
  <2>1. box'[m].state = box[m].state
    BY <1>0, <1>6 DEF Tick, Box
  <2> QED
    BY <1>6, <1>q, <2>1 DEF Tick, Untouched
<1>7. ASSUME NEW n \in Messages, GrowOld(n) PROVE Goal
  BY <1>7, <1>q DEF GrowOld, Untouched
<1>8. ASSUME NEW n \in Messages, Retry(n) PROVE Goal
  BY <1>0, <1>8, OneEntry DEF Retry, Waiting, Untouched, Delivered, OutboxInv, EventsFirst
<1>9. ASSUME NEW n \in Messages, Queue(n) PROVE Goal
  <2>1. Enqueued(n) \in Box /\ Deferred(Enqueued(n)).state = Enqueued(n).state /\ (Enqueued(n).state = "delivered" <=> Delivered(n))
    BY EnqueuedType, DeferredType DEF OutboxInv, Delivered
  <2> DEFINE e == IF Enqueued(n).state # "delivered" /\ Held THEN Deferred(Enqueued(n)) ELSE Enqueued(n)
             s == IF Enqueued(n).state # "delivered" /\ ~Held THEN "pace" ELSE "idle"
  <2>3. box' = [box EXCEPT ![n] = e] /\ work' = [work EXCEPT ![n] = s] /\ UNCHANGED <<events, sent, excused>> /\ work[n] = "queue"
    BY <1>9 DEF Queue
  <2>4. (e.state = "delivered" <=> Delivered(n)) /\ s \in {"pace", "idle"} /\ n \in events
    BY <2>1, <2>3 DEF OutboxInv, EventsFirst
  <2> HIDE DEF e, s
  <2> QED
    BY <1>0, <2>3, <2>4, OneEntry DEF Waiting, Untouched, Delivered
<1>10. ASSUME NEW n \in Messages, Lease(n) PROVE Goal
  <2>0. work[n] = "pace" /\ n \in events /\ UNCHANGED <<events, sent, excused>>
    BY <1>10 DEF Lease, OutboxInv, EventsFirst
  <2>1. CASE MayLease(n)
    <3>1. /\ box' = [box EXCEPT ![n] = [state |-> "delivering", lease |-> LeaseTime, wait |-> 0, limited |-> FALSE]]
          /\ work' = [work EXCEPT ![n] = "send"] /\ ~Delivered(n)
      BY <1>10, <2>1 DEF Lease, MayLease, Delivered
    <3> QED
      BY <1>0, <2>0, <3>1, OneEntry DEF Waiting, Untouched, Delivered
  <2>2. CASE ~MayLease(n)
    <3> DEFINE e == IF Held THEN Deferred(box[n]) ELSE box[n]
    <3>1. box' = [box EXCEPT ![n] = e] /\ work' = [work EXCEPT ![n] = "idle"]
      BY <1>10, <2>2 DEF Lease
    <3>2. e.state = box[n].state
      BY <1>0, DeferredType DEF OutboxInv
    <3> HIDE DEF e
    <3> QED
      BY <1>0, <2>0, <3>1, <3>2, OneEntry DEF Waiting, Untouched, Delivered
  <2> QED
    BY <2>1, <2>2
<1>11. ASSUME NEW n \in Messages, Accepted(n) \/ AnswerLost(n) \/ Refused(n) \/ RateLimited(n) PROVE Goal
  <2>0. work[n] = "send" /\ n \in events /\ events' = events /\ box' = box
    BY <1>11 DEF Accepted, AnswerLost, Refused, RateLimited, Answer, OutboxInv, EventsFirst
  <2>1. CASE n = m
    BY <1>0, <1>11, <2>0, <2>1 DEF Accepted, AnswerLost, Refused, RateLimited, Answer, Answered
  <2>2. CASE n # m
    <3>1. Untouched(m)
      BY <1>0, <1>11, <2>0, <2>2 DEF Accepted, AnswerLost, Refused, RateLimited, Answer, Untouched
    <3> QED
      BY <1>q, <2>0, <3>1
  <2> QED
    BY <2>1, <2>2
<1>12. ASSUME NEW n \in Messages, Mark(n) PROVE Goal
  <2> DEFINE r == [NoRecord EXCEPT !.state = "delivered"]
  <2>1. /\ box' = [box EXCEPT ![n] = r] /\ work' = [work EXCEPT ![n] = "idle"] /\ UNCHANGED <<events, sent, excused>>
        /\ work[n] = "mark"
    BY <1>12 DEF Mark
  <2>2. r.state = "delivered" /\ n \in events
    BY <2>1 DEF OutboxInv, EventsFirst, NoRecord
  <2> HIDE DEF r
  <2>3. n # m => Untouched(m)
    BY <1>0, <2>1, OneEntry DEF Untouched
  <2>4. n = m => MarkedOrLost(m)
    BY <1>0, <2>1, <2>2, OneEntry DEF MarkedOrLost
  <2>5. events' = events
    BY <2>1
  <2>6. CASE n = m
    BY <2>2, <2>4, <2>5, <2>6
  <2>7. CASE n # m
    BY <1>q, <2>3, <2>5, <2>7
  <2> QED
    BY <2>6, <2>7
<1>13. ASSUME NEW n \in Messages, Fail(n) PROVE Goal
  <2> DEFINE r == [state |-> "failed", lease |-> 0, limited |-> work[n] = "limited",
                   wait |-> IF work[n] = "limited" THEN MaxWait ELSE RetryTime]
  <2>1. /\ box' = [box EXCEPT ![n] = r] /\ work' = [work EXCEPT ![n] = "idle"] /\ UNCHANGED <<events, sent, excused>>
        /\ work[n] \in {"fail", "limited"}
    BY <1>13 DEF Fail
  <2>2. r.state = "failed" /\ n \in events /\ ~Delivered(n)
    BY <2>1 DEF OutboxInv, EventsFirst, LeaseIsOpen, Delivered
  <2> HIDE DEF r
  <2> QED
    BY <1>0, <2>1, <2>2, OneEntry DEF Waiting, Untouched, Delivered
<1>15. ASSUME NEW n \in Messages, StoreFails(n) PROVE Goal
  <2> DEFINE w == IF work[n] = "mark" THEN "fail" ELSE "idle"
             e == excused[n] + (IF work[n] = "mark" THEN 1 ELSE 0)
  <2>1. /\ work' = [work EXCEPT ![n] = w] /\ excused' = [excused EXCEPT ![n] = e] /\ UNCHANGED <<events, box, sent>>
        /\ work[n] # "idle" /\ work[n] # "send" /\ n \in events
    BY <1>15 DEF StoreFails, OutboxInv, EventsFirst
  <2>2. work[n] = "mark" => w = "fail" /\ e = excused[n] + 1
    OBVIOUS
  <2>3. work[n] # "mark" => w = "idle" /\ e = excused[n]
    BY <1>0
  <2> HIDE DEF w, e
  <2>4. CASE n # m
    BY <1>0, <1>q, <2>1, <2>4 DEF Untouched
  <2>5. CASE n = m /\ work[n] = "mark"
    BY <1>0, <2>1, <2>2, <2>5 DEF MarkedOrLost
  <2>6. CASE n = m /\ work[n] # "mark"
    BY <1>0, <2>1, <2>3, <2>6 DEF Waiting, Delivered
  <2> QED
    BY <2>4, <2>5, <2>6
<1>16. CASE FlushFails
  BY <1>16, <1>q DEF FlushFails, Untouched
<1> HIDE DEF Goal
<1>14. ASSUME NEW n \in Messages, \/ Retry(n) \/ Dispatch(n) \/ Accepted(n) \/ AnswerLost(n)
                                  \/ Refused(n) \/ RateLimited(n) \/ StoreFails(n) \/ GrowOld(n)
       PROVE  Goal
  BY <1>7, <1>8, <1>9, <1>10, <1>11, <1>12, <1>13, <1>14, <1>15 DEF Dispatch
<1> QED
  BY <1>1, <1>2, <1>3, <1>4, <1>5, <1>6, <1>14, <1>16 DEF Next, Flush

-----------------------------------------------------------------------------
(* Safety                                                                  *)

\* The counts of what was told and what was lost.
LEMMA CountStep ==
  ASSUME OutboxInv, Next
  PROVE  EventsFirst' /\ LeaseIsOpen' /\ OnlyLostSoFar' /\ OnceUnlessLost'
<1> SUFFICES ASSUME NEW m \in Messages
             PROVE  /\ m \notin events' => box'[m].state = "none" /\ work'[m] = "idle" /\ sent'[m] = 0
                    /\ work'[m] \in {"send", "mark", "fail", "limited"} => box'[m].state # "delivered"
                    /\ box'[m].state # "delivered" /\ work'[m] # "mark" => sent'[m] <= excused'[m]
                    /\ sent'[m] <= 1 + excused'[m]
  BY DEF EventsFirst, LeaseIsOpen, OnlyLostSoFar, OnceUnlessLost
<1>0. /\ sent[m] \in Nat /\ excused[m] \in Nat
      /\ m \notin events => box[m].state = "none" /\ work[m] = "idle" /\ sent[m] = 0
      /\ work[m] \in {"send", "mark", "fail", "limited"} => ~Delivered(m)
      /\ ~Delivered(m) /\ work[m] # "mark" => sent[m] <= excused[m]
      /\ sent[m] <= 1 + excused[m]
  BY DEF OutboxInv, TypeOK, EventsFirst, LeaseIsOpen, OnlyLostSoFar, OnceUnlessLost, Delivered
<1>1. CASE Waiting(m)
  BY <1>0, <1>1, MessageStep DEF Waiting, Untouched, Delivered
<1>2. CASE Answered(m)
  BY <1>0, <1>2, MessageStep DEF Answered, Untouched, Delivered
<1>3. CASE MarkedOrLost(m)
  BY <1>0, <1>3, MessageStep DEF MarkedOrLost, Untouched, Delivered
<1> QED
  BY <1>1, <1>2, <1>3, MessageStep

\* The events a step adds: an alert, a reminder, or the digest of a flush.
LEMMA NewEvents ==
  ASSUME OutboxInv, Next
  PROVE  \/ events' = events /\ flushing' \in {flushing, {}}
         \/ events' = events /\ flushing = {} /\ flushing' = (events \cap Grouped) \ Covered
         \/ /\ flushing' = flushing /\ UNCHANGED <<sent, stale>>
            /\ \/ \E a \in Immediate : <<a>> \notin events /\ events' = events \cup {<<a>>}
               \/ \E g \in Grouped : g \notin events /\ events' = events \cup {g}
         \/ /\ flushing \in Digests /\ flushing' = {} /\ UNCHANGED <<sent, stale>>
            /\ events' = events \cup {Digest(flushing)}
<1>1. CASE FlushStore
  BY <1>1 DEF FlushStore, Digests, OutboxInv, TypeOK
<1>2. CASE FlushBegin
  BY <1>2 DEF FlushBegin
<1>3. CASE Crash \/ Tick \/ FlushFails
  BY <1>3 DEF Crash, Tick, FlushFails
<1>4. CASE (\E a \in Immediate : Emit(a)) \/ (\E g \in Grouped : EmitGrouped(g))
  BY <1>4 DEF Emit, EmitGrouped
<1>5. ASSUME NEW m \in Messages, \/ Retry(m) \/ Dispatch(m) \/ Accepted(m) \/ AnswerLost(m)
                                 \/ Refused(m) \/ RateLimited(m) \/ StoreFails(m) \/ GrowOld(m)
      PROVE  events' = events /\ flushing' = flushing
  BY <1>5 DEF Retry, Dispatch, Queue, Lease, Mark, Fail, Accepted, AnswerLost, Refused, RateLimited, Answer, StoreFails, GrowOld
<1> QED
  BY <1>1, <1>2, <1>3, <1>4, <1>5 DEF Next, Flush

\* A reminder is put in a digest only by the flush that read it while it was in
\* none, and there is one flush at a time.
LEMMA DigestStep ==
  ASSUME OutboxInv, Next
  PROVE  DigestOfEvents' /\ FlushingIsNew' /\ OneDigestEach'
<1> USE DEF DigestOfEvents, FlushingIsNew, OneDigestEach, Covered
<1>0. DigestOfEvents /\ FlushingIsNew /\ OneDigestEach /\ flushing \subseteq Grouped
  BY DEF OutboxInv, TypeOK
<1>1. CASE events' = events
  BY <1>0, <1>1, NewEvents
<1>2. CASE \E a \in Immediate : events' = events \cup {<<a>>} /\ flushing' = flushing
  BY <1>0, <1>2, Names
<1>3. CASE \E g \in Grouped : events' = events \cup {g} /\ flushing' = flushing
  BY <1>0, <1>3, Names
<1>4. CASE flushing \in Digests /\ flushing' = {} /\ events' = events \cup {Digest(flushing)}
  BY <1>0, <1>4, Names
<1> QED
  BY <1>1, <1>2, <1>3, <1>4, NewEvents

LEMMA OutboxStart == Init => OutboxInv
<1> SUFFICES ASSUME Init PROVE OutboxInv
  OBVIOUS
<1>1. TypeOK
  BY RecordTypes, FaultsAssumption, TimesAssumption DEF Init, TypeOK, Box, States
<1>2. EventsFirst /\ LeaseIsOpen /\ OnlyLostSoFar /\ OnceUnlessLost
  BY DEF Init, EventsFirst, LeaseIsOpen, OnlyLostSoFar, OnceUnlessLost, NoRecord
<1>3. DigestOfEvents /\ FlushingIsNew /\ OneDigestEach
  BY DEF Init, DigestOfEvents, FlushingIsNew, OneDigestEach, Covered
<1> QED
  BY <1>1, <1>2, <1>3 DEF OutboxInv

LEMMA OutboxStep == OutboxInv /\ [Next]_vars => OutboxInv'
<1>1. OutboxInv /\ UNCHANGED vars => OutboxInv'
  <2> SUFFICES ASSUME OutboxInv, UNCHANGED vars PROVE OutboxInv'
    OBVIOUS
  <2>1. TypeOK'
    BY TypeStep DEF OutboxInv
  <2> QED
    BY <2>1 DEF OutboxInv, vars, EventsFirst, DigestOfEvents, FlushingIsNew, LeaseIsOpen, OnlyLostSoFar,
                OnceUnlessLost, OneDigestEach, Covered
<1>2. OutboxInv /\ Next => OutboxInv'
  BY TypeStep, CountStep, DigestStep DEF OutboxInv
<1> QED
  BY <1>1, <1>2

\* Whatever is lost or stops: the types hold, a message is accepted again only
\* after an acceptance that could not be recorded, and a reminder is in one digest
\* (notifications.ts dispatch, alerts.ts flushDigest).
THEOREM OutboxSafe == Spec => []Safety
<1>1. OutboxInv => Safety
  BY DEF OutboxInv, Safety
<1> QED
  BY <1>1, OutboxStart, OutboxStep, PTL DEF Spec

-----------------------------------------------------------------------------
(* The outbox implements Delivery, step by step                            *)

Recorded == {a \in Immediate : <<a>> \in events} \cup (events \cap Grouped)

\* The alerts a message tells.
Alerts(m) == {a \in Immediate : m = <<a>>} \cup UNION {d \in Digests : m = Digest(d)}

\* The alerts told by the messages in a set.
ToldBy(M) == {a \in Immediate : <<a>> \in M} \cup UNION {d \in Digests : Digest(d) \in M}

LEMMA OneMore ==
  ASSUME NEW M, NEW m \in Messages
  PROVE  ToldBy(M \cup {m}) = ToldBy(M) \cup Alerts(m)
<1>1. \A a \in Immediate : <<a>> \in M \cup {m} <=> <<a>> \in M \/ m = <<a>>
  OBVIOUS
<1>2. \A d \in Digests : Digest(d) \in M \cup {m} <=> Digest(d) \in M \/ m = Digest(d)
  OBVIOUS
<1> QED
  BY <1>1, <1>2 DEF ToldBy, Alerts

\* A message that is an event is about recorded alerts.
LEMMA EventAlerts ==
  ASSUME DigestOfEvents, NEW m \in Messages, m \in events
  PROVE  Alerts(m) \subseteq Recorded /\ Recorded \subseteq Immediate \cup Grouped
BY DEF Alerts, Recorded, DigestOfEvents, Digests

\* What was told is told by the messages that were accepted, what was dropped by
\* the ones that grew old.
LEMMA ToldIs ==
  /\ Told = ToldBy({m \in Messages : sent[m] > 0})
  /\ Outdated = ToldBy(stale)
BY Names DEF Told, Outdated, ToldBy

\* An acceptance or an ageing of a message concerns its alerts.
LEMMA AcceptedOnce ==
  ASSUME OutboxInv, Next
  PROVE  \/ sent' = sent
         \/ /\ UNCHANGED <<events, stale>>
            /\ \E m \in Messages : m \in events /\ sent' = [sent EXCEPT ![m] = @ + 1]
<1>1. ASSUME NEW m \in Messages, Accepted(m) \/ AnswerLost(m) \/ Refused(m) \/ RateLimited(m)
      PROVE  \/ sent' = sent
             \/ UNCHANGED <<events, stale>> /\ m \in events /\ sent' = [sent EXCEPT ![m] = @ + 1]
  <2>1. m \in events
    BY <1>1 DEF Accepted, AnswerLost, Refused, RateLimited, Answer, OutboxInv, EventsFirst
  <2>2. CASE Accepted(m) \/ AnswerLost(m)
    BY <2>1, <2>2 DEF Accepted, AnswerLost, Answer
  <2>3. CASE Refused(m) \/ RateLimited(m)
    <3>1. sent' = [sent EXCEPT ![m] = sent[m] + 0]
      BY <2>3 DEF Refused, RateLimited, Answer
    <3>2. sent' = sent
      BY <3>1 DEF OutboxInv, TypeOK
    <3> QED
      BY <3>2
  <2> QED
    BY <1>1, <2>2, <2>3
<1>2. ASSUME NEW m \in Messages, Retry(m) \/ Dispatch(m) \/ StoreFails(m) \/ GrowOld(m)
      PROVE  sent' = sent
  BY <1>2 DEF Retry, Dispatch, Queue, Lease, Mark, Fail, StoreFails, GrowOld
<1>3. ASSUME (\E a \in Immediate : Emit(a)) \/ (\E g \in Grouped : EmitGrouped(g)) \/ Flush \/ FlushFails \/ Crash \/ Tick
      PROVE  sent' = sent
  BY <1>3 DEF Emit, EmitGrouped, Flush, FlushBegin, FlushStore, FlushFails, Crash, Tick
<1> QED
  BY <1>1, <1>2, <1>3 DEF Next

LEMMA AgedOnce ==
  ASSUME OutboxInv, Next
  PROVE  \/ stale' = stale
         \/ /\ UNCHANGED <<events, sent>>
            /\ \E m \in Messages : m \in events /\ stale' = stale \cup {m}
<1>1. ASSUME NEW m \in Messages, \/ Retry(m) \/ Dispatch(m) \/ Accepted(m) \/ AnswerLost(m)
                                 \/ Refused(m) \/ RateLimited(m) \/ StoreFails(m)
      PROVE  stale' = stale
  BY <1>1 DEF Retry, Dispatch, Queue, Lease, Mark, Fail, Accepted, AnswerLost, Refused, RateLimited, Answer, StoreFails
<1>2. ASSUME NEW m \in Messages, GrowOld(m)
      PROVE  UNCHANGED <<events, sent>> /\ m \in events /\ stale' = stale \cup {m}
  BY <1>2 DEF GrowOld
<1>3. ASSUME (\E a \in Immediate : Emit(a)) \/ (\E g \in Grouped : EmitGrouped(g)) \/ Flush \/ FlushFails \/ Crash \/ Tick
      PROVE  stale' = stale
  BY <1>3 DEF Emit, EmitGrouped, Flush, FlushBegin, FlushStore, FlushFails, Crash, Tick
<1> QED
  BY <1>1, <1>2, <1>3 DEF Next

\* The events that a step adds record at most one alert, which was not recorded.
LEMMA RecordedOnce ==
  ASSUME OutboxInv, Next
  PROVE  \/ Recorded' = Recorded
         \/ /\ UNCHANGED <<sent, stale>>
            /\ \E a \in Immediate \cup Grouped : a \notin Recorded /\ Recorded' = Recorded \cup {a}
<1> USE DEF Recorded
<1>1. CASE events' = events
  BY <1>1
<1>2. ASSUME NEW a \in Immediate, <<a>> \notin events, events' = events \cup {<<a>>}
      PROVE  a \notin Recorded /\ Recorded' = Recorded \cup {a}
  BY <1>2, Names
<1>3. ASSUME NEW g \in Grouped, g \notin events, events' = events \cup {g}
      PROVE  g \notin Recorded /\ Recorded' = Recorded \cup {g}
  BY <1>3, Names
<1>4. CASE flushing \in Digests /\ events' = events \cup {Digest(flushing)}
  BY <1>4, Names
<1> HIDE DEF Recorded
<1> QED
  BY <1>1, <1>2, <1>3, <1>4, NewEvents

LEMMA StepDelivers ==
  ASSUME OutboxInv, [Next]_vars
  PROVE  [Delivers!Next]_(Delivers!dvars)
<1> DEFINE R == {a \in Immediate : <<a>> \in events} \cup (events \cap Grouped)
           Tells(S) == S # {} /\ S \subseteq R \ Told /\ Told' = Told \cup S /\ UNCHANGED <<R, Outdated>>
           Drops(S) == S # {} /\ S \subseteq R \ Outdated /\ Outdated' = Outdated \cup S /\ UNCHANGED <<R, Told>>
           Records(a) == a \notin R /\ R' = R \cup {a} /\ UNCHANGED <<Told, Outdated>>
<1>0. R = Recorded /\ R' = Recorded'
  BY DEF Recorded
<1>1. SUFFICES \/ UNCHANGED <<R, Told, Outdated>>
               \/ \E a \in Immediate \cup Grouped : Records(a)
               \/ \E S \in SUBSET (Immediate \cup Grouped) : Tells(S) \/ Drops(S)
  BY DEF Delivers!Next, Delivers!dvars, Delivers!Record, Delivers!Tell, Delivers!Drop
<1> HIDE DEF R
<1>2. Told = ToldBy({m \in Messages : sent[m] > 0}) /\ Outdated = ToldBy(stale)
  BY ToldIs
<1>3. Told' = ToldBy({m \in Messages : sent'[m] > 0}) /\ Outdated' = ToldBy(stale')
  BY Names DEF Told, Outdated, ToldBy
<1>4. CASE UNCHANGED vars
  BY <1>0, <1>4 DEF vars, Recorded, Told, Outdated
<1>5. CASE Next /\ UNCHANGED <<sent, stale>>
  <2>1. Told' = Told /\ Outdated' = Outdated
    BY <1>2, <1>3, <1>5
  <2> QED
    BY <1>0, <1>5, <2>1, RecordedOnce
<1>6. ASSUME Next, UNCHANGED <<events, stale>>, NEW m \in Messages, m \in events, sent' = [sent EXCEPT ![m] = @ + 1]
      PROVE  UNCHANGED <<R, Told, Outdated>> \/ \E S \in SUBSET (Immediate \cup Grouped) : Tells(S)
  <2>1. {n \in Messages : sent'[n] > 0} = {n \in Messages : sent[n] > 0} \cup {m}
    BY <1>6 DEF OutboxInv, TypeOK
  <2>2. Told' = Told \cup Alerts(m) /\ Outdated' = Outdated
    BY <1>2, <1>3, <1>6, <2>1, OneMore
  <2>3. Alerts(m) \subseteq R /\ R \subseteq Immediate \cup Grouped /\ R' = R
    BY <1>0, <1>6, EventAlerts DEF OutboxInv, Recorded
  <2>4. CASE Alerts(m) \subseteq Told
    BY <2>2, <2>3, <2>4
  <2>5. CASE ~(Alerts(m) \subseteq Told)
    <3>1. Tells(Alerts(m) \ Told) /\ Alerts(m) \ Told \in SUBSET (Immediate \cup Grouped)
      BY <2>2, <2>3, <2>5
    <3> QED
      BY <3>1
  <2> QED
    BY <2>4, <2>5
<1>7. ASSUME Next, UNCHANGED <<events, sent>>, NEW m \in Messages, m \in events, stale' = stale \cup {m}
      PROVE  UNCHANGED <<R, Told, Outdated>> \/ \E S \in SUBSET (Immediate \cup Grouped) : Drops(S)
  <2>2. Outdated' = Outdated \cup Alerts(m) /\ Told' = Told
    BY <1>2, <1>3, <1>7, OneMore
  <2>3. Alerts(m) \subseteq R /\ R \subseteq Immediate \cup Grouped /\ R' = R
    BY <1>0, <1>7, EventAlerts DEF OutboxInv, Recorded
  <2>4. CASE Alerts(m) \subseteq Outdated
    BY <2>2, <2>3, <2>4
  <2>5. CASE ~(Alerts(m) \subseteq Outdated)
    <3>1. Drops(Alerts(m) \ Outdated) /\ Alerts(m) \ Outdated \in SUBSET (Immediate \cup Grouped)
      BY <2>2, <2>3, <2>5
    <3> QED
      BY <3>1
  <2> QED
    BY <2>4, <2>5
<1> HIDE DEF Tells, Drops, Records
<1> QED
  BY <1>4, <1>5, <1>6, <1>7, AcceptedOnce, AgedOnce

\* The safety of the refinement EveryAlertArrives: nothing is told or dropped that
\* was not recorded, and nothing that was recorded or told is taken back
\* (notifications.ts, alerts.ts).  That every alert arrives rests on fairness and
\* is left to the run.
THEOREM OutboxDelivers == Spec => Delivers!Init /\ [][Delivers!Next]_(Delivers!dvars)
<1>1. Init => Delivers!Init
  BY Names DEF Init, Delivers!Init, Told, Outdated
<1> QED
  BY <1>1, OutboxStart, OutboxStep, StepDelivers, PTL DEF Spec

-----------------------------------------------------------------------------
(* The commands: the invariant of CommandAccess                            *)

Session == [expired : BOOLEAN, killed : BOOLEAN, restarted : BOOLEAN, open : BOOLEAN]

\* Different updates, by what tells them apart.
IdsApart(s) == \A i, j \in DOMAIN s : s[i].id = s[j].id => i = j

\* The updates that wait are different ones, each taken before.
QueueOnce == IdsApart(queue) /\ \A m \in ToSet(queue) : m.id \in 1 .. offset - 1

\* A tap that waits its turn or acts is in the queue until it is finished, and it is one of a flow's last taps.
TapsAreQueued ==
  /\ ToSet(chain) \subseteq ToSet(queue)
  /\ IsInjective(chain)
  /\ acting # NoUpdate => acting \in ToSet(queue) \ ToSet(chain) /\ acting.kind = "go"
  /\ \A m \in ToSet(chain) : m.kind = "go"

\* A tap that waits its turn was let through once.
TapsAreHandled == \A m \in ToSet(chain) : m.id \in handled

\* What was handled was taken; what waits for a worker was not handled, except a tap that has been let through.
HandledBefore ==
  /\ handled \subseteq 1 .. offset - 1
  /\ \A m \in ToSet(queue) : m \notin ToSet(chain) \cup {acting} => m.id \notin handled

\* The stop update in the loop is the last one taken, and nothing else handles it.
StopIsNew ==
  stopping.pc = "begin" =>
    /\ stopping.update.id = offset - 1 /\ offset > 1
    /\ stopping.update.id \notin handled
    /\ \A m \in ToSet(queue) : m.id # stopping.update.id

\* Each button was asked for by an update of its own.
ButtonsAsked == killButtons <= offset - 1 - (IF stopping.pc = "begin" THEN 1 ELSE 0)

\* The button of a flow names the command that began it, and that command was handled.
FlowsBegan ==
  /\ openFlow \in {0} \cup handled
  /\ \A m \in ToSet(queue) : m.kind = "go" => m.arg \in handled

\* The flow of a tap that waited when the owner killed is not the open one, and never becomes it.
DoomedAreClosed ==
  /\ doomed \subseteq handled
  /\ \A m \in ToSet(chain) : m.id \in doomed => m.arg # openFlow

\* A live session is one whose code came after every kill, lock, expiry and restart.
LiveIsFresh == SessionLive => fresh

AccessInv ==
  AccessSafety /\ QueueOnce /\ TapsAreQueued /\ TapsAreHandled /\ HandledBefore
    /\ StopIsNew /\ ButtonsAsked /\ FlowsBegan /\ DoomedAreClosed /\ LiveIsFresh /\ newest = used

-----------------------------------------------------------------------------
(* The queue and the taps that wait their turn                             *)

\* Where the elements of a sequence stand once one is taken out.
LEMMA TakenOut ==
  ASSUME NEW S, NEW s \in Seq(S), NEW i \in DOMAIN s
  PROVE  /\ RemoveAt(s, i) \in Seq(S)
         /\ Len(RemoveAt(s, i)) = Len(s) - 1
         /\ \A k \in 1 .. Len(s) - 1 : RemoveAt(s, i)[k] = IF k < i THEN s[k] ELSE s[k + 1]
<1> DEFINE a == SubSeq(s, 1, i - 1)
           b == SubSeq(s, i + 1, Len(s))
<1>1. i \in 1 .. Len(s) /\ Len(s) \in Nat
  OBVIOUS
<1>2. a \in Seq(S) /\ Len(a) = i - 1 /\ \A k \in 1 .. i - 1 : a[k] = s[k]
  BY <1>1
<1>3. b \in Seq(S) /\ Len(b) = Len(s) - i /\ \A k \in 1 .. Len(s) - i : b[k] = s[i + k]
  BY <1>1
<1>4. RemoveAt(s, i) = a \o b
  BY DEF RemoveAt
<1> HIDE DEF a, b
<1>5. a \o b \in Seq(S) /\ Len(a \o b) = Len(s) - 1
  BY <1>1, <1>2, <1>3
<1>6. ASSUME NEW k \in 1 .. Len(s) - 1
      PROVE  (a \o b)[k] = IF k < i THEN s[k] ELSE s[k + 1]
  <2>1. CASE k < i
    BY <2>1, <1>1, <1>2, <1>3
  <2>2. CASE ~(k < i)
    <3>1. (a \o b)[k] = b[k - (i - 1)]
      BY <2>2, <1>1, <1>2, <1>3, SMTT(30)
    <3>2. k - (i - 1) \in 1 .. Len(s) - i /\ i + (k - (i - 1)) = k + 1
      BY <2>2, <1>1
    <3> QED
      BY <2>2, <3>1, <3>2, <1>3
  <2> QED
    BY <2>1, <2>2
<1> QED
  BY <1>4, <1>5, <1>6

\* An update that is finished leaves the queue, and it alone.
LEMMA LeaveOne ==
  ASSUME NEW S, NEW s \in Seq(S), IdsApart(s), NEW i \in DOMAIN s
  PROVE  /\ ToSet(RemoveAt(s, i)) = ToSet(s) \ {s[i]}
         /\ IdsApart(RemoveAt(s, i))
<1> DEFINE t == RemoveAt(s, i)
           n == Len(s)
           f(k) == IF k < i THEN k ELSE k + 1
<1>1. i \in 1 .. n /\ n \in Nat /\ DOMAIN s = 1 .. n
  OBVIOUS
<1>2. DOMAIN t = 1 .. n - 1 /\ \A k \in 1 .. n - 1 : f(k) \in 1 .. n /\ f(k) # i /\ t[k] = s[f(k)]
  <2>1. t \in Seq(S) /\ Len(t) = n - 1 /\ \A k \in 1 .. n - 1 : t[k] = IF k < i THEN s[k] ELSE s[k + 1]
    BY TakenOut
  <2> HIDE DEF t
  <2> QED
    BY <2>1, <1>1
<1>3. \A j \in 1 .. n : j # i => \E k \in 1 .. n - 1 : f(k) = j
  <2> SUFFICES ASSUME NEW j \in 1 .. n, j # i
               PROVE  \E k \in 1 .. n - 1 : f(k) = j
    OBVIOUS
  <2>1. CASE j < i
    <3>1. j \in 1 .. n - 1 /\ f(j) = j
      BY <2>1, <1>1
    <3> QED
      BY <3>1
  <2>2. CASE ~(j < i)
    <3>1. j - 1 \in 1 .. n - 1 /\ f(j - 1) = j
      BY <2>2, <1>1
    <3> QED
      BY <3>1
  <2> QED
    BY <2>1, <2>2
<1>4. \A k, l \in 1 .. n - 1 : f(k) = f(l) => k = l
  BY <1>1
<1> HIDE DEF t, f, n
<1>5. ToSet(t) = {s[j] : j \in (1 .. n) \ {i}}
  BY <1>2, <1>3 DEF ToSet
<1>6. \A j \in 1 .. n : s[j] = s[i] => j = i
  BY <1>1 DEF IdsApart
<1>7. ToSet(t) = ToSet(s) \ {s[i]}
  BY <1>1, <1>5, <1>6 DEF ToSet
<1>8. IdsApart(t)
  BY <1>1, <1>2, <1>4 DEF IdsApart
<1> QED
  BY <1>7, <1>8 DEF t

\* A sequence with one more element at its end.
LEMMA AppendOne ==
  ASSUME NEW S, NEW s \in Seq(S), NEW e \in S
  PROVE  /\ Append(s, e) \in Seq(S) /\ Len(Append(s, e)) = Len(s) + 1
         /\ ToSet(Append(s, e)) = ToSet(s) \cup {e}
         /\ IdsApart(s) /\ (\A x \in ToSet(s) : x.id # e.id) => IdsApart(Append(s, e))
         /\ IsInjective(s) /\ e \notin ToSet(s) => IsInjective(Append(s, e))
<1> DEFINE t == Append(s, e)
           n == Len(s)
<1>1. n \in Nat /\ DOMAIN s = 1 .. n
  OBVIOUS
<1>2. t \in Seq(S) /\ Len(t) = n + 1 /\ DOMAIN t = 1 .. n + 1 /\ t[n + 1] = e /\ \A i \in 1 .. n : t[i] = s[i]
  BY <1>1
<1> HIDE DEF t, n
<1>3. ToSet(t) = ToSet(s) \cup {e}
  <2>1. \A i \in 1 .. n + 1 : i \in 1 .. n \/ i = n + 1
    BY <1>1
  <2>2. n + 1 \in 1 .. n + 1 /\ \A i \in 1 .. n : i \in 1 .. n + 1
    BY <1>1
  <2> QED
    BY <1>1, <1>2, <2>1, <2>2 DEF ToSet
<1>4. \A i \in 1 .. n + 1 : i \in 1 .. n \/ i = n + 1
  BY <1>1
<1>5. \A i \in 1 .. n : s[i] \in ToSet(s)
  BY <1>1 DEF ToSet
<1>6. IdsApart(s) /\ (\A x \in ToSet(s) : x.id # e.id) => IdsApart(t)
  BY <1>1, <1>2, <1>4, <1>5 DEF IdsApart
<1>7. IsInjective(s) /\ e \notin ToSet(s) => IsInjective(t)
  BY <1>1, <1>2, <1>4, <1>5 DEF IsInjective
<1> QED
  BY <1>2, <1>3, <1>6, <1>7 DEF t, n

\* And one without its first.
LEMMA TailOne ==
  ASSUME NEW S, NEW s \in Seq(S), s # <<>>, IsInjective(s)
  PROVE  /\ Head(s) \in ToSet(s)
         /\ Tail(s) \in Seq(S) /\ Len(Tail(s)) = Len(s) - 1
         /\ ToSet(Tail(s)) = ToSet(s) \ {Head(s)}
         /\ IsInjective(Tail(s))
<1> DEFINE t == Tail(s)
           n == Len(s)
<1>1. n \in Nat \ {0} /\ DOMAIN s = 1 .. n /\ Head(s) = s[1]
  OBVIOUS
<1>2. t \in Seq(S) /\ Len(t) = n - 1 /\ DOMAIN t = 1 .. n - 1 /\ \A i \in 1 .. n - 1 : t[i] = s[i + 1]
  BY <1>1
<1> HIDE DEF t, n
<1>3. 1 \in 1 .. n /\ \A i \in 1 .. n - 1 : i + 1 \in 1 .. n /\ i + 1 # 1
  BY <1>1
<1>4. \A i \in 1 .. n : i # 1 => i - 1 \in 1 .. n - 1 /\ (i - 1) + 1 = i
  BY <1>1
<1>5. ToSet(t) = ToSet(s) \ {s[1]}
  <2>1. \A x \in ToSet(t) : x \in ToSet(s) /\ x # s[1]
    BY <1>1, <1>2, <1>3 DEF ToSet, IsInjective
  <2>2. ASSUME NEW x \in ToSet(s), x # s[1] PROVE x \in ToSet(t)
    <3>1. PICK i \in 1 .. n : x = s[i]
      BY <1>1 DEF ToSet
    <3>2. i - 1 \in 1 .. n - 1 /\ t[i - 1] = x
      BY <2>2, <3>1, <1>2, <1>4
    <3> QED
      BY <3>2, <1>2 DEF ToSet
  <2> QED
    BY <2>1, <2>2
<1>6. \A i, j \in 1 .. n - 1 : i + 1 = j + 1 => i = j
  BY <1>1
<1>7. IsInjective(t)
  BY <1>1, <1>2, <1>3, <1>6, SMTT(30) DEF IsInjective
<1>8. s[1] \in ToSet(s)
  BY <1>1, <1>3 DEF ToSet
<1> QED
  BY <1>1, <1>2, <1>5, <1>7, <1>8 DEF t, n

\* What the queue and the chain hold, for every reader of them.
LEMMA QueueFacts ==
  ASSUME AccessTypeOK, IdsApart(queue)
  PROVE  /\ ToSet(queue) \subseteq Update /\ ToSet(chain) \subseteq Update
         /\ \A x, y \in ToSet(queue) : x.id = y.id => x = y
         /\ Working \subseteq ToSet(queue)
<1>1. queue \in Seq(Update) /\ chain \in Seq(Update)
  BY DEF AccessTypeOK
<1>2. ToSet(queue) \subseteq Update /\ ToSet(chain) \subseteq Update
  BY <1>1 DEF ToSet
<1>3. \A x, y \in ToSet(queue) : x.id = y.id => x = y
  BY DEF ToSet, IdsApart
<1> DEFINE k == IF Len(queue) < Workers THEN Len(queue) ELSE Workers
           t == SubSeq(queue, 1, k)
<1>4. k \in Nat /\ k <= Len(queue)
  BY <1>1, AccessAssumption
<1>5. DOMAIN t = 1 .. k /\ \A i \in 1 .. k : t[i] = queue[i] /\ i \in DOMAIN queue
  <2> HIDE DEF k
  <2> QED
    BY <1>1, <1>4
<1> HIDE DEF t, k
<1>6. ToSet(t) \subseteq ToSet(queue)
  BY <1>5 DEF ToSet
<1> QED
  BY <1>2, <1>3, <1>6 DEF Working, t, k

\* An update that leaves the queue.
LEMMA LeaveFacts ==
  ASSUME AccessTypeOK, IdsApart(queue), NEW m, Leave(m)
  PROVE  queue' \in Seq(Update) /\ ToSet(queue') = ToSet(queue) \ {m} /\ IdsApart(queue')
<1>1. queue \in Seq(Update)
  BY DEF AccessTypeOK
<1>2. PICK i \in DOMAIN queue : queue[i] = m /\ queue' = RemoveAt(queue, i)
  BY DEF Leave
<1>3. RemoveAt(queue, i) \in Seq(Update)
  BY <1>1, <1>2, TakenOut
<1>4. ToSet(RemoveAt(queue, i)) = ToSet(queue) \ {queue[i]} /\ IdsApart(RemoveAt(queue, i))
  BY <1>1, <1>2, LeaveOne
<1> QED
  BY <1>2, <1>3, <1>4

\* The values that stand for nothing.
LEMMA NothingTypes ==
  /\ NoUpdate \in Update /\ NoSession \in Session /\ NewSession \in Session
  /\ NotStopping \in StopState
  /\ <<>> \in Seq(Update) /\ ToSet(<<>>) = {} /\ IdsApart(<<>>) /\ IsInjective(<<>>)
<1>1. NoUpdate \in Update
  BY AccessAssumption DEF NoUpdate, Update
<1>2. NoSession \in Session /\ NewSession \in Session
  BY DEF NoSession, NewSession, Session
<1>3. NotStopping \in StopState
  BY <1>1 DEF NotStopping, StopState
<1>4. <<>> \in Seq(Update) /\ ToSet(<<>>) = {} /\ IdsApart(<<>>) /\ IsInjective(<<>>)
  BY DEF ToSet, IdsApart, IsInjective
<1> QED
  BY <1>1, <1>2, <1>3, <1>4

\* What currentSession leaves is a session, and live only if it was.
LEMMA CheckedFacts ==
  ASSUME AccessTypeOK, session' = Checked
  PROVE  session' \in Session /\ (SessionLive' => SessionLive)
BY DEF Checked, NoSession, SessionLive, AccessTypeOK, Session

\* What the owner may send next.
LEMMA MessageFacts ==
  ASSUME AccessTypeOK, offset \in Ids, NEW m \in Message(offset)
  PROVE  m \in Update /\ m.id = offset /\ (m.kind = "go" => m.arg = openFlow /\ openFlow # 0)
<1>1. offset \in 0 .. MaxUpdates /\ openFlow \in -1 .. MaxUpdates + MaxStep /\ 0 \in -1 .. MaxUpdates + MaxStep
  BY AccessAssumption, SMTT(30) DEF AccessTypeOK, Ids
<1>2. ({Wrong} \cup ((step - 1 .. step + 1) \cap Nat)) \subseteq -1 .. MaxUpdates + MaxStep
  BY AccessAssumption, SMTT(30) DEF AccessTypeOK, Wrong
<1>3. CASE m \in {[id |-> offset, kind |-> k, arg |-> 0] : k \in {"lock", "kill", "tap", "revoke", "start"}}
  BY <1>1, <1>3 DEF Update
<1>4. CASE m \in {[id |-> offset, kind |-> "go", arg |-> openFlow] : f \in {openFlow} \ {0}}
  BY <1>1, <1>4 DEF Update
<1>5. CASE m \in {[id |-> offset, kind |-> "unlock",
   arg |-> c] : c \in {Wrong} \cup ((step - 1 .. step + 1) \cap Nat)}
  <2>1. PICK c \in {Wrong} \cup ((step - 1 .. step + 1) \cap Nat) : m = [id |-> offset, kind |-> "unlock",
     arg |-> c]
    BY <1>5
  <2>2. c \in -1 .. MaxUpdates + MaxStep
    BY <1>2
  <2> QED
    BY <1>1, <2>1, <2>2 DEF Update
<1> QED
  BY <1>3, <1>4, <1>5 DEF Message

\* Who stands with a worker.
LEMMA WorkingFacts ==
  ASSUME AccessInv, NEW m \in Working
  PROVE  m \in ToSet(queue) /\ m \in Update
BY QueueFacts DEF AccessInv, AccessSafety, QueueOnce

LEMMA FaultFacts == AccessTypeOK /\ Fault => accessFaults' \in 0 .. AccessFaults
BY AccessAssumption DEF AccessTypeOK, Fault

\* The ways a session ends without the owner's doing leave a session that is not live.
LEMMA EndedFacts ==
  ASSUME AccessTypeOK
  PROVE  /\ [session EXCEPT !.expired = TRUE] \in Session
         /\ \A b \in BOOLEAN : [session EXCEPT !.killed = b] \in Session
         /\ [session EXCEPT !.restarted = TRUE] \in Session
BY DEF AccessTypeOK, Session

\* A handler in the loop takes up an update nobody has handled.
LEMMA StopTakesUp ==
  ASSUME AccessInv, stopping.pc = "begin", TakeUp(stopping.update)
  PROVE  /\ handled' \subseteq Ids /\ twice' = {}
         /\ handled \subseteq handled' /\ handled' \subseteq 1 .. offset - 1
         /\ \A m \in ToSet(queue) : m.id \in handled' => m.id \in handled
<1>1. offset \in 1 .. MaxUpdates + 1 /\ MaxUpdates \in Nat /\ handled \subseteq Ids /\ twice = {}
  BY AccessAssumption DEF AccessInv, AccessSafety, AccessTypeOK, NeverTwice
<1> DEFINE i == stopping.update.id
<1>2. i = offset - 1 /\ offset > 1 /\ i \notin handled /\ \A m \in ToSet(queue) : m.id # i
  BY DEF AccessInv, StopIsNew
<1>3. handled' = handled \cup {i} /\ twice' = twice \cup ({i} \cap handled)
  BY DEF TakeUp
<1>4. handled \subseteq 1 .. offset - 1
  BY DEF AccessInv, HandledBefore
<1> HIDE DEF i
<1> QED
  BY <1>1, <1>2, <1>3, <1>4 DEF Ids

\* A worker takes up an update nobody has handled.
LEMMA WorkerTakesUp ==
  ASSUME AccessInv, NEW m \in ToSet(queue), m \notin ToSet(chain) \cup {acting}, TakeUp(m)
  PROVE  /\ handled' \subseteq Ids /\ twice' = {}
         /\ handled' = handled \cup {m.id} /\ handled' \subseteq 1 .. offset - 1
         /\ m.id \notin handled /\ m.id \in 1 .. offset - 1
         /\ \A x \in ToSet(queue) : x.id = m.id => x = m
<1>0. AccessTypeOK /\ IdsApart(queue) /\ twice = {}
  BY DEF AccessInv, AccessSafety, QueueOnce, NeverTwice
<1>1. offset \in 1 .. MaxUpdates + 1 /\ MaxUpdates \in Nat
  BY <1>0, AccessAssumption DEF AccessTypeOK
<1>2. m.id \in 1 .. offset - 1 /\ handled \subseteq 1 .. offset - 1 /\ m.id \notin handled
  BY DEF AccessInv, QueueOnce, HandledBefore
<1>3. handled' = handled \cup {m.id} /\ twice' = twice \cup ({m.id} \cap handled)
  BY DEF TakeUp
<1>4. \A x \in ToSet(queue) : x.id = m.id => x = m
  BY <1>0, QueueFacts
<1>5. handled' \subseteq 1 .. offset - 1 /\ twice' = {}
  BY <1>0, <1>2, <1>3
<1>6. handled' \subseteq Ids
  BY <1>1, <1>5 DEF Ids
<1> QED
  BY <1>2, <1>3, <1>4, <1>5, <1>6

\* What a worker that finishes an update leaves of the queue and the record of what was handled.
LEMMA WorkerLeaves ==
  ASSUME AccessInv, NEW m \in ToSet(queue), m \notin ToSet(chain) \cup {acting}, TakeUp(m), Leave(m),
         UNCHANGED <<offset, chain, acting, stopping>>
  PROVE  /\ queue' \in Seq(Update) /\ ToSet(queue') = ToSet(queue) \ {m}
         /\ QueueOnce' /\ TapsAreQueued' /\ HandledBefore' /\ StopIsNew'
<1>0. AccessTypeOK /\ IdsApart(queue)
  BY DEF AccessInv, AccessSafety, QueueOnce
<1>1. queue' \in Seq(Update) /\ ToSet(queue') = ToSet(queue) \ {m} /\ IdsApart(queue')
  BY <1>0, LeaveFacts
<1>2. /\ handled' = handled \cup {m.id} /\ handled' \subseteq 1 .. offset - 1
      /\ \A x \in ToSet(queue) : x.id = m.id => x = m
  BY WorkerTakesUp
<1>3. QueueOnce'
  BY <1>1 DEF AccessInv, QueueOnce
<1>4. TapsAreQueued'
  BY <1>1 DEF AccessInv, TapsAreQueued
<1>5. HandledBefore'
  BY <1>1, <1>2 DEF AccessInv, HandledBefore
<1>6. StopIsNew'
  BY <1>1, <1>2 DEF AccessInv, StopIsNew
<1> QED
  BY <1>1, <1>3, <1>4, <1>5, <1>6

\* A tap that waits its turn names a flow that was begun.
LEMMA TapFacts ==
  ASSUME AccessInv, NEW m \in ToSet(chain)
  PROVE  m \in ToSet(queue) /\ m.kind = "go" /\ m.id \in handled /\ m.arg \in handled /\ m.arg # 0
<1>1. m \in ToSet(queue) /\ m.kind = "go"
  BY DEF AccessInv, TapsAreQueued
<1>2. m.arg \in handled /\ handled \subseteq 1 .. offset - 1
  BY <1>1 DEF AccessInv, FlowsBegan, HandledBefore
<1> QED
  BY <1>1, <1>2 DEF AccessInv, TapsAreHandled

-----------------------------------------------------------------------------
(* Every step of the chat keeps the invariant                              *)

LEMMA PollKeeps == AccessInv /\ Poll => AccessInv'
<1> SUFFICES ASSUME AccessInv, Poll PROVE AccessInv'
  OBVIOUS
<1>0. AccessTypeOK /\ IdsApart(queue) /\ queue \in Seq(Update)
  BY DEF AccessInv, AccessSafety, AccessTypeOK, QueueOnce
<1>1. /\ ToSet(queue) \subseteq Update /\ ToSet(chain) \subseteq Update
      /\ \A x, y \in ToSet(queue) : x.id = y.id => x = y
  BY <1>0, QueueFacts
<1>2. session' \in Session /\ (SessionLive' => SessionLive)
  BY <1>0, CheckedFacts DEF Poll
<1>3. CASE UNCHANGED <<offset, stopping, queue>>
  <2>1. AccessTypeOK'
    BY <1>0, <1>2, <1>3 DEF Poll, AccessTypeOK, Session, accessObservers
  <2> QED
    BY <1>2, <1>3, <2>1 DEF Poll, AccessInv, AccessSafety, NeverTwice, CodesOnlyOnce, KillEndsWaitingTaps,
       QueueOnce,
       TapsAreQueued, TapsAreHandled, HandledBefore, StopIsNew, ButtonsAsked, FlowsBegan, DoomedAreClosed,
          LiveIsFresh, accessObservers
<1>4. ASSUME NEW m \in Message(offset), offset \in Ids, TakeUpdate(m)
      PROVE  AccessInv'
  <2>1. m \in Update /\ m.id = offset /\ (m.kind = "go" => m.arg = openFlow /\ openFlow # 0)
    BY <1>0, <1>4, MessageFacts
  <2>2. offset \in 1 .. MaxUpdates /\ offset' = offset + 1 /\ MaxUpdates \in Nat
    BY <1>4, <2>1, AccessAssumption DEF TakeUpdate, Taken, Ids
  <2>3. /\ stopping' = IF AtOnce(m) THEN [update |-> m, pc |-> "begin", ahead |-> {}] ELSE stopping
        /\ queue' = IF AtOnce(m) THEN queue ELSE Append(queue, m)
    BY <1>4, <2>1, <2>2 DEF TakeUpdate
  <2>4. stopping.pc = "idle"
    BY DEF Poll, NotStopping
  <2>5. \A x \in ToSet(queue) : x.id # m.id /\ x.id \in 1 .. offset - 1
    BY <1>1, <2>1, <2>2 DEF AccessInv, QueueOnce
  <2>6. /\ Append(queue, m) \in Seq(Update) /\ ToSet(Append(queue, m)) = ToSet(queue) \cup {m}
        /\ IdsApart(Append(queue, m))
    BY <1>0, <2>1, <2>5, AppendOne
  <2>7. /\ queue' \in Seq(Update) /\ IdsApart(queue')
        /\ ToSet(queue') = ToSet(queue) \cup (IF AtOnce(m) THEN {} ELSE {m})
    BY <1>0, <2>3, <2>6
  <2>8. m.id \notin handled /\ handled \subseteq 1 .. offset' - 1
    BY <2>1, <2>2 DEF AccessInv, HandledBefore
  <2>9. AccessTypeOK'
    <3>1. stopping' \in StopState
      BY <1>0, <2>1, <2>3 DEF AccessTypeOK, StopState
    <3> QED
      BY <1>0, <1>2, <2>1, <2>2, <3>1, <2>7 DEF Poll, AccessTypeOK, Session, accessObservers
  <2>10. QueueOnce'
    BY <2>1, <2>2, <2>5, <2>7 DEF QueueOnce
  <2>11. TapsAreQueued'
    <3>1. m \notin ToSet(queue)
      BY <2>5
    <3>2. m \notin ToSet(chain)
      BY <3>1 DEF AccessInv, TapsAreQueued
    <3> QED
      BY <2>7, <3>1, <3>2 DEF Poll, AccessInv, TapsAreQueued, accessObservers
  <2>12. HandledBefore'
    BY <2>7, <2>8 DEF Poll, AccessInv, HandledBefore, accessObservers
  <2>13. StopIsNew'
    BY <2>1, <2>2, <2>3, <2>4, <2>5, <2>7, <2>8 DEF Poll, StopIsNew, accessObservers
  <2>14. ButtonsAsked'
    BY <1>0, <2>2, <2>3, <2>4 DEF Poll, AccessInv, ButtonsAsked, AccessTypeOK
  <2>15. FlowsBegan'
    BY <2>1, <2>7 DEF Poll, AccessInv, FlowsBegan, accessObservers
  <2> QED
    BY <1>2, <2>9, <2>10, <2>11, <2>12, <2>13, <2>14, <2>15 DEF Poll, AccessInv, AccessSafety, NeverTwice,
       CodesOnlyOnce, KillEndsWaitingTaps, TapsAreHandled, DoomedAreClosed, LiveIsFresh, accessObservers
<1>5. CASE offset > 1 /\ TakeUpdate([id |-> offset - 1, kind |-> "lock", arg |-> 0])
  BY <1>0, <1>3, <1>5 DEF TakeUpdate, AccessTypeOK
<1> QED
  BY <1>4, <1>5 DEF Poll

LEMMA LockKeeps == AccessInv /\ Lock => AccessInv'
<1> SUFFICES ASSUME AccessInv, Lock PROVE AccessInv'
  OBVIOUS
<1>0. AccessTypeOK /\ IdsApart(queue) /\ ToSet(queue) \subseteq Update /\ ToSet(chain) \subseteq Update
  BY QueueFacts DEF AccessInv, AccessSafety, QueueOnce
<1>1. /\ handled' \subseteq Ids /\ twice' = {} /\ handled \subseteq handled'
    /\ handled' \subseteq 1 .. offset - 1
      /\ \A m \in ToSet(queue) : m.id \in handled' => m.id \in handled
  BY StopTakesUp DEF Lock
<1>9. AccessTypeOK'
  BY <1>0, AccessAssumption, NothingTypes, <1>1 DEF Lock, AccessTypeOK, Session, memory, stored, accessObservers
<1>3. HandledBefore'
  BY <1>1 DEF Lock, AccessInv, HandledBefore, stored
<1>4. FlowsBegan'
  BY <1>1 DEF Lock, AccessInv, FlowsBegan, stored
<1>5. DoomedAreClosed' /\ StopIsNew'
  BY <1>1 DEF Lock, AccessInv, DoomedAreClosed, StopIsNew, NotStopping, stored
<1> QED
  BY <1>0, <1>9, NothingTypes, <1>1, <1>3, <1>4, <1>5 DEF Lock, AccessTypeOK, SessionLive, stored, memory,
     accessObservers, NoSession, NotStopping,
     AccessInv, AccessSafety, NeverTwice, CodesOnlyOnce, KillEndsWaitingTaps, QueueOnce,
     TapsAreQueued, TapsAreHandled, HandledBefore, StopIsNew, ButtonsAsked, FlowsBegan, DoomedAreClosed,
        LiveIsFresh

LEMMA AskKillKeeps == AccessInv /\ AskKill => AccessInv'
<1> SUFFICES ASSUME AccessInv, AskKill PROVE AccessInv'
  OBVIOUS
<1>0. AccessTypeOK /\ IdsApart(queue) /\ ToSet(queue) \subseteq Update /\ ToSet(chain) \subseteq Update
  BY QueueFacts DEF AccessInv, AccessSafety, QueueOnce
<1>1. /\ handled' \subseteq Ids /\ twice' = {} /\ handled \subseteq handled'
    /\ handled' \subseteq 1 .. offset - 1
      /\ \A m \in ToSet(queue) : m.id \in handled' => m.id \in handled
  BY StopTakesUp DEF AskKill
<1>2. killButtons + 1 \in 0 .. MaxUpdates /\ killButtons + 1 <= offset - 1 /\ offset \in Nat
  <2>1. killButtons \in 0 .. MaxUpdates /\ offset \in 1 .. MaxUpdates + 1 /\ MaxUpdates \in Nat
    BY <1>0, AccessAssumption DEF AccessTypeOK
  <2>2. killButtons <= offset - 1 - 1
    BY DEF AskKill, AccessInv, ButtonsAsked
  <2> QED
    BY <2>1, <2>2
<1>9. AccessTypeOK'
  BY <1>0, AccessAssumption, NothingTypes, <1>1, <1>2 DEF AskKill, AccessTypeOK, Session, memory, stored,
     accessObservers
<1>3. HandledBefore'
  BY <1>1 DEF AskKill, AccessInv, HandledBefore, stored
<1>4. FlowsBegan'
  BY <1>1 DEF AskKill, AccessInv, FlowsBegan, stored
<1>5. DoomedAreClosed' /\ StopIsNew'
  BY <1>1 DEF AskKill, AccessInv, DoomedAreClosed, StopIsNew, NotStopping, stored
<1> QED
  BY <1>0, <1>9, NothingTypes, <1>1, <1>2, <1>3, <1>4, <1>5 DEF AskKill, AccessTypeOK, SessionLive, stored,
     memory, accessObservers, NotStopping,
     AccessInv, AccessSafety, NeverTwice, CodesOnlyOnce, KillEndsWaitingTaps, QueueOnce,
     TapsAreQueued, TapsAreHandled, HandledBefore, StopIsNew, ButtonsAsked, FlowsBegan, DoomedAreClosed,
        LiveIsFresh

LEMMA ConfirmKillKeeps == AccessInv /\ ConfirmKill => AccessInv'
<1> SUFFICES ASSUME AccessInv, ConfirmKill PROVE AccessInv'
  OBVIOUS
<1>0. AccessTypeOK /\ IdsApart(queue) /\ ToSet(queue) \subseteq Update /\ ToSet(chain) \subseteq ToSet(queue)
  BY QueueFacts DEF AccessInv, AccessSafety, QueueOnce, TapsAreQueued
<1>1. /\ handled' \subseteq Ids /\ twice' = {} /\ handled \subseteq handled'
    /\ handled' \subseteq 1 .. offset - 1
      /\ \A m \in ToSet(queue) : m.id \in handled' => m.id \in handled
  BY StopTakesUp DEF ConfirmKill
<1>2. stopping.pc = "begin" /\ stopping'.pc # "begin"
      /\ stopping' \in StopState
  <2>1. stopping \in StopState
    BY <1>0 DEF AccessTypeOK
  <2>2. [stopping EXCEPT !.pc = "engage"] \in StopState /\ [stopping EXCEPT !.pc = "engage"].pc = "engage"
    BY <2>1 DEF StopState
  <2>3. NotStopping.pc = "idle"
    BY DEF NotStopping
  <2> QED
    BY <2>2, <2>3, NothingTypes DEF ConfirmKill
<1>3. killButtons' \in 0 .. MaxUpdates /\ killButtons' <= killButtons /\ killButtons \in Nat
  <2>1. killButtons \in 0 .. MaxUpdates /\ MaxUpdates \in Nat
    BY <1>0, AccessAssumption DEF AccessTypeOK
  <2>2. killButtons' = killButtons \/ (killButtons # 0 /\ killButtons' = killButtons - 1)
    BY DEF ConfirmKill
  <2> QED BY <2>1, <2>2
<1>4. openFlow' \in {0, openFlow} /\ (openFlow' # openFlow \/ doomed' # doomed => openFlow' = 0)
  BY DEF ConfirmKill, EndFlow
<1>5. doomed' \subseteq doomed \cup {m.id : m \in ToSet(chain)}
  BY DEF ConfirmKill
<1>6. UNCHANGED <<stored, step, alive, queue, chain, acting, fresh, newest, replayed, tookEffect, accessFaults>>
  BY DEF ConfirmKill
<1>7. \A m \in ToSet(chain) : m.id \in handled /\ m.arg \in handled /\ m.arg # 0
  BY TapFacts
<1>8. AccessTypeOK'
  <2>1. doomed' \subseteq Ids
    BY <1>0, <1>5, <1>7 DEF AccessTypeOK
  <2>2. openFlow' \in 0 .. MaxUpdates
    BY <1>0, <1>4, AccessAssumption DEF AccessTypeOK
  <2> QED
    BY <1>0, <1>1, <1>2, <1>3, <1>6, <2>1, <2>2 DEF AccessTypeOK, stored
<1>9. HandledBefore' /\ StopIsNew' /\ ButtonsAsked' /\ FlowsBegan'
  <2>1. HandledBefore'
    BY <1>1, <1>6 DEF AccessInv, HandledBefore, stored
  <2>2. StopIsNew'
    BY <1>2 DEF StopIsNew
  <2>3. ButtonsAsked'
    BY <1>0, <1>2, <1>3, <1>6 DEF AccessInv, ButtonsAsked, stored, AccessTypeOK
  <2>4. FlowsBegan'
    BY <1>1, <1>4, <1>6 DEF AccessInv, FlowsBegan
  <2> QED
    BY <2>1, <2>2, <2>3, <2>4
<1>10. DoomedAreClosed'
  BY <1>1, <1>4, <1>5, <1>6, <1>7 DEF AccessInv, DoomedAreClosed
<1> QED
  BY <1>1, <1>6, <1>8, <1>9, <1>10 DEF stored, AccessInv, AccessSafety, NeverTwice, CodesOnlyOnce,
     KillEndsWaitingTaps,
     QueueOnce, TapsAreQueued, TapsAreHandled, LiveIsFresh, SessionLive

LEMMA EngageKeeps == AccessInv /\ EngageKill => AccessInv'
<1> SUFFICES ASSUME AccessInv, EngageKill PROVE AccessInv'
  OBVIOUS
<1>0. AccessTypeOK /\ IdsApart(queue) /\ ToSet(queue) \subseteq Update /\ ToSet(chain) \subseteq Update
  BY QueueFacts DEF AccessInv, AccessSafety, QueueOnce
<1>1. stopping' \in StopState /\ stopping'.pc = "close" /\ session.open \in BOOLEAN
      /\ [session EXCEPT !.killed = session.open] \in Session
  <2>1. stopping \in StopState /\ session \in Session
    BY <1>0 DEF AccessTypeOK, Session
  <2>2. [stopping EXCEPT !.pc = "close"] \in StopState /\ [stopping EXCEPT !.pc = "close"].pc = "close"
    BY <2>1 DEF StopState
  <2> QED
    BY <1>0, <2>1, <2>2, EndedFacts DEF EngageKill, Session
<1>9. AccessTypeOK'
  BY <1>0, AccessAssumption, NothingTypes, FaultFacts, <1>1 DEF EngageKill, AccessTypeOK, Session, memory,
     stored, accessObservers
<1> QED
  BY <1>0, <1>9, NothingTypes, FaultFacts, <1>1 DEF EngageKill, AccessTypeOK, SessionLive, stored, memory,
     accessObservers,
     AccessInv, AccessSafety, NeverTwice, CodesOnlyOnce, KillEndsWaitingTaps, QueueOnce,
     TapsAreQueued, TapsAreHandled, HandledBefore, StopIsNew, ButtonsAsked, FlowsBegan, DoomedAreClosed,
        LiveIsFresh

LEMMA CloseKeeps == AccessInv /\ CloseAfterKill => AccessInv'
<1> SUFFICES ASSUME AccessInv, CloseAfterKill PROVE AccessInv'
  OBVIOUS
<1>0. AccessTypeOK /\ IdsApart(queue) /\ ToSet(queue) \subseteq Update /\ ToSet(chain) \subseteq Update
  BY QueueFacts DEF AccessInv, AccessSafety, QueueOnce
<1>9. AccessTypeOK'
  BY <1>0, AccessAssumption, NothingTypes DEF CloseAfterKill, AccessTypeOK, Session, memory, stored,
     accessObservers
<1> QED
  BY <1>0, <1>9, NothingTypes DEF CloseAfterKill, AccessTypeOK, SessionLive, stored, memory, accessObservers,
     NoSession, NotStopping,
     AccessInv, AccessSafety, NeverTwice, CodesOnlyOnce, KillEndsWaitingTaps, QueueOnce,
     TapsAreQueued, TapsAreHandled, HandledBefore, StopIsNew, ButtonsAsked, FlowsBegan, DoomedAreClosed,
        LiveIsFresh

LEMMA AskRevokeKeeps == AccessInv /\ AskRevoke => AccessInv'
<1> SUFFICES ASSUME AccessInv, AskRevoke PROVE AccessInv'
  OBVIOUS
<1>0. AccessTypeOK /\ IdsApart(queue) /\ ToSet(queue) \subseteq Update /\ ToSet(chain) \subseteq Update
  BY QueueFacts DEF AccessInv, AccessSafety, QueueOnce
<1>1. /\ handled' \subseteq Ids /\ twice' = {} /\ handled \subseteq handled'
    /\ handled' \subseteq 1 .. offset - 1
      /\ \A m \in ToSet(queue) : m.id \in handled' => m.id \in handled
  BY StopTakesUp DEF AskRevoke
<1>2. stopping.pc = "begin" /\ stopping'.pc # "begin" /\ stopping' \in StopState
  <2>1. \A m \in ToSet(chain) : m.id \in handled
    BY TapFacts
  <2>2. {m.id : m \in ToSet(chain)} \subseteq Ids
    BY <1>0, <2>1 DEF AccessTypeOK
  <2>3. stopping \in StopState
    BY <1>0 DEF AccessTypeOK, StopState
  <2>4. CASE stopping' = NotStopping
    BY <2>4, NothingTypes DEF AskRevoke, NotStopping
  <2>5. CASE stopping' = [stopping EXCEPT !.pc = "turn", !.ahead = {m.id : m \in ToSet(chain)}]
    BY <2>2, <2>3, <2>5 DEF AskRevoke, StopState
  <2> QED
    BY <2>4, <2>5 DEF AskRevoke
<1>3. UNCHANGED <<stored, step, alive, queue, killButtons, openFlow, chain, acting, fresh, newest, replayed, doomed,
                  tookEffect, accessFaults>>
  BY DEF AskRevoke
<1>4. AccessTypeOK'
  BY <1>0, <1>1, <1>2, <1>3 DEF AccessTypeOK, StopState, stored
<1>5. HandledBefore' /\ StopIsNew' /\ FlowsBegan' /\ DoomedAreClosed'
  BY <1>1, <1>2, <1>3 DEF AccessInv, HandledBefore, StopIsNew, FlowsBegan, DoomedAreClosed, stored
<1>6. ButtonsAsked'
  BY <1>0, <1>2, <1>3, AccessAssumption DEF AccessInv, ButtonsAsked, AccessTypeOK, stored
<1>7. TapsAreHandled' /\ TapsAreQueued' /\ QueueOnce' /\ LiveIsFresh'
  BY <1>1, <1>3 DEF AccessInv, TapsAreHandled, TapsAreQueued, QueueOnce, LiveIsFresh, SessionLive, stored
<1> QED
  BY <1>1, <1>3, <1>4, <1>5, <1>6, <1>7 DEF stored, AccessInv, AccessSafety, NeverTwice, CodesOnlyOnce,
     KillEndsWaitingTaps

LEMMA BeginRevokeKeeps == AccessInv /\ BeginRevoke => AccessInv'
<1> SUFFICES ASSUME AccessInv, BeginRevoke PROVE AccessInv'
  OBVIOUS
<1>0. AccessTypeOK
  BY DEF AccessInv, AccessSafety
<1>1. stopping.pc = "turn" /\ stopping' = NotStopping /\ stopping'.pc = "idle" /\ stopping' \in StopState
  BY NothingTypes DEF BeginRevoke, NotStopping
<1>2. openFlow' = 0 /\ UNCHANGED <<stored, step, alive, queue, killButtons, chain, acting, accessObservers, accessFaults>>
  BY DEF BeginRevoke
<1>3. AccessTypeOK'
  BY <1>0, <1>1, <1>2, AccessAssumption DEF AccessTypeOK, StopState, stored, accessObservers
<1>4. \A m \in ToSet(chain) : m.arg # 0
  BY TapFacts
<1>5. DoomedAreClosed' /\ FlowsBegan' /\ StopIsNew'
  BY <1>1, <1>2, <1>4 DEF AccessInv, DoomedAreClosed, FlowsBegan, StopIsNew, accessObservers
<1>6. ButtonsAsked'
  BY <1>1, <1>2 DEF AccessInv, ButtonsAsked, stored
<1> QED
  BY <1>2, <1>3, <1>5, <1>6 DEF stored, accessObservers, AccessInv, AccessSafety, NeverTwice, CodesOnlyOnce,
     KillEndsWaitingTaps, TapsAreHandled, TapsAreQueued, QueueOnce, HandledBefore, LiveIsFresh, SessionLive

LEMMA TooOldKeeps == ASSUME AccessInv, NEW m \in Working, TooOld(m) PROVE AccessInv'
<1>0. AccessTypeOK /\ m \in ToSet(queue)
  BY WorkingFacts DEF AccessInv, AccessSafety
<1>1. /\ queue' \in Seq(Update) /\ ToSet(queue') = ToSet(queue) \ {m}
      /\ QueueOnce' /\ TapsAreQueued' /\ HandledBefore' /\ StopIsNew'
  BY <1>0, WorkerLeaves DEF TooOld, stored
<1>2. handled' \subseteq Ids /\ twice' = {} /\ handled' = handled \cup {m.id} /\ m.id \notin handled
  BY <1>0, WorkerTakesUp DEF TooOld
<1>3. AccessTypeOK'
  BY <1>0, <1>1, <1>2 DEF TooOld, AccessTypeOK, stored
<1>4. TapsAreHandled' /\ FlowsBegan' /\ DoomedAreClosed'
  BY <1>1, <1>2 DEF TooOld, AccessInv, TapsAreHandled, FlowsBegan, DoomedAreClosed
<1> QED
  BY <1>1, <1>2, <1>3, <1>4 DEF TooOld, stored, AccessInv, AccessSafety, NeverTwice, CodesOnlyOnce,
     KillEndsWaitingTaps,
     ButtonsAsked, LiveIsFresh, SessionLive

LEMMA UnlockKeeps == ASSUME AccessInv, NEW m \in Working, Unlock(m) PROVE AccessInv'
<1>0. AccessTypeOK /\ m \in ToSet(queue) /\ newest = used /\ ~replayed /\ (SessionLive => fresh)
  BY WorkingFacts DEF AccessInv, AccessSafety, CodesOnlyOnce, LiveIsFresh
<1>1. m \notin ToSet(chain) \cup {acting}
  BY DEF Unlock, AccessInv, TapsAreQueued, NoUpdate
<1>2. /\ queue' \in Seq(Update) /\ ToSet(queue') = ToSet(queue) \ {m}
      /\ QueueOnce' /\ TapsAreQueued' /\ HandledBefore' /\ StopIsNew'
  BY <1>0, <1>1, WorkerLeaves DEF Unlock
<1>3. handled' \subseteq Ids /\ twice' = {} /\ handled' = handled \cup {m.id} /\ m.id \notin handled
  BY <1>0, <1>1, WorkerTakesUp DEF Unlock
<1>4. /\ session' \in Session /\ used' \in -1 .. MaxStep + 1 /\ failures' \in 0 .. FailureLimit
    /\ fresh' \in BOOLEAN
      /\ newest' = used' /\ ~replayed' /\ replayed' \in BOOLEAN /\ (SessionLive' => fresh')
  <2>1. CASE failures >= FailureLimit /\ UNCHANGED <<session, used, failures, fresh, newest, replayed>>
    BY <1>0, <2>1 DEF AccessTypeOK, SessionLive, Session
  <2>2. CASE /\ failures < FailureLimit /\ Acceptable(m.arg)
             /\ session' = NewSession /\ used' = m.arg /\ fresh' = TRUE /\ newest' = m.arg
             /\ replayed' = (replayed \/ m.arg <= newest) /\ UNCHANGED failures
    <3>1. m.arg \in -1 .. MaxStep + 1 /\ m.arg > used /\ used \in Int
      BY <1>0, <2>2, AccessAssumption, SMTT(30) DEF Acceptable, AccessTypeOK
    <3>2. ~(m.arg <= newest)
      BY <1>0, <3>1
    <3> QED
      BY <1>0, <2>2, <3>1, <3>2, NothingTypes DEF AccessTypeOK
  <2>3. CASE /\ failures < FailureLimit /\ ~Acceptable(m.arg)
             /\ failures' = failures + 1 /\ UNCHANGED <<session, used, fresh, newest, replayed>>
    BY <1>0, <2>3, AccessAssumption DEF AccessTypeOK, SessionLive, Session
  <2> QED
    BY <2>1, <2>2, <2>3 DEF Unlock
<1>5. AccessTypeOK'
  <2>1. newest' \in -1 .. MaxStep + 1
    BY <1>4
  <2> QED
    BY <1>0, <1>2, <1>3, <1>4, <2>1 DEF Unlock, AccessTypeOK, Session
<1>6. TapsAreHandled' /\ FlowsBegan' /\ DoomedAreClosed'
  BY <1>2, <1>3 DEF Unlock, AccessInv, TapsAreHandled, FlowsBegan, DoomedAreClosed
<1> QED
  BY <1>2, <1>3, <1>4, <1>5, <1>6 DEF Unlock, AccessInv, AccessSafety, NeverTwice, CodesOnlyOnce,
     KillEndsWaitingTaps,
     ButtonsAsked, LiveIsFresh

LEMMA StartKeeps == ASSUME AccessInv, NEW m \in Working, Start(m) PROVE AccessInv'
<1>0. AccessTypeOK /\ m \in ToSet(queue) /\ (SessionLive => fresh)
  BY WorkingFacts DEF AccessInv, AccessSafety, LiveIsFresh
<1>1. m \notin ToSet(chain) \cup {acting}
  BY DEF Start, AccessInv, TapsAreQueued, NoUpdate
<1>2. /\ queue' \in Seq(Update) /\ ToSet(queue') = ToSet(queue) \ {m}
      /\ QueueOnce' /\ TapsAreQueued' /\ HandledBefore' /\ StopIsNew'
  BY <1>0, <1>1, WorkerLeaves DEF Start
<1>3. handled' \subseteq Ids /\ twice' = {} /\ handled' = handled \cup {m.id} /\ m.id \notin handled
    /\ m.id \in Ids
  BY <1>0, <1>1, WorkerTakesUp DEF Start
<1>4. session' \in Session /\ (SessionLive' => SessionLive)
  BY <1>0, CheckedFacts DEF Start
<1>5. openFlow' \in {openFlow, m.id}
  BY DEF Start
<1>6. AccessTypeOK'
  <2>1. openFlow' \in 0 .. MaxUpdates
    BY <1>0, <1>3, <1>5, AccessAssumption, SMTT(30) DEF Ids, AccessTypeOK
  <2> QED
    BY <1>0, <1>2, <1>3, <1>4, <2>1 DEF Start, AccessTypeOK, Session
<1>7. \A x \in ToSet(chain) : x.arg \in handled
  BY TapFacts
<1>8. FlowsBegan' /\ DoomedAreClosed' /\ TapsAreHandled'
  <2>1. FlowsBegan'
    BY <1>2, <1>3, <1>5 DEF AccessInv, FlowsBegan
  <2>2. DoomedAreClosed'
    BY <1>3, <1>5, <1>7 DEF Start, AccessInv, DoomedAreClosed
  <2>3. TapsAreHandled'
    BY <1>3 DEF Start, AccessInv, TapsAreHandled
  <2> QED
    BY <2>1, <2>2, <2>3
<1> QED
  BY <1>0, <1>2, <1>3, <1>4, <1>6, <1>8 DEF Start, AccessInv, AccessSafety, NeverTwice, CodesOnlyOnce,
     KillEndsWaitingTaps,
     ButtonsAsked, LiveIsFresh

LEMMA LastTapKeeps == ASSUME AccessInv, NEW m \in Working, LastTap(m) PROVE AccessInv'
<1>0. AccessTypeOK /\ m \in ToSet(queue) /\ m \in Update /\ m \notin ToSet(chain) \cup {acting} /\ m.kind = "go"
  BY WorkingFacts DEF LastTap, AccessInv, AccessSafety
<1>1. /\ handled' \subseteq Ids /\ twice' = {} /\ handled' = handled \cup {m.id}
    /\ handled' \subseteq 1 .. offset - 1
      /\ m.id \notin handled /\ \A x \in ToSet(queue) : x.id = m.id => x = m
  BY <1>0, WorkerTakesUp DEF LastTap
<1>2. session' \in Session /\ (SessionLive' => SessionLive)
  BY <1>0, CheckedFacts DEF LastTap
<1>3. m.id \notin doomed
  BY <1>1 DEF AccessInv, DoomedAreClosed
<1>4. CASE ~SessionLive
  <2>1. /\ queue' \in Seq(Update) /\ ToSet(queue') = ToSet(queue) \ {m}
        /\ QueueOnce' /\ TapsAreQueued' /\ HandledBefore' /\ StopIsNew'
    BY <1>0, <1>4, WorkerLeaves DEF LastTap
  <2>2. AccessTypeOK'
    BY <1>0, <1>1, <1>2, <1>4, <2>1 DEF LastTap, AccessTypeOK, Session
  <2>3. TapsAreHandled' /\ FlowsBegan' /\ DoomedAreClosed'
    BY <1>1, <1>4, <2>1 DEF LastTap, AccessInv, TapsAreHandled, FlowsBegan, DoomedAreClosed
  <2> QED
    BY <1>1, <1>2, <2>1, <2>2, <2>3 DEF LastTap, AccessInv, AccessSafety, NeverTwice, CodesOnlyOnce,
       KillEndsWaitingTaps, ButtonsAsked, LiveIsFresh
<1>5. CASE SessionLive
  <2>0. chain \in Seq(Update) /\ IsInjective(chain) /\ ToSet(chain) \subseteq ToSet(queue)
    BY <1>0 DEF AccessTypeOK, AccessInv, TapsAreQueued
  <2>1. chain' = Append(chain, m) /\ queue' = queue
    BY <1>5 DEF LastTap
  <2>2. chain' \in Seq(Update) /\ ToSet(chain') = ToSet(chain) \cup {m} /\ IsInjective(chain')
    BY <1>0, <2>0, <2>1, AppendOne
  <2>3. AccessTypeOK'
    BY <1>0, <1>1, <1>2, <2>1, <2>2 DEF LastTap, AccessTypeOK, Session
  <2>4. TapsAreQueued' /\ TapsAreHandled'
    BY <1>0, <1>1, <2>1, <2>2 DEF LastTap, AccessInv, TapsAreQueued, TapsAreHandled
  <2>5. HandledBefore'
    BY <1>0, <1>1, <2>1, <2>2 DEF LastTap, AccessInv, HandledBefore
  <2>6. StopIsNew'
    BY <1>0, <1>1, <2>1 DEF LastTap, AccessInv, StopIsNew
  <2>7. FlowsBegan' /\ DoomedAreClosed'
    BY <1>1, <1>3, <2>1, <2>2 DEF LastTap, AccessInv, FlowsBegan, DoomedAreClosed
  <2> QED
    BY <1>1, <1>2, <2>1, <2>3, <2>4, <2>5, <2>6, <2>7 DEF LastTap, AccessInv, AccessSafety, NeverTwice,
       CodesOnlyOnce,
       KillEndsWaitingTaps, QueueOnce, ButtonsAsked, LiveIsFresh
<1> QED
  BY <1>4, <1>5

LEMMA ActKeeps == AccessInv /\ Act => AccessInv'
<1> SUFFICES ASSUME AccessInv, Act PROVE AccessInv'
  OBVIOUS
<1> DEFINE m == Head(chain)
<1>0. AccessTypeOK /\ IdsApart(queue) /\ chain \in Seq(Update) /\ chain # <<>> /\ IsInjective(chain)
      /\ tookEffect = {} /\ acting = NoUpdate
  BY DEF Act, AccessTypeOK, AccessInv, AccessSafety, QueueOnce, TapsAreQueued, KillEndsWaitingTaps
<1>1. m \in ToSet(chain) /\ Tail(chain) \in Seq(Update) /\ ToSet(Tail(chain)) = ToSet(chain) \ {m}
    /\ IsInjective(Tail(chain))
  BY <1>0, TailOne
<1>2. /\ m \in ToSet(queue) /\ m \in Update /\ m.kind = "go" /\ m.arg # 0 /\ m.id \in handled
      /\ \A x \in ToSet(queue) : x.id = m.id => x = m
  BY <1>0, <1>1, TapFacts, QueueFacts
<1>3. m.id \in doomed => m.arg # openFlow
  BY <1>1 DEF AccessInv, DoomedAreClosed
<1>4. chain' = Tail(chain) /\ doomed' = doomed \ {m.id}
      /\ UNCHANGED <<stored, step, alive, stopping, killButtons, handled, twice, fresh, newest, replayed,
         accessFaults>>
  BY DEF Act
<1>5. /\ tookEffect' = {} /\ openFlow' \in {0, openFlow}
      /\ \/ acting' = m /\ queue' = queue
         \/ acting' = NoUpdate /\ Leave(m)
  BY <1>0, <1>3 DEF Act
<1> HIDE DEF m
<1>6. /\ queue' \in Seq(Update) /\ IdsApart(queue')
      /\ ToSet(queue') \subseteq ToSet(queue) /\ ToSet(queue) \ {m} \subseteq ToSet(queue')
      /\ (acting' = m /\ m \in ToSet(queue')) \/ (acting' = NoUpdate /\ m \notin ToSet(queue'))
  <2>1. CASE acting' = m /\ queue' = queue
    BY <1>0, <1>2, <2>1 DEF AccessTypeOK
  <2>2. CASE acting' = NoUpdate /\ Leave(m)
    BY <1>0, <2>2, LeaveFacts
  <2> QED
    BY <1>5, <2>1, <2>2
<1>7. AccessTypeOK'
  <2>1. /\ {queue', chain'} \subseteq Seq(Update)
        /\ acting' \in Update /\ handled' \cup twice' \cup doomed' \cup tookEffect' \subseteq Ids
    <3>1. handled \cup twice \cup doomed \subseteq Ids /\ NoUpdate \in Update
      BY <1>0, NothingTypes DEF AccessTypeOK
    <3> QED
      BY <1>1, <1>2, <1>4, <1>5, <1>6, <3>1
  <2>2. openFlow' \in 0 .. MaxUpdates
    BY <1>0, <1>5, AccessAssumption, SMTT(30) DEF AccessTypeOK
  <2>3. /\ UNCHANGED <<offset, used, failures, session, step, alive, killButtons, stopping>>
        /\ UNCHANGED <<fresh, newest, replayed, accessFaults>>
    BY <1>4 DEF stored
  <2> QED
    BY <1>0, <2>1, <2>2, <2>3 DEF AccessTypeOK
<1>8. QueueOnce'
  BY <1>4, <1>6 DEF AccessInv, QueueOnce, stored
<1>9. TapsAreQueued' /\ TapsAreHandled'
  BY <1>1, <1>2, <1>4, <1>6 DEF AccessInv, TapsAreQueued, TapsAreHandled
<1>10. HandledBefore'
  <2>1. \A x \in ToSet(queue) : x # NoUpdate
    BY DEF AccessInv, QueueOnce, NoUpdate
  <2>2. ASSUME NEW x \in ToSet(queue'), x \notin ToSet(chain') \cup {acting'} PROVE x.id \notin handled
    <3>1. x \in ToSet(queue) /\ x # m /\ x \notin ToSet(chain) /\ x # acting
      BY <1>0, <1>1, <1>4, <1>6, <2>1, <2>2
    <3> QED
      BY <3>1 DEF AccessInv, HandledBefore
  <2> QED
    BY <1>4, <2>2 DEF AccessInv, HandledBefore, stored
<1>11. StopIsNew' /\ FlowsBegan'
  BY <1>4, <1>5, <1>6 DEF AccessInv, StopIsNew, FlowsBegan, stored
<1>12. DoomedAreClosed'
  <2>1. \A x \in ToSet(chain') : x \in ToSet(chain) /\ x.arg # 0
    BY <1>1, <1>4, TapFacts
  <2> QED
    BY <1>4, <1>5, <2>1 DEF AccessInv, DoomedAreClosed
<1> QED
  BY <1>4, <1>5, <1>7, <1>8, <1>9, <1>10, <1>11, <1>12 DEF stored, AccessInv, AccessSafety, NeverTwice,
     CodesOnlyOnce,
     KillEndsWaitingTaps, ButtonsAsked, LiveIsFresh, SessionLive

LEMMA ActDoneKeeps == AccessInv /\ ActDone => AccessInv'
<1> SUFFICES ASSUME AccessInv, ActDone PROVE AccessInv'
  OBVIOUS
<1>0. AccessTypeOK /\ IdsApart(queue)
  BY DEF AccessInv, AccessSafety, QueueOnce
<1>1. queue' \in Seq(Update) /\ ToSet(queue') = ToSet(queue) \ {acting} /\ IdsApart(queue')
  BY <1>0, LeaveFacts DEF ActDone
<1>2. AccessTypeOK'
  BY <1>0, <1>1, NothingTypes DEF ActDone, AccessTypeOK, stored, accessObservers
<1>3. TapsAreQueued' /\ TapsAreHandled' /\ HandledBefore' /\ QueueOnce'
  BY <1>1 DEF ActDone, AccessInv, TapsAreQueued, TapsAreHandled, HandledBefore, QueueOnce, stored,
     accessObservers
<1> QED
  BY <1>1, <1>2, <1>3 DEF ActDone, AccessInv, AccessSafety, NeverTwice, CodesOnlyOnce, KillEndsWaitingTaps,
     StopIsNew,
     ButtonsAsked, FlowsBegan, DoomedAreClosed, LiveIsFresh, SessionLive, stored, accessObservers

LEMMA NextStepKeeps == AccessInv /\ NextStep => AccessInv'
<1> SUFFICES ASSUME AccessInv, NextStep PROVE AccessInv'
  OBVIOUS
<1>0. AccessTypeOK /\ IdsApart(queue) /\ ToSet(queue) \subseteq Update /\ ToSet(chain) \subseteq Update
  BY QueueFacts DEF AccessInv, AccessSafety, QueueOnce
<1>9. AccessTypeOK'
  <2>1. /\ step \in 0 .. MaxStep /\ killButtons \in 0 .. MaxUpdates /\ failures \in 0 .. FailureLimit
        /\ MaxStep \in Nat /\ MaxUpdates \in Nat /\ FailureLimit \in Nat
    BY <1>0, AccessAssumption DEF AccessTypeOK
  <2>2. step' \in 0 .. MaxStep
    BY <2>1 DEF NextStep
  <2>3. killButtons' \in 0 .. MaxUpdates /\ failures' \in 0 .. FailureLimit
    BY <2>1 DEF NextStep
  <2> QED
    BY <1>0, <2>2, <2>3 DEF NextStep, AccessTypeOK, accessObservers
<1> QED
  BY <1>0, <1>9, NothingTypes, SMTT(30) DEF NextStep, AccessTypeOK, SessionLive, stored, memory, accessObservers,
     AccessInv, AccessSafety, NeverTwice, CodesOnlyOnce, KillEndsWaitingTaps, QueueOnce,
     TapsAreQueued, TapsAreHandled, HandledBefore, StopIsNew, ButtonsAsked, FlowsBegan, DoomedAreClosed,
        LiveIsFresh

LEMMA ExpireKeeps == AccessInv /\ Expire => AccessInv'
<1> SUFFICES ASSUME AccessInv, Expire PROVE AccessInv'
  OBVIOUS
<1>0. AccessTypeOK /\ IdsApart(queue) /\ ToSet(queue) \subseteq Update /\ ToSet(chain) \subseteq Update
  BY QueueFacts DEF AccessInv, AccessSafety, QueueOnce
<1>9. AccessTypeOK'
  BY <1>0, AccessAssumption, NothingTypes, FaultFacts, EndedFacts DEF Expire, AccessTypeOK, Session, memory,
     stored, accessObservers
<1> QED
  BY <1>0, <1>9, NothingTypes, FaultFacts, EndedFacts DEF Expire, AccessTypeOK, SessionLive, stored, memory,
     accessObservers,
     AccessInv, AccessSafety, NeverTwice, CodesOnlyOnce, KillEndsWaitingTaps, QueueOnce,
     TapsAreQueued, TapsAreHandled, HandledBefore, StopIsNew, ButtonsAsked, FlowsBegan, DoomedAreClosed,
        LiveIsFresh

LEMMA KillElsewhereKeeps == AccessInv /\ KillElsewhere => AccessInv'
<1> SUFFICES ASSUME AccessInv, KillElsewhere PROVE AccessInv'
  OBVIOUS
<1>0. AccessTypeOK /\ IdsApart(queue) /\ ToSet(queue) \subseteq Update /\ ToSet(chain) \subseteq Update
  BY QueueFacts DEF AccessInv, AccessSafety, QueueOnce
<1>9. AccessTypeOK'
  BY <1>0, AccessAssumption, NothingTypes, FaultFacts, EndedFacts DEF KillElsewhere, AccessTypeOK, Session,
     memory, stored, accessObservers
<1> QED
  BY <1>0, <1>9, NothingTypes, FaultFacts, EndedFacts DEF KillElsewhere, AccessTypeOK, SessionLive, stored,
     memory, accessObservers,
     AccessInv, AccessSafety, NeverTwice, CodesOnlyOnce, KillEndsWaitingTaps, QueueOnce,
     TapsAreQueued, TapsAreHandled, HandledBefore, StopIsNew, ButtonsAsked, FlowsBegan, DoomedAreClosed,
        LiveIsFresh

LEMMA CrashKeeps == AccessInv /\ AccessCrash => AccessInv'
<1> SUFFICES ASSUME AccessInv, AccessCrash PROVE AccessInv'
  OBVIOUS
<1>0. AccessTypeOK /\ IdsApart(queue) /\ ToSet(queue) \subseteq Update /\ ToSet(chain) \subseteq Update
  BY QueueFacts DEF AccessInv, AccessSafety, QueueOnce
<1>1. 0 \in 0 .. MaxUpdates
  BY AccessAssumption
<1>9. AccessTypeOK'
  BY <1>0, AccessAssumption, NothingTypes, FaultFacts, <1>1 DEF AccessCrash, AccessTypeOK, Session, memory,
     stored, accessObservers
<1> QED
  BY <1>0, <1>9, NothingTypes, FaultFacts, <1>1, SMTT(30) DEF AccessCrash, AccessTypeOK, SessionLive, stored, memory,
     accessObservers, NotStopping,
     AccessInv, AccessSafety, NeverTwice, CodesOnlyOnce, KillEndsWaitingTaps, QueueOnce,
     TapsAreQueued, TapsAreHandled, HandledBefore, StopIsNew, ButtonsAsked, FlowsBegan, DoomedAreClosed,
        LiveIsFresh

LEMMA RestartKeeps == AccessInv /\ Restart => AccessInv'
<1> SUFFICES ASSUME AccessInv, Restart PROVE AccessInv'
  OBVIOUS
<1>0. AccessTypeOK /\ IdsApart(queue) /\ ToSet(queue) \subseteq Update /\ ToSet(chain) \subseteq Update
  BY QueueFacts DEF AccessInv, AccessSafety, QueueOnce
<1>9. AccessTypeOK'
  BY <1>0, AccessAssumption, NothingTypes, EndedFacts DEF Restart, AccessTypeOK, Session, memory, stored,
     accessObservers
<1> QED
  BY <1>0, <1>9, NothingTypes, EndedFacts DEF Restart, AccessTypeOK, SessionLive, stored, memory,
     accessObservers, NoSession,
     AccessInv, AccessSafety, NeverTwice, CodesOnlyOnce, KillEndsWaitingTaps, QueueOnce,
     TapsAreQueued, TapsAreHandled, HandledBefore, StopIsNew, ButtonsAsked, FlowsBegan, DoomedAreClosed,
        LiveIsFresh

LEMMA AccessStarts == AccessInit => AccessInv
<1> SUFFICES ASSUME AccessInit PROVE AccessInv
  OBVIOUS
<1>1. AccessTypeOK
  <2>1. 1 \in 1 .. MaxUpdates + 1 /\ -1 \in -1 .. MaxStep + 1 /\ 0 \in 0 .. FailureLimit /\ 0 \in 0 .. MaxStep
        /\ 0 \in 0 .. MaxUpdates /\ AccessFaults \in 0 .. AccessFaults
    BY AccessAssumption
  <2> QED
    BY <2>1, NothingTypes DEF AccessInit, AccessTypeOK, Session
<1> QED
  BY <1>1, NothingTypes DEF AccessInit, AccessInv, AccessSafety, NeverTwice, CodesOnlyOnce,
     KillEndsWaitingTaps, QueueOnce,
     TapsAreQueued, TapsAreHandled, HandledBefore, StopIsNew, ButtonsAsked, FlowsBegan, DoomedAreClosed,
        LiveIsFresh,
     SessionLive, NotStopping, NoSession

LEMMA AccessSteps == AccessInv /\ [AccessNext]_accessVars => AccessInv'
<1> SUFFICES ASSUME AccessInv, [AccessNext]_accessVars PROVE AccessInv'
  OBVIOUS
<1>1. CASE HandleStop
  BY <1>1, LockKeeps, AskKillKeeps, ConfirmKillKeeps, EngageKeeps, CloseKeeps, AskRevokeKeeps, BeginRevokeKeeps
     DEF HandleStop
<1>2. ASSUME NEW m \in Working, Handle(m) PROVE AccessInv'
  BY <1>2, TooOldKeeps, UnlockKeeps, StartKeeps, LastTapKeeps DEF Handle
<1>3. CASE UNCHANGED accessVars
  BY <1>3 DEF accessVars, stored, memory, accessObservers, AccessInv, AccessSafety, AccessTypeOK, NeverTwice,
     CodesOnlyOnce,
     KillEndsWaitingTaps, QueueOnce, TapsAreQueued, TapsAreHandled, HandledBefore, StopIsNew, ButtonsAsked,
        FlowsBegan,
     DoomedAreClosed, LiveIsFresh, SessionLive
<1> QED
  BY <1>1, <1>2, <1>3, PollKeeps, ActKeeps, ActDoneKeeps, NextStepKeeps, ExpireKeeps, KillElsewhereKeeps,
     CrashKeeps,
     RestartKeeps DEF AccessNext

-----------------------------------------------------------------------------
(* The chat's theorems                                                     *)

\* No update is handled twice, no code opens two sessions, and no tap acts that waited when the owner
\* killed: whatever is handed out again, waits, expires or dies in between.
THEOREM ChatIsSafe == AccessSpec => []AccessSafety
<1>1. AccessInv => AccessSafety
  BY DEF AccessInv
<1> QED
  BY <1>1, AccessStarts, AccessSteps, PTL DEF AccessSpec

\* Only a live session lets a command or a tap through.
LEMMA GateStep ==
  AccessInv /\ [AccessNext]_accessVars => ((openFlow' \notin {0,
     openFlow} \/ Len(chain') > Len(chain)) => fresh)
<1> SUFFICES ASSUME AccessInv, [AccessNext]_accessVars, ~fresh
             PROVE  openFlow' \in {0, openFlow} /\ ~(Len(chain') > Len(chain))
  OBVIOUS
<1>1. ~SessionLive /\ chain \in Seq(Update)
  BY DEF AccessInv, LiveIsFresh, AccessSafety, AccessTypeOK
<1>2. Len(chain) \in Nat /\ Len(<<>>) = 0
  BY <1>1
<1>3. ASSUME NEW m \in Working, Handle(m) PROVE openFlow' \in {0, openFlow} /\ ~(Len(chain') > Len(chain))
  BY <1>1, <1>2, <1>3 DEF Handle, TooOld, Unlock, Start, LastTap
<1>4. CASE HandleStop
  BY <1>2, <1>4 DEF HandleStop, Lock, AskKill, ConfirmKill, EndFlow, EngageKill, CloseAfterKill,
     AskRevoke, BeginRevoke
<1>5. CASE Act
  <2>1. Len(Tail(chain)) = Len(chain) - 1
    BY <1>1, <1>5 DEF Act
  <2> QED
    BY <1>2, <1>5, <2>1 DEF Act
<1>6. CASE Poll \/ ActDone \/ NextStep \/ Expire \/ KillElsewhere \/ AccessCrash \/ Restart \/ UNCHANGED accessVars
  BY <1>2, <1>6 DEF Poll, ActDone, NextStep, Expire, KillElsewhere, AccessCrash, Restart, accessVars, memory
<1> QED
  BY <1>3, <1>4, <1>5, <1>6 DEF AccessNext

\* A start command or a last tap is let through only after a code that came later than every kill, lock,
\* expiry and restart.
THEOREM GateIsFresh == AccessSpec => GateNeedsFreshCode
<1>1. AccessSpec => []AccessInv
  BY AccessStarts, AccessSteps, PTL DEF AccessSpec
<1> QED
  BY <1>1, GateStep, PTL DEF AccessSpec, GateNeedsFreshCode

-----------------------------------------------------------------------------
(* The guided flows                                                        *)

\* The flow is at a step of its plan.
StepInPlan == flow.step <= Review(flow.kind)
\* A handler runs for a flow that was made.
FlowMade == job.at # "idle" => flow.id > 0
\* The controls of an open flow whose step is shown are those of the step.
Controls ==
  open /\ job.at # "render" =>
     /\ flow.awaiting \/ flow.custom => Name \in Typed \cup {"contract"}
     /\ flow.options => Name \notin {"contract", "review"}
\* The steps of a last tap's handler.
Lasts == {"first", "second", "third"}
\* Each handler is at a step that it is for, and a flow ends with its last tap.
RightJob ==
  /\ job.at = "take" => Name \in {"contract", "quantity", "count"}
  /\ job.at = "preview" => Name \in {"fee", "window"}
  /\ job.at \in Lasts => Name = "review" /\ (open => flow.kind = "simulate")
  /\ job.at \in {"second", "third"} => flow.kind \notin {"simulate", "fire", "schedule"}
\* No button is of a flow yet to be made, and the current flow's last button is of its summary.
ButtonsKnown ==
  \A b \in buttons : b.id <= flow.id /\ (b.id = flow.id /\ b.key = "go" => b.step = Review(flow.kind) /\ flow.kind # "cancel")
\* The current flow may still act.
CanAct == open \/ job.at \in {"first", "second"} \/ (job.at = "third" /\ flow.kind # "release")
\* A flow that may still act has not acted.
ActsOnce == acted \subseteq 1 .. flow.id /\ (CanAct => flow.id \notin acted)
\* No handler runs for a tap from before a kill, and an open flow is younger than the last kill.
KillHeeded == ~job.late /\ dead <= flow.id /\ (open => dead < flow.id)
\* The handler's tap came in time.
SoonEnough == job.age <= ConfirmLife
\* A summary names no wallets where none go, and as many wallets as its phrase counts.
ShownFits ==
  /\ flow.kind \in {"release", "revoke"} => flow.shown.wallets = {}
  /\ flow.kind = "prepare" /\ Name = "review" => flow.shown.what = Cardinality(flow.shown.wallets)
\* The stored kill switch names one of the engagements so far.
Engagements == kill.flag <= engaged /\ engaged + changes <= MaxChanges + 1
\* The inductive invariant of the flows.
FlowsInv == 
  /\ FlowsTypeOK /\ StepInPlan /\ FlowMade /\ Controls /\ RightJob /\ ButtonsKnown /\ ActsOnce /\ KillHeeded /\ SoonEnough
  /\ ShownFits /\ Engagements /\ FlowsSafety /\ ActsAsReviewed

\* The constants are natural numbers.
LEMMA BoundsAreNat ==
  /\ MaxFlows \in Nat /\ MaxWrong \in Nat /\ MaxClock \in Nat /\ MaxChanges \in Nat /\ ConfirmLife \in Nat /\ NWallets \in Nat
  /\ MaxFlows > 0 /\ MaxWrong > 0
BY BoundsAssumption

\* What the properties use of PLAN: the summary is the last step, and which flows have which questions.
LEMMA PlanFacts ==
  ASSUME NEW k \in AllKinds
  PROVE  /\ Review(k) \in Steps
         /\ k = "prepare" => Review(k) > 1
         /\ \A s \in 1 .. Review(k) :
              /\ Plan[k][s] = "review" <=> (s = Review(k) /\ k # "cancel")
              /\ Plan[k][s] = "pick" <=> k = "cancel"
              /\ Plan[k][s] \in {"fee", "window", "wallets"} => k \in {"request", "fire", "schedule"}
              /\ Plan[k][s] \in {"contract", "quantity", "count"} => k = "prepare"
              /\ k = "prepare" /\ s + 1 = Review(k) => Plan[k][s] = "count"
<1>1. k \in {"prepare", "simulate", "release", "request", "fire", "schedule", "cancel", "revoke", "watchaccept"}
  BY DEF AllKinds, Plan
<1>2. CASE k = "prepare"
  <2>1. Plan[k] = <<"chain", "contract", "quantity", "count", "review">>
    BY <1>2, SMT DEF Plan
  <2> QED BY <1>2, <2>1 DEF Review, Steps
<1>3. CASE k = "schedule"
  <2>1. Plan[k] = <<"campaign", "wallets", "fee", "window", "review">>
    BY <1>3, SMT DEF Plan
  <2> QED BY <1>3, <2>1 DEF Review, Steps
<1>4. CASE k \in {"request", "fire"}
  <2>1. Plan[k] = <<"campaign", "wallets", "fee", "review">>
    BY <1>4, SMT DEF Plan
  <2> QED BY <1>4, <2>1 DEF Review, Steps
<1>5. CASE k = "watchaccept"
  <2>1. Plan[k] = <<"chain", "wallet", "review">>
    BY <1>5, SMT DEF Plan
  <2> QED BY <1>5, <2>1 DEF Review, Steps
<1>6. CASE k = "simulate"
  <2>1. Plan[k] = <<"campaign", "review">>
    BY <1>6, SMT DEF Plan
  <2> QED BY <1>6, <2>1 DEF Review, Steps
<1>7. CASE k = "revoke"
  <2>1. Plan[k] = <<"chain", "review">>
    BY <1>7, SMT DEF Plan
  <2> QED BY <1>7, <2>1 DEF Review, Steps
<1>8. CASE k = "release"
  <2>1. Plan[k] = <<"review">>
    BY <1>8, SMT DEF Plan
  <2> QED BY <1>8, <2>1 DEF Review, Steps
<1>9. CASE k = "cancel"
  <2>1. Plan[k] = <<"pick">>
    BY <1>9, SMT DEF Plan
  <2> QED BY <1>9, <2>1 DEF Review, Steps
<1> QED BY <1>1, <1>2, <1>3, <1>4, <1>5, <1>6, <1>7, <1>8, <1>9

\* advance: the next step is in the plan, and the flow's subject stays.
LEMMA NextIs ==
  ASSUME flow \in FlowRecords, clock \in 0 .. MaxClock, Name \notin {"review", "pick"}, StepInPlan
  PROVE  /\ Next1 \in FlowRecords
         /\ /\ Next1.id = flow.id /\ Next1.kind = flow.kind /\ Next1.step = flow.step + 1 /\ Next1.shown = flow.shown
         /\ flow.step + 1 \in 1 .. Review(flow.kind)
<1>1. flow.kind \in AllKinds /\ flow.step \in Steps
  BY DEF FlowRecords
<1>3. flow.step + 1 \in Steps /\ flow.step + 1 \in 1 .. Review(flow.kind)
  <2>1. Review(flow.kind) \in 1 .. 5 /\ flow.step \in 1 .. Review(flow.kind)
    BY <1>1, PlanFacts DEF StepInPlan, Steps
  <2>2. flow.step # Review(flow.kind)
    BY <1>1, <2>1, PlanFacts DEF Name
  <2> QED BY <2>1, <2>2 DEF Steps
<1>4. 0 \in 0 .. MaxWrong
  BY BoundsAreNat
<1> DEFINE f1 == [flow EXCEPT !.step = flow.step + 1]
           f2 == [f1 EXCEPT !.wrong = 0]
           f3 == [f2 EXCEPT !.touchedAt = clock]
<1>5. f1 \in FlowRecords
  BY <1>3, SMT DEF FlowRecords
<1>6. f2 \in FlowRecords
  <2> HIDE DEF f1
  <2> QED BY <1>4, <1>5, SMT DEF FlowRecords
<1>7. f3 \in FlowRecords
  <2> HIDE DEF f2
  <2> QED BY <1>6, SMT DEF FlowRecords
<1>8. Next1 = f3
  BY Zenon DEF Next1
<1>9. /\ Next1.id = flow.id /\ Next1.kind = flow.kind /\ Next1.step = flow.step + 1 /\ Next1.shown = flow.shown
  BY SMT DEF Next1, FlowRecords
<1> HIDE DEF f3
<1> QED BY <1>3, <1>7, <1>8, <1>9

\* render sets what the step's message offers, and keeps the flow's place and subject.
LEMMA ClearedIs ==
  ASSUME flow \in FlowRecords, clock \in 0 .. MaxClock
  PROVE  /\ Cleared \in FlowRecords
         /\ Cleared.id = flow.id /\ Cleared.kind = flow.kind /\ Cleared.step = flow.step /\ Cleared.shown = flow.shown
         /\ Cleared.awaiting = (Name = "contract") /\ Cleared.custom = (Name \in Typed)
         /\ Cleared.options = (Name \notin {"contract", "review"})
<1> DEFINE a == Name = "contract"
           c == Name \in Typed
           o == Name \notin {"contract", "review"}
           t == IF Name = "review" THEN clock ELSE None
<1>1. a \in BOOLEAN /\ c \in BOOLEAN /\ o \in BOOLEAN
  OBVIOUS
<1>2. t \in None .. MaxClock
  BY BoundsAreNat DEF None
<1>3. Cleared = [[[[flow EXCEPT !.awaiting = a] EXCEPT !.custom = c] EXCEPT !.options = o] EXCEPT !.confirmAt = t]
  BY Zenon DEF Cleared
<1> HIDE DEF a, c, o, t
<1> DEFINE f1 == [flow EXCEPT !.awaiting = a]
           f2 == [f1 EXCEPT !.custom = c]
           f3 == [f2 EXCEPT !.options = o]
           f4 == [f3 EXCEPT !.confirmAt = t]
<1>4. f1 \in FlowRecords /\ f1.id = flow.id /\ f1.kind = flow.kind /\ f1.step = flow.step /\ f1.shown = flow.shown /\ f1.awaiting = a
  BY <1>1, SMT DEF FlowRecords
<1>5. f2 \in FlowRecords /\ f2.id = flow.id /\ f2.kind = flow.kind /\ f2.step = flow.step /\ f2.shown = flow.shown /\ f2.awaiting = a /\ f2.custom = c
  <2> HIDE DEF f1
  <2> QED BY <1>1, <1>4, SMT DEF FlowRecords
<1>6. f3 \in FlowRecords /\ f3.id = flow.id /\ f3.kind = flow.kind /\ f3.step = flow.step /\ f3.shown = flow.shown /\ f3.awaiting = a /\ f3.custom = c
      /\ f3.options = o
  <2> HIDE DEF f2
  <2> QED BY <1>1, <1>5, SMT DEF FlowRecords
<1>7. f4 \in FlowRecords /\ f4.id = flow.id /\ f4.kind = flow.kind /\ f4.step = flow.step /\ f4.shown = flow.shown /\ f4.awaiting = a /\ f4.custom = c
      /\ f4.options = o
  <2> HIDE DEF f3
  <2> QED BY <1>2, <1>6, SMT DEF FlowRecords
<1> HIDE DEF f4
<1>8. Cleared = f4
  BY <1>3 DEF f4
<1>9. a = (Name = "contract") /\ c = (Name \in Typed) /\ o = (Name \notin {"contract", "review"})
  BY DEF a, c, o
<1> QED BY <1>7, <1>8, <1>9, Zenon

\* A new flow is a flow.
LEMMA MadeIs ==
  ASSUME flow \in FlowRecords, flow.id < MaxFlows, clock \in 0 .. MaxClock, NEW k \in AllKinds, NEW s \in Steps, NEW o \in BOOLEAN
  PROVE  Made(k, s, o) \in FlowRecords
<1>1. flow.id + 1 \in 0 .. MaxFlows /\ 0 \in 0 .. MaxWrong /\ None \in None .. MaxClock
  BY BoundsAreNat DEF FlowRecords, None
<1>2. Nothing \in Shown
  BY DEF Nothing, Shown, None
<1> QED BY <1>1, <1>2, Zenon DEF FlowRecords, Made

\* The fields of a flow that is touched, ...
LEMMA TouchedIs ==
  ASSUME NEW f \in FlowRecords, NEW c \in 0 .. MaxClock
  PROVE  LET g == [f EXCEPT !.touchedAt = c] IN
         /\ g \in FlowRecords
         /\ g.id = f.id /\ g.kind = f.kind /\ g.step = f.step /\ g.shown = f.shown
         /\ g.awaiting = f.awaiting /\ g.custom = f.custom /\ g.options = f.options
<1> DEFINE g == [f EXCEPT !.touchedAt = c]
<1>1. g \in FlowRecords
  BY SMT DEF FlowRecords
<1>2. g.id = f.id /\ g.kind = f.kind /\ g.step = f.step /\ g.shown = f.shown
  BY SMT DEF FlowRecords
<1>3. g.awaiting = f.awaiting /\ g.custom = f.custom /\ g.options = f.options
  BY SMT DEF FlowRecords
<1> QED BY <1>1, <1>2, <1>3, Zenon

\* ... whose wrong entries are counted, ...
LEMMA WrongIs ==
  ASSUME NEW f \in FlowRecords, NEW w \in 0 .. MaxWrong
  PROVE  LET g == [f EXCEPT !.wrong = w] IN
         /\ g \in FlowRecords
         /\ g.id = f.id /\ g.kind = f.kind /\ g.step = f.step /\ g.shown = f.shown
         /\ g.awaiting = f.awaiting /\ g.custom = f.custom /\ g.options = f.options
<1> DEFINE g == [f EXCEPT !.wrong = w]
<1>1. g \in FlowRecords
  BY SMT DEF FlowRecords
<1>2. g.id = f.id /\ g.kind = f.kind /\ g.step = f.step /\ g.shown = f.shown
  BY SMT DEF FlowRecords
<1>3. g.awaiting = f.awaiting /\ g.custom = f.custom /\ g.options = f.options
  BY SMT DEF FlowRecords
<1> QED BY <1>1, <1>2, <1>3, Zenon

\* The first n of a set of wallets are at most n of its members.
LEMMA FirstFew ==
  ASSUME NEW X \in SUBSET Wallets, NEW n \in Nat
  PROVE  FirstOf(X, n) \subseteq X /\ Cardinality(FirstOf(X, n)) \in Nat /\ Cardinality(FirstOf(X, n)) <= n
<1> DEFINE F == FirstOf(X, n)
<1>1. F \subseteq X
  BY DEF FirstOf
<1>2. IsFiniteSet(Wallets)
  BY BoundsAreNat, FS_Interval DEF Wallets
<1>3. IsFiniteSet(F)
  BY <1>1, <1>2, FS_Subset
<1>4. Cardinality(F) \in Nat
  BY <1>3, FS_CardinalityType
<1>5. CASE F = {}
  BY <1>1, <1>4, <1>5, FS_EmptySet
<1>6. CASE F # {}
  <2>1. F \subseteq 0 .. NWallets
    <3> HIDE DEF F
    <3> QED BY <1>1, BoundsAreNat DEF Wallets
  <2>2. PICK m \in F : \A x \in F : x <= m
    <3> HIDE DEF F
    <3> QED BY <1>6, <2>1, BoundsAreNat, LargestOf
  <2>3. F \subseteq {v \in X : v < m} \cup {m}
    BY <1>1, <2>1, <2>2
  <2>4. IsFiniteSet({v \in X : v < m})
    BY <1>2, FS_Subset
  <2>5. Cardinality({v \in X : v < m}) < n
    BY <2>2 DEF FirstOf
  <2>6. /\ Cardinality({v \in X : v < m}) \in Nat
        /\ IsFiniteSet({v \in X : v < m} \cup {m})
        /\ Cardinality({v \in X : v < m} \cup {m}) = Cardinality({v \in X : v < m}) + 1
    <3> DEFINE B == {v \in X : v < m}
    <3>1. m \notin B
      BY <1>1, <2>1, <2>2
    <3> HIDE DEF B
    <3>2. IsFiniteSet(B)
      BY <2>4 DEF B
    <3>3. Cardinality(B) \in Nat /\ IsFiniteSet(B \cup {m}) /\ Cardinality(B \cup {m}) = Cardinality(B) + 1
      BY <3>1, <3>2, FS_AddElement, FS_CardinalityType
    <3> QED BY <3>3 DEF B
  <2>7. Cardinality(F) <= Cardinality({v \in X : v < m} \cup {m})
    BY <2>3, <2>6, FS_Subset
  <2> QED BY <1>1, <1>4, <2>5, <2>6, <2>7
<1> QED BY <1>5, <1>6

\* ... that waits for text or no longer does, ...
LEMMA AwaitingIs ==
  ASSUME NEW f \in FlowRecords, NEW a \in BOOLEAN
  PROVE  LET g == [f EXCEPT !.awaiting = a] IN
         /\ g \in FlowRecords
         /\ g.id = f.id /\ g.kind = f.kind /\ g.step = f.step /\ g.shown = f.shown
         /\ g.awaiting = a /\ g.custom = f.custom /\ g.options = f.options
<1> DEFINE g == [f EXCEPT !.awaiting = a]
<1>1. g \in FlowRecords
  BY SMT DEF FlowRecords
<1>2. g.id = f.id /\ g.kind = f.kind /\ g.step = f.step /\ g.shown = f.shown
  BY SMT DEF FlowRecords
<1>3. g.awaiting = a /\ g.custom = f.custom /\ g.options = f.options
  BY SMT DEF FlowRecords
<1> QED BY <1>1, <1>2, <1>3, Zenon

\* ... that shows something else, ...
LEMMA ShownIs ==
  ASSUME NEW f \in FlowRecords, NEW a \in Shown
  PROVE  LET g == [f EXCEPT !.shown = a] IN
         /\ g \in FlowRecords
         /\ g.id = f.id /\ g.kind = f.kind /\ g.step = f.step /\ g.shown = a
         /\ g.awaiting = f.awaiting /\ g.custom = f.custom /\ g.options = f.options
<1> DEFINE g == [f EXCEPT !.shown = a]
<1>1. g \in FlowRecords
  BY SMT DEF FlowRecords
<1>2. g.id = f.id /\ g.kind = f.kind /\ g.step = f.step /\ g.shown = a
  BY SMT DEF FlowRecords
<1>3. g.awaiting = f.awaiting /\ g.custom = f.custom /\ g.options = f.options
  BY SMT DEF FlowRecords
<1> QED BY <1>1, <1>2, <1>3, Zenon

\* ... or that takes no typed answer.
LEMMA CustomIs ==
  ASSUME NEW f \in FlowRecords
  PROVE  LET g == [f EXCEPT !.custom = FALSE] IN
         /\ g \in FlowRecords
         /\ g.id = f.id /\ g.kind = f.kind /\ g.step = f.step /\ g.shown = f.shown
         /\ g.custom = FALSE /\ g.awaiting = f.awaiting
<1>0. PICK c \in BOOLEAN : c = FALSE
  OBVIOUS
<1> DEFINE g == [f EXCEPT !.custom = c]
<1>1. g \in FlowRecords
  BY SMT DEF FlowRecords
<1>2. g.id = f.id /\ g.kind = f.kind /\ g.step = f.step /\ g.shown = f.shown
  BY SMT DEF FlowRecords
<1>3. g.custom = c /\ g.awaiting = f.awaiting
  BY SMT DEF FlowRecords
<1> QED BY <1>0, <1>1, <1>2, <1>3, Zenon

\* No handler runs.
LEMMA IdleIs == Idle \in Jobs /\ Idle.at = "idle" /\ ~Idle.late /\ Idle.age = 0 /\ 0 <= ConfirmLife
BY BoundsAreNat DEF Idle, Jobs

\* The current flow is at a step of its plan.
LEMMA InvParts ==
  ASSUME FlowsInv
  PROVE  /\ flow \in FlowRecords /\ clock \in 0 .. MaxClock /\ StepInPlan
         /\ flow.kind \in AllKinds /\ flow.step \in Steps /\ flow.step \in 1 .. Review(flow.kind) /\ flow.id \in 0 .. MaxFlows
<1>1. flow \in FlowRecords /\ clock \in 0 .. MaxClock /\ StepInPlan
  BY DEF FlowsInv, FlowsTypeOK, FlowRecords
<1>2. flow.kind \in AllKinds /\ flow.step \in Steps /\ flow.id \in 0 .. MaxFlows
  BY <1>1 DEF FlowRecords
<1>3. flow.step \in 1 .. Review(flow.kind)
  BY <1>1, <1>2, PlanFacts DEF StepInPlan, Steps
<1> QED BY <1>1, <1>2, <1>3

\* Steps that leave the flow and its buttons alone, and end a job or the flow at most.
LEMMA RestKeeps ==
  ASSUME FlowsInv, UNCHANGED <<flow, buttons, act, acted>>, FlowsTypeOK', Engagements', open' \in {open, FALSE},
         job' = job \/ (job' = Idle /\ (job.at # "render" \/ ~open')),
         dead' = dead \/ (dead' = flow.id /\ open' = FALSE)
  PROVE  FlowsInv'
<1>1. open' => open
  OBVIOUS
<1>2. (StepInPlan /\ ButtonsKnown /\ ShownFits)'
  BY DEF FlowsInv, StepInPlan, ButtonsKnown, ShownFits, Name
<1>3. (FlowMade /\ Controls /\ RightJob)'
  BY <1>1 DEF FlowsInv, FlowMade, Controls, RightJob, Name, Lasts, Idle
<1>4. ActsOnce'
  BY <1>1 DEF FlowsInv, ActsOnce, CanAct, Idle
<1>5. (KillHeeded /\ SoonEnough)'
  BY <1>1, InvParts, BoundsAreNat DEF FlowsInv, KillHeeded, SoonEnough, Idle
<1>6. (FlowsSafety /\ ActsAsReviewed)'
  BY DEF FlowsInv, FlowsSafety, ActsAsReviewed
<1> QED BY <1>2, <1>3, <1>4, <1>5, <1>6 DEF FlowsInv

\* The system rests.
LEMMA NothingKeeps ==
  ASSUME FlowsInv, UNCHANGED flowVars
  PROVE  FlowsInv'
<1>1. FlowsTypeOK' /\ Engagements'
  BY DEF FlowsInv, flowVars, FlowsTypeOK, Engagements
<1> QED BY <1>1, RestKeeps DEF flowVars, FlowsInv, FlowsTypeOK

\* The clock moves on.
LEMMA TimeKeeps ==
  ASSUME FlowsInv, TimePasses
  PROVE  FlowsInv'
<1>1. FlowsTypeOK' /\ Engagements'
  BY BoundsAreNat DEF TimePasses, world, observers, FlowsInv, FlowsTypeOK, Engagements
<1> QED BY <1>1, RestKeeps DEF TimePasses, observers

\* The chain, the records and the campaign move on.
LEMMA WorldKeeps ==
  ASSUME FlowsInv, WorldMoves
  PROVE  FlowsInv'
<1>1. fact' \in [record : Nat, wallet : Nat, campaign : Nat, inflight : BOOLEAN, conflict : BOOLEAN, minting : BOOLEAN]
  <2> DEFINE Facts == [record : Nat, wallet : Nat, campaign : Nat, inflight : BOOLEAN, conflict : BOOLEAN, minting : BOOLEAN]
  <2>1. fact \in Facts
    BY DEF FlowsInv, FlowsTypeOK
  <2>2. \A r \in {0, fact.record + 1} : [fact EXCEPT !.record = r] \in Facts
    BY <2>1
  <2>3. [fact EXCEPT !.wallet = fact.wallet + 1] \in Facts /\ [fact EXCEPT !.campaign = fact.campaign + 1] \in Facts
    BY <2>1
  <2>4. [fact EXCEPT !.inflight = ~fact.inflight] \in Facts
    BY <2>1
  <2>5. [fact EXCEPT !.conflict = ~fact.conflict] \in Facts
    BY <2>1
  <2>6. [fact EXCEPT !.minting = ~fact.minting] \in Facts
    BY <2>1
  <2> HIDE DEF Facts
  <2>7. fact' \in Facts
    BY <2>1, <2>2, <2>3, <2>4, <2>5, <2>6, Zenon DEF WorldMoves
  <2> QED BY <2>7 DEF Facts
<1>2. able' \in SUBSET Wallets /\ tested' \in SUBSET Wallets
  BY DEF WorldMoves, FlowsInv, FlowsTypeOK
<1>3. changes' \in 0 .. MaxChanges /\ Engagements'
  BY BoundsAreNat DEF WorldMoves, Change, observers, FlowsInv, FlowsTypeOK, Engagements
<1>4. FlowsTypeOK'
  BY <1>1, <1>2, <1>3 DEF WorldMoves, observers, FlowsInv, FlowsTypeOK
<1> QED BY <1>3, <1>4, RestKeeps DEF WorldMoves, observers

\* The kill switch is moved on the host.
LEMMA KillMovesKeeps ==
  ASSUME FlowsInv, KillMoves
  PROVE  FlowsInv'
<1>1. /\ kill.flag \in 0 .. MaxChanges + 1 /\ kill.file \in BOOLEAN /\ kill \in [flag : 0 .. MaxChanges + 1, file : BOOLEAN]
      /\ engaged \in 0 .. MaxChanges + 1 /\ changes \in 0 .. MaxChanges
      /\ kill.flag <= engaged /\ engaged + changes <= MaxChanges + 1 /\ changes > 0 /\ changes' = changes - 1
  BY DEF KillMoves, Change, FlowsInv, FlowsTypeOK, Engagements
<1>2. \/ kill' = [kill EXCEPT !.file = ~kill.file] /\ engaged' = engaged
      \/ kill' = [flag |-> 0, file |-> FALSE] /\ engaged' = engaged
      \/ kill' = [flag |-> engaged + 1, file |-> TRUE] /\ engaged' = engaged + 1
  BY Zenon DEF KillMoves
<1>3. /\ kill' \in [flag : 0 .. MaxChanges + 1, file : BOOLEAN] /\ engaged' \in 0 .. MaxChanges + 1 /\ changes' \in 0 .. MaxChanges
      /\ kill'.flag <= engaged' /\ engaged' + changes' <= MaxChanges + 1
  <2>1. CASE kill' = [kill EXCEPT !.file = ~kill.file] /\ engaged' = engaged
    <3>1. kill' \in [flag : 0 .. MaxChanges + 1, file : BOOLEAN] /\ kill'.flag = kill.flag
      BY <1>1, <2>1
    <3> QED BY <1>1, <2>1, <3>1, BoundsAreNat
  <2>2. CASE kill' = [flag |-> 0, file |-> FALSE] /\ engaged' = engaged
    <3>1. kill' \in [flag : 0 .. MaxChanges + 1, file : BOOLEAN] /\ kill'.flag = 0
      BY <2>2, BoundsAreNat
    <3> QED BY <1>1, <2>2, <3>1, BoundsAreNat
  <2>3. CASE kill' = [flag |-> engaged + 1, file |-> TRUE] /\ engaged' = engaged + 1
    <3>1. kill' \in [flag : 0 .. MaxChanges + 1, file : BOOLEAN] /\ kill'.flag = engaged + 1
      BY <1>1, <2>3, BoundsAreNat
    <3> QED BY <1>1, <2>3, <3>1, BoundsAreNat
  <2> QED BY <1>2, <2>1, <2>2, <2>3
<1>4. FlowsTypeOK' /\ Engagements'
  BY <1>3 DEF KillMoves, FlowsInv, FlowsTypeOK, Engagements
<1> QED BY <1>4, RestKeeps DEF KillMoves

\* A kill, from the chat or from elsewhere.
LEMMA KilledKeeps ==
  ASSUME FlowsInv, Killed
  PROVE  FlowsInv'
<1>1. /\ kill' \in [flag : 0 .. MaxChanges + 1, file : BOOLEAN] /\ engaged' \in 0 .. MaxChanges + 1 /\ changes' \in 0 .. MaxChanges
      /\ Engagements'
  BY BoundsAreNat, SMTT(30) DEF Killed, Change, FlowsInv, FlowsTypeOK, Engagements
<1>2. PICK chat \in BOOLEAN : open' = (open /\ ~chat) /\ dead' = IF chat THEN flow.id ELSE dead
  BY DEF Killed, FlowKilled
<1>3. open' \in {open, FALSE} /\ (dead' = dead \/ (dead' = flow.id /\ open' = FALSE))
  BY <1>2 DEF FlowsInv, FlowsTypeOK
<1>a. dead' \in 0 .. MaxFlows
  BY <1>3, InvParts DEF FlowsInv, FlowsTypeOK
<1>b. open' \in BOOLEAN /\ (open' => flow.id > 0)
  BY <1>2 DEF FlowsInv, FlowsTypeOK
<1>4. FlowsTypeOK'
  BY <1>1, <1>a, <1>b DEF Killed, FlowsInv, FlowsTypeOK
<1> QED BY <1>1, <1>3, <1>4, RestKeeps DEF Killed

\* The owner cancels.
LEMMA CancelKeeps ==
  ASSUME FlowsInv, Cancel
  PROVE  FlowsInv'
<1>1. FlowsTypeOK'
  BY DEF Cancel, world, observers, FlowsInv, FlowsTypeOK
<1>2. Engagements'
  BY DEF Cancel, world, observers, FlowsInv, Engagements
<1> QED BY <1>1, <1>2, RestKeeps DEF Cancel, observers

\* An action that gives up, with the world as it is.
LEMMA NotDoneKeeps ==
  ASSUME FlowsInv, NotDone, job.at # "render"
  PROVE  FlowsInv'
<1>1. FlowsTypeOK' /\ Engagements'
  BY IdleIs DEF NotDone, Same, world, observers, FlowsInv, FlowsTypeOK, Engagements
<1> QED BY <1>1, RestKeeps DEF NotDone, Same, observers, FlowsInv, FlowsTypeOK

\* Another command: the flow no longer waits for text.
LEMMA InterruptKeeps ==
  ASSUME FlowsInv, Interrupt
  PROVE  FlowsInv'
<1>0. flow' = [flow EXCEPT !.awaiting = FALSE] /\ flow \in FlowRecords
  BY InvParts DEF Interrupt
<1>1. /\ flow' \in FlowRecords /\ flow'.id = flow.id /\ flow'.kind = flow.kind /\ flow'.step = flow.step /\ flow'.shown = flow.shown
      /\ flow'.awaiting = FALSE /\ flow'.custom = flow.custom /\ flow'.options = flow.options
  BY <1>0, AwaitingIs
<1>2. Name' = Name
  BY <1>1 DEF Name
<1>3. FlowsTypeOK'
  BY <1>1 DEF Interrupt, world, observers, FlowsInv, FlowsTypeOK, FlowRecords
<1>4. (StepInPlan /\ ButtonsKnown /\ ShownFits)'
  BY <1>1, <1>2 DEF Interrupt, FlowsInv, StepInPlan, ButtonsKnown, ShownFits
<1>5. (FlowMade /\ Controls /\ RightJob)'
  BY <1>1, <1>2 DEF Interrupt, FlowsInv, FlowMade, Controls, RightJob
<1>6. (ActsOnce /\ KillHeeded /\ SoonEnough /\ Engagements)'
  BY <1>1 DEF Interrupt, world, observers, FlowsInv, ActsOnce, CanAct, KillHeeded, SoonEnough, Engagements
<1>7. (FlowsSafety /\ ActsAsReviewed)'
  BY <1>3 DEF Interrupt, world, observers, FlowsInv, FlowsSafety, ActsAsReviewed
<1> QED BY <1>3, <1>4, <1>5, <1>6, <1>7 DEF FlowsInv

\* The invariant's parts about the flow and its handler.
FlowParts == StepInPlan /\ FlowMade /\ Controls /\ RightJob /\ ButtonsKnown /\ ActsOnce /\ KillHeeded /\ SoonEnough /\ ShownFits

\* A new flow takes the place of the last one.
LEMMA MakeKeeps ==
  ASSUME FlowsInv, NEW k \in AllKinds, NEW s \in 1 .. Review(k), NEW o \in BOOLEAN, Make(k, s, o), k = "prepare" => s = 1,
         job'.at = "render" \/ (job'.at = "first" /\ k = "simulate" /\ s = Review(k)), ~job'.late, job'.age <= ConfirmLife,
         acted' \subseteq acted \cup {flow.id}, dead' = dead, flow.id > 0 \/ acted' = acted
  PROVE  /\ FlowParts'
         /\ flow' \in FlowRecords /\ open' = TRUE /\ flow'.id > 0 /\ buttons' \subseteq [id : 1 .. MaxFlows, step : Steps, key : Keys]
         /\ acted' \subseteq 1 .. MaxFlows
<1>0. flow.id \in Nat /\ flow.id < MaxFlows /\ s \in Steps /\ Review(k) \in Steps
  BY InvParts, PlanFacts DEF Make, Steps
<1>1. /\ flow'.id = flow.id + 1 /\ flow'.kind = k /\ flow'.step = s /\ flow'.awaiting = FALSE /\ flow'.custom = FALSE
      /\ flow'.options = FALSE /\ flow'.shown = Nothing
  BY DEF Make, Made
<1>2. flow' \in FlowRecords
  BY <1>0, InvParts, MadeIs DEF Make
<1>3. Name' = Plan[k][s]
  BY <1>1 DEF Name
<1>4. (StepInPlan /\ FlowMade /\ Controls)'
  BY <1>0, <1>1 DEF StepInPlan, FlowMade, Controls
<1>5. RightJob'
  BY <1>1, <1>3, PlanFacts DEF RightJob, Lasts
<1>6. /\ \A b \in buttons : b.id \in Int /\ b.id <= flow.id
      /\ buttons' \subseteq buttons /\ buttons \subseteq [id : 1 .. MaxFlows, step : Steps, key : Keys]
  BY DEF Make, FlowsInv, FlowsTypeOK, ButtonsKnown
<1>7. ButtonsKnown'
  BY <1>0, <1>1, <1>6 DEF ButtonsKnown
<1>8. acted' \subseteq 1 .. flow.id
  BY <1>0 DEF FlowsInv, ActsOnce
<1>9. ActsOnce'
  BY <1>0, <1>1, <1>8 DEF ActsOnce
<1>10. dead \in Int /\ dead <= flow.id
  BY DEF FlowsInv, FlowsTypeOK, KillHeeded
<1>11. (KillHeeded /\ SoonEnough)'
  BY <1>0, <1>1, <1>10 DEF KillHeeded, SoonEnough
<1>12. k = "prepare" => Plan[k][s] # "review"
  BY PlanFacts
<1>13. ShownFits'
  BY <1>1, <1>3, <1>12 DEF ShownFits, Nothing
<1>14. open' = TRUE /\ flow'.id > 0
  BY <1>0, <1>1 DEF Make
<1>15. acted' \subseteq 1 .. MaxFlows
  BY <1>0, <1>8, BoundsAreNat
<1> QED BY <1>2, <1>4, <1>5, <1>6, <1>7, <1>9, <1>11, <1>13, <1>14, <1>15 DEF FlowParts

\* A command begins a flow.
LEMMA BeginKeeps ==
  ASSUME FlowsInv, NEW k \in Kinds, Begin(k)
  PROVE  FlowsInv'
<1>1. k \in AllKinds
  BY FlowKindsAssumption
<1>2. PICK s \in {1, Review(k)} :
        Make(k, s, FALSE) /\ (s = Review(k) => k \in {"release", "revoke", "watchaccept", "simulate", "cancel"})
  BY DEF Begin
<1>3. s \in 1 .. Review(k) /\ (k = "prepare" => s = 1)
  BY <1>1, <1>2, PlanFacts DEF Steps
<1>4. job' = [job EXCEPT !.at = "render"] /\ job.late = FALSE /\ job.age <= ConfirmLife /\ job \in Jobs
  BY DEF Begin, At, FlowsInv, FlowsTypeOK, KillHeeded, SoonEnough, Jobs
<1>5. job' \in Jobs /\ job'.at = "render" /\ ~job'.late /\ job'.age <= ConfirmLife
  BY <1>4 DEF Jobs
<1>6. UNCHANGED <<clock, world, acted, dead, engaged, changes>> /\ act' = NoAct
  BY DEF Begin
<1>7. /\ FlowParts'
      /\ flow' \in FlowRecords /\ open' = TRUE /\ flow'.id > 0 /\ buttons' \subseteq [id : 1 .. MaxFlows, step : Steps, key : Keys]
      /\ acted' \subseteq 1 .. MaxFlows
  BY <1>1, <1>2, <1>3, <1>5, <1>6, MakeKeeps
<1>8. FlowsTypeOK'
  BY <1>5, <1>6, <1>7 DEF FlowsInv, FlowsTypeOK, Jobs, FlowRecords, world
<1>9. (Engagements /\ FlowsSafety /\ ActsAsReviewed)'
  BY <1>6, <1>8, BoundsAreNat DEF FlowsInv, Engagements, FlowsSafety, ActsAsReviewed, NoAct, Nothing, world
<1> QED BY <1>7, <1>8, <1>9 DEF FlowsInv, FlowParts

\* A typed /simulate acts at once.
LEMMA RunSimulateKeeps ==
  ASSUME FlowsInv, RunSimulate
  PROVE  FlowsInv'
<1>1. "simulate" \in AllKinds
  BY FlowKindsAssumption DEF RunSimulate
<1>3. Review("simulate") \in 1 .. Review("simulate")
  BY <1>1, PlanFacts DEF Steps
<1>4. job' = [job EXCEPT !.at = "first"] /\ job.late = FALSE /\ job.age <= ConfirmLife /\ job \in Jobs
  BY DEF RunSimulate, At, FlowsInv, FlowsTypeOK, KillHeeded, SoonEnough, Jobs
<1>5. job' \in Jobs /\ job'.at = "first" /\ ~job'.late /\ job'.age <= ConfirmLife
  BY <1>4 DEF Jobs
<1>6. UNCHANGED <<clock, world, acted, dead, engaged, changes>> /\ act' = NoAct /\ Make("simulate", Review("simulate"), FALSE)
  BY DEF RunSimulate
<1>7. /\ FlowParts'
      /\ flow' \in FlowRecords /\ open' = TRUE /\ flow'.id > 0 /\ buttons' \subseteq [id : 1 .. MaxFlows, step : Steps, key : Keys]
      /\ acted' \subseteq 1 .. MaxFlows
  BY <1>1, <1>3, <1>5, <1>6, MakeKeeps
<1>8. FlowsTypeOK'
  BY <1>5, <1>6, <1>7 DEF FlowsInv, FlowsTypeOK, Jobs, FlowRecords, world
<1>9. (Engagements /\ FlowsSafety /\ ActsAsReviewed)'
  BY <1>6, <1>8, BoundsAreNat DEF FlowsInv, Engagements, FlowsSafety, ActsAsReviewed, NoAct, Nothing, world
<1> QED BY <1>7, <1>8, <1>9 DEF FlowsInv, FlowParts

\* A step of the flow that is not the last tap's action.
LEMMA StepKeeps ==
  ASSUME FlowsInv, flow' \in FlowRecords, flow'.id = flow.id, flow'.kind = flow.kind, flow'.step \in 1 .. Review(flow.kind),
         open' \in BOOLEAN, open' => open, job' \in Jobs, ~job'.late, job'.age <= ConfirmLife, Controls', RightJob', ShownFits',
         flow.id > 0, job'.at \in {"idle", "render", "take", "preview"},
         NEW B \in SUBSET buttons', buttons' \subseteq buttons \cup B,
         \A b \in B : b.id = flow.id /\ b.step \in Steps /\ b.key \in Keys /\ (b.key = "go" => b.step = Review(flow.kind) /\ flow.kind # "cancel"),
         B \subseteq [id : 1 .. MaxFlows, step : Steps, key : Keys],
         UNCHANGED <<clock, world, observers, changes>>
  PROVE  FlowsInv'
<1>1. FlowsTypeOK'
  <2>1. buttons' \subseteq [id : 1 .. MaxFlows, step : Steps, key : Keys]
    BY DEF FlowsInv, FlowsTypeOK
  <2> QED BY <2>1 DEF FlowsInv, FlowsTypeOK, Jobs, FlowRecords, world, observers
<1>2. (StepInPlan /\ FlowMade)'
  BY InvParts, PlanFacts DEF StepInPlan, FlowMade, Steps
<1>3. ButtonsKnown'
  BY InvParts DEF FlowsInv, ButtonsKnown
<1>4. ActsOnce'
  BY DEF FlowsInv, ActsOnce, CanAct, observers
<1>5. (KillHeeded /\ SoonEnough /\ Engagements)'
  BY DEF FlowsInv, KillHeeded, SoonEnough, Engagements, world, observers
<1>6. (FlowsSafety /\ ActsAsReviewed)'
  BY <1>1 DEF FlowsInv, FlowsSafety, ActsAsReviewed, observers
<1> QED BY <1>1, <1>2, <1>3, <1>4, <1>5, <1>6 DEF FlowsInv

\* The same, with the buttons as they are.
LEMMA StaysKeeps ==
  ASSUME FlowsInv, flow' \in FlowRecords, flow'.id = flow.id, flow'.kind = flow.kind, flow'.step \in 1 .. Review(flow.kind),
         open' \in BOOLEAN, open' => open, job' \in Jobs, ~job'.late, job'.age <= ConfirmLife, Controls', RightJob', ShownFits',
         flow.id > 0, job'.at \in {"idle", "render", "take", "preview"},
         UNCHANGED <<buttons, clock, world, observers, changes>>
  PROVE  FlowsInv'
<1> DEFINE B == {}
<1>1. /\ B \in SUBSET buttons' /\ buttons' \subseteq buttons \cup B /\ B \subseteq [id : 1 .. MaxFlows, step : Steps, key : Keys]
      /\ \A b \in B : b.id = flow.id /\ b.step \in Steps /\ b.key \in Keys /\ (b.key = "go" => b.step = Review(flow.kind) /\ flow.kind # "cancel")
  OBVIOUS
<1> HIDE DEF B
<1> QED BY <1>1, StepKeeps

\* The handler that runs keeps what it knows of its tap from step to step.
LEMMA JobParts ==
  ASSUME FlowsInv, NEW j \in {"idle", "render", "take", "preview", "first", "second", "third"}
  PROVE  /\ job \in Jobs /\ ~job.late /\ job.age <= ConfirmLife
         /\ At(j) \in Jobs /\ At(j).at = j /\ ~At(j).late /\ At(j).age <= ConfirmLife
<1>1. job \in Jobs /\ ~job.late /\ job.age <= ConfirmLife
  BY DEF FlowsInv, FlowsTypeOK, KillHeeded, SoonEnough, Jobs
<1>2. At(j) \in Jobs /\ At(j).at = j /\ At(j).late = job.late /\ At(j).age = job.age
  BY <1>1 DEF At, Jobs
<1> QED BY <1>1, <1>2

\* A button of the current step.
LEMMA ButtonIs ==
  ASSUME FlowsInv, flow.id > 0, NEW k \in Keys
  PROVE  LET b == Button(flow.step, k) IN
         b.id = flow.id /\ b.step = flow.step /\ b.key = k /\ b \in [id : 1 .. MaxFlows, step : Steps, key : Keys]
BY InvParts DEF Button

\* A step is shown.
LEMMA RenderKeeps ==
  ASSUME FlowsInv, Render
  PROVE  FlowsInv'
<1>1. flow.id > 0 /\ job' = Idle /\ UNCHANGED <<clock, world, observers, changes>> /\ job.at = "render"
  BY DEF Render, FlowsInv, FlowMade
<1>2. RightJob'
  BY <1>1, IdleIs DEF RightJob, Lasts
<1>3. CASE ShowNothing
  <2>1. FlowsTypeOK'
    BY <1>1, <1>3, IdleIs DEF ShowNothing, FlowsInv, FlowsTypeOK, Jobs, world, observers
  <2>2. Engagements'
    BY <1>1 DEF FlowsInv, Engagements, world, observers
  <2> QED BY <1>1, <1>3, <2>1, <2>2, RestKeeps DEF ShowNothing, observers
<1>4. CASE ShowStep
  <2> DEFINE K == (IF Name = "contract" THEN {"bk"} ELSE {"o"}) \cup (IF Name \in Typed THEN {"cu"} ELSE {})
             B == {Button(flow.step, k) : k \in K}
  <2>1. K \subseteq Keys \ {"go"}
    BY DEF Keys
  <2>2. flow' = Cleared /\ buttons' = buttons \cup B /\ open' = open /\ Name # "review"
    BY <1>4 DEF ShowStep
  <2>3. /\ flow' \in FlowRecords /\ flow'.id = flow.id /\ flow'.kind = flow.kind /\ flow'.step = flow.step /\ flow'.shown = flow.shown
        /\ flow'.awaiting = (Name = "contract") /\ flow'.custom = (Name \in Typed) /\ flow'.options = (Name \notin {"contract", "review"})
    BY <2>2, InvParts, ClearedIs
  <2>4. Name' = Name
    BY <2>3 DEF Name
  <2>5. (Controls /\ ShownFits)'
    BY <2>3, <2>4 DEF FlowsInv, Controls, ShownFits
  <2> HIDE DEF K
  <2>6. \A b \in B : /\ b.id = flow.id /\ b.step \in Steps /\ b.key \in Keys /\ b.key # "go"
                     /\ b \in [id : 1 .. MaxFlows, step : Steps, key : Keys]
    BY <1>1, <2>1, InvParts, ButtonIs
  <2>7. open' \in BOOLEAN
    BY <2>2 DEF FlowsInv, FlowsTypeOK
  <2> HIDE DEF B
  <2>8. B \in SUBSET buttons' /\ buttons' \subseteq buttons \cup B /\ B \subseteq [id : 1 .. MaxFlows, step : Steps, key : Keys]
    BY <2>2, <2>6
  <2> QED BY <1>1, <1>2, <2>2, <2>3, <2>5, <2>6, <2>7, <2>8, InvParts, IdleIs, StepKeeps
<1>5. CASE ShowReview
  <2> DEFINE B == IF flow.kind \in {"release", "revoke"} /\ Phrase = None THEN {} ELSE {Button(flow.step, "go")}
  <2>1. flow' = [Cleared EXCEPT !.shown = Reviewed] /\ buttons' = buttons \cup B /\ open' = open /\ Name = "review"
    BY <1>5 DEF ShowReview
  <2>2. Reviewed \in Shown /\ Reviewed.wallets = flow.shown.wallets /\ (flow.kind = "prepare" => Reviewed = flow.shown)
    <3>1. flow.shown \in Shown
      BY InvParts DEF FlowRecords
    <3>2. flow.kind \in ReadsAtReview => Phrase \in Nat \cup {None}
      <4>1. fact.record \in Nat /\ fact.wallet \in Nat /\ kill.flag \in Nat
        BY BoundsAreNat DEF FlowsInv, FlowsTypeOK
      <4> QED BY <4>1 DEF Phrase, ReadsAtReview, ReleasePhrase, RevokePhrase, AcceptPhrase, KillReleasePhrase, FileOnly
    <3>3. CASE flow.kind \in ReadsAtReview
      <4>1. Reviewed = [flow.shown EXCEPT !.what = Phrase]
        BY <3>3 DEF Reviewed
      <4> HIDE DEF Reviewed
      <4> QED BY <3>1, <3>2, <3>3, <4>1 DEF Shown, ReadsAtReview
    <3>4. CASE flow.kind \notin ReadsAtReview
      BY <3>1, <3>4 DEF Reviewed
    <3> QED BY <3>3, <3>4
  <2>3. /\ flow' \in FlowRecords /\ flow'.id = flow.id /\ flow'.kind = flow.kind /\ flow'.step = flow.step /\ flow'.shown = Reviewed
        /\ flow'.awaiting = (Name = "contract") /\ flow'.custom = (Name \in Typed) /\ flow'.options = (Name \notin {"contract", "review"})
    BY <2>1, <2>2, InvParts, ClearedIs, ShownIs
  <2>4. Name' = Name
    BY <2>3 DEF Name
  <2>5. Controls'
    BY <2>1, <2>3, <2>4 DEF Controls, Typed
  <2>6. ShownFits'
    BY <2>2, <2>3, <2>4 DEF FlowsInv, ShownFits
  <2>7. flow.step = Review(flow.kind) /\ flow.kind # "cancel"
    BY <2>1, InvParts, PlanFacts DEF Name
  <2>8. \A b \in B : /\ b.id = flow.id /\ b.step \in Steps /\ b.key \in Keys /\ b.step = Review(flow.kind)
                     /\ b \in [id : 1 .. MaxFlows, step : Steps, key : Keys]
    BY <1>1, <2>7, InvParts, ButtonIs DEF Keys
  <2>9. open' \in BOOLEAN
    BY <2>1 DEF FlowsInv, FlowsTypeOK
  <2> HIDE DEF B
  <2>10. B \in SUBSET buttons' /\ buttons' \subseteq buttons \cup B /\ B \subseteq [id : 1 .. MaxFlows, step : Steps, key : Keys]
    BY <2>1, <2>8
  <2> QED BY <1>1, <1>2, <2>1, <2>3, <2>5, <2>6, <2>7, <2>8, <2>9, <2>10, InvParts, IdleIs, StepKeeps
<1> QED BY <1>3, <1>4, <1>5 DEF Render

\* A step's list cannot be read.
LEMMA RenderFailsKeeps ==
  ASSUME FlowsInv, RenderFails
  PROVE  FlowsInv'
<1>1. flow.id > 0 /\ job' = Idle /\ UNCHANGED <<clock, world, observers, changes>> /\ job.at = "render" /\ buttons' = buttons
  BY DEF RenderFails, FlowsInv, FlowMade
<1>2. RightJob'
  BY <1>1, IdleIs DEF RightJob, Lasts
<1> DEFINE o == Cleared.options /\ flow.options
<1>3. o \in BOOLEAN /\ (o => Name \notin {"contract", "review"})
  BY InvParts, ClearedIs
<1>4. flow' = [[Cleared EXCEPT !.custom = FALSE] EXCEPT !.options = o]
  BY Zenon DEF RenderFails
<1> HIDE DEF o
<1> DEFINE f1 == [Cleared EXCEPT !.custom = FALSE]
<1>5. Cleared \in FlowRecords
  BY InvParts, ClearedIs
<1>6. f1 \in FlowRecords
  BY <1>5, CustomIs
<1>7. f1.id = Cleared.id /\ f1.kind = Cleared.kind /\ f1.step = Cleared.step /\ f1.shown = Cleared.shown /\ f1.custom = FALSE
      /\ f1.awaiting = Cleared.awaiting
  BY <1>5, CustomIs
<1> HIDE DEF f1
<1>8. flow' = [f1 EXCEPT !.options = o]
  BY <1>4 DEF f1
<1>9. flow' \in FlowRecords
  BY <1>3, <1>6, <1>8, SMT DEF FlowRecords
<1>10. /\ flow'.id = f1.id /\ flow'.kind = f1.kind /\ flow'.step = f1.step /\ flow'.shown = f1.shown /\ flow'.custom = f1.custom
       /\ flow'.awaiting = f1.awaiting /\ flow'.options = o
  BY <1>6, <1>8, SMT DEF FlowRecords
<1>11. /\ flow'.id = flow.id /\ flow'.kind = flow.kind /\ flow'.step = flow.step /\ flow'.shown = flow.shown
       /\ flow'.awaiting = (Name = "contract") /\ flow'.custom = FALSE /\ flow'.options = o
  BY <1>7, <1>10, InvParts, ClearedIs
<1>12. Name' = Name
  BY <1>11 DEF Name
<1>13. (Controls /\ ShownFits)'
  BY <1>3, <1>11, <1>12 DEF FlowsInv, Controls, ShownFits
<1>14. open' \in BOOLEAN /\ (open' => open)
  BY DEF RenderFails
<1> QED BY <1>1, <1>2, <1>9, <1>11, <1>13, <1>14, InvParts, IdleIs, StaysKeeps

\* An accepted answer of a flow whose controls fit its step.
LEMMA AnswerKeeps ==
  ASSUME FlowsInv, AnswerTaken, UNCHANGED <<open, buttons, clock, world, observers, changes>>, open, job.at = "idle"
  PROVE  FlowsInv'
<1>1. flow.id > 0 /\ open' = open
  BY DEF FlowsInv, FlowsTypeOK
<1>2. Name # "pick" /\ Name # "review"
  BY DEF AnswerTaken
<1>3. /\ Next1 \in FlowRecords
      /\ Next1.id = flow.id /\ Next1.kind = flow.kind /\ Next1.step = flow.step + 1 /\ Next1.shown = flow.shown
      /\ flow.step + 1 \in 1 .. Review(flow.kind)
  BY <1>2, InvParts, NextIs
\* The flow goes on to its next step.
<1>4. ASSUME flow' \in FlowRecords, flow'.id = flow.id, flow'.kind = flow.kind, flow'.step = flow.step + 1, job' = At("render"),
             flow'.shown.wallets = flow.shown.wallets \/ flow.kind \in {"request", "fire", "schedule"}, Name # "count"
      PROVE  FlowsInv'
  <2>1. Controls' /\ RightJob'
    BY <1>4, JobParts DEF Controls, RightJob, Lasts
  <2>2. flow.kind = "prepare" => Name' # "review"
    BY <1>3, <1>4, InvParts, PlanFacts DEF Name
  <2>3. ShownFits'
    BY <1>4, <2>2 DEF FlowsInv, ShownFits
  <2> QED BY <1>1, <1>3, <1>4, <2>1, <2>3, JobParts, StaysKeeps
\* The answer is looked at first.
<1>5. ASSUME NEW j \in {"take", "preview"}, flow' = [flow EXCEPT !.touchedAt = clock], job' = At(j),
             j = "take" => Name \in {"contract", "quantity", "count"}, j = "preview" => Name \in {"fee", "window"}
      PROVE  FlowsInv'
  <2>1. /\ flow' \in FlowRecords /\ flow'.id = flow.id /\ flow'.kind = flow.kind /\ flow'.step = flow.step /\ flow'.shown = flow.shown
        /\ flow'.awaiting = flow.awaiting /\ flow'.custom = flow.custom /\ flow'.options = flow.options
    BY <1>5, InvParts, TouchedIs
  <2>2. Name' = Name
    BY <2>1 DEF Name
  <2>3. (Controls /\ RightJob /\ ShownFits)'
    BY <1>5, <2>1, <2>2, JobParts DEF FlowsInv, Controls, RightJob, Lasts, ShownFits
  <2> QED BY <1>1, <1>5, <2>1, <2>3, InvParts, JobParts, StaysKeeps
<1>6. CASE Name = "chain" /\ (\E l2 \in {FALSE, flow.kind = "prepare"} : flow' = [Next1 EXCEPT !.robinhood = l2]) /\ job' = At("render")
  <2>1. PICK l2 \in BOOLEAN : flow' = [Next1 EXCEPT !.robinhood = l2]
    BY <1>6
  <2>2. flow' \in FlowRecords
    BY <1>3, <2>1, SMT DEF FlowRecords
  <2>3. flow'.id = Next1.id /\ flow'.kind = Next1.kind /\ flow'.step = Next1.step /\ flow'.shown = Next1.shown
    BY <1>3, <2>1, SMT DEF FlowRecords
  <2> QED BY <1>3, <1>4, <1>6, <2>2, <2>3
<1>7. CASE (Name \in {"campaign", "wallet"} \/ (Name = "fee" /\ flow.kind = "schedule")) /\ flow' = Next1 /\ job' = At("render")
  BY <1>3, <1>4, <1>7
<1>8. CASE /\ Name = "wallets"
           /\ \E S \in {Wallets, FirstOf(TestedWallets, Sized)} \cup {{w} : w \in Wallets} :
                /\ flow.kind = "request" => S \subseteq tested /\ Cardinality(S) <= Sized
                /\ flow' = [Next1 EXCEPT !.shown.wallets = S]
           /\ job' = At("render")
  <2>1. TestedWallets \subseteq Wallets
    BY DEF TestedWallets, FlowsInv, FlowsTypeOK
  <2>2. PICK S \in SUBSET Wallets : flow' = [Next1 EXCEPT !.shown.wallets = S]
    BY <1>8, <2>1 DEF FirstOf
  <2>3. flow' = [Next1 EXCEPT !.shown = [Next1.shown EXCEPT !.wallets = S]]
    BY <2>2
  <2>4. Next1.shown \in Shown /\ [Next1.shown EXCEPT !.wallets = S] \in Shown
    <3>1. Next1.shown \in Shown
      BY <1>3 DEF FlowRecords
    <3> QED BY <3>1 DEF Shown
  <2>5. flow' \in FlowRecords /\ flow'.id = Next1.id /\ flow'.kind = Next1.kind /\ flow'.step = Next1.step
    BY <1>3, <2>3, <2>4, ShownIs
  <2>6. flow.kind \in {"request", "fire", "schedule"}
    BY <1>8, InvParts, PlanFacts DEF Name
  <2> QED BY <1>3, <1>4, <1>8, <2>5, <2>6
<1>9. CASE (Name = "window" \/ (Name = "fee" /\ flow.kind # "schedule")) /\ flow' = [flow EXCEPT !.touchedAt = clock] /\ job' = At("preview")
  BY <1>5, <1>9
<1>10. CASE Name \in {"contract", "quantity", "count"} /\ flow' = [flow EXCEPT !.touchedAt = clock] /\ job' = At("take")
  BY <1>5, <1>10
<1> QED BY <1>6, <1>7, <1>8, <1>9, <1>10 DEF AnswerTaken

\* The owner types.
LEMMA TextKeeps ==
  ASSUME FlowsInv, Text
  PROVE  FlowsInv'
<1>1. open /\ job.at = "idle" /\ flow.id > 0 /\ UNCHANGED <<open, buttons, clock, world, observers, changes>>
  BY DEF Text, Live, FlowsInv, FlowsTypeOK
<1>2. CASE AnswerTaken
  BY <1>1, <1>2, AnswerKeeps
<1>3. CASE LET third == flow.wrong + 1 >= MaxWrong
           IN  /\ flow' = [flow EXCEPT !.wrong = IF third THEN 0 ELSE @ + 1, !.touchedAt = clock]
               /\ job' = IF third THEN At("render") ELSE job
  <2> DEFINE w == IF flow.wrong + 1 >= MaxWrong THEN 0 ELSE flow.wrong + 1
             f1 == [flow EXCEPT !.wrong = w]
  <2>1. w \in 0 .. MaxWrong
    <3>1. flow.wrong \in 0 .. MaxWrong
      BY InvParts DEF FlowRecords
    <3> QED BY <3>1, BoundsAreNat
  <2>2. flow' = [f1 EXCEPT !.touchedAt = clock]
    BY <1>3, Zenon
  <2>3. f1 \in FlowRecords /\ f1.id = flow.id /\ f1.kind = flow.kind /\ f1.step = flow.step /\ f1.shown = flow.shown
        /\ f1.awaiting = flow.awaiting /\ f1.custom = flow.custom /\ f1.options = flow.options
    <3> HIDE DEF w
    <3> QED BY <2>1, InvParts, WrongIs
  <2> HIDE DEF f1, w
  <2>5. flow' \in FlowRecords
    BY <2>2, <2>3, InvParts, TouchedIs
  <2>6. flow'.id = f1.id /\ flow'.kind = f1.kind /\ flow'.step = f1.step /\ flow'.shown = f1.shown
        /\ flow'.awaiting = f1.awaiting /\ flow'.custom = f1.custom /\ flow'.options = f1.options
    BY <2>2, <2>3, InvParts, TouchedIs
  <2>7. Name' = Name
    BY <2>3, <2>6 DEF Name
  <2>8. job' \in {job, At("render")}
    BY <1>3
  <2>9. (Controls /\ RightJob /\ ShownFits)'
    BY <1>1, <2>3, <2>6, <2>7, <2>8, JobParts DEF FlowsInv, Controls, RightJob, Lasts, ShownFits
  <2>10. job' \in Jobs /\ ~job'.late /\ job'.age <= ConfirmLife /\ job'.at \in {"idle", "render", "take", "preview"}
    BY <1>1, <2>8, JobParts
  <2> QED BY <1>1, <2>3, <2>5, <2>6, <2>9, <2>10, InvParts, StaysKeeps
<1> QED BY <1>2, <1>3 DEF Text

\* The owner taps a button, of the current step or an older one.
LEMMA TapKeeps ==
  ASSUME FlowsInv, Tap
  PROVE  FlowsInv'
<1>1. job.at = "idle" /\ UNCHANGED <<clock, world, observers, changes>>
  BY DEF Tap
<1>2. PICK b \in buttons : (Current(b) /\ Press(b)) \/ Ignored
  BY DEF Tap
<1>3. CASE Ignored
  <2>1. open' \in BOOLEAN /\ (open' => open) /\ open' \in {open, FALSE}
    BY <1>3 DEF Ignored, Live, FlowsInv, FlowsTypeOK
  <2>2. FlowsTypeOK'
    BY <1>1, <1>3, <2>1 DEF Ignored, world, observers, FlowsInv, FlowsTypeOK
  <2>3. Engagements'
    BY <1>1 DEF FlowsInv, Engagements, world, observers
  <2> QED BY <1>1, <1>3, <2>1, <2>2, <2>3, RestKeeps DEF Ignored, observers
<1> SUFFICES ASSUME Current(b), Press(b) PROVE FlowsInv'
  BY <1>2, <1>3
<1>4. open /\ flow.id > 0 /\ b.id = flow.id /\ b.step = flow.step
  BY DEF Current, Live, FlowsInv, FlowsTypeOK
<1>5. ASSUME NEW f \in FlowRecords, flow' = f, f.id = flow.id, f.kind = flow.kind, f.step = flow.step, f.shown = flow.shown,
             job' \in {job, At("render")}
      PROVE  Name' = Name /\ RightJob' /\ ShownFits' /\ job' \in Jobs /\ ~job'.late /\ job'.age <= ConfirmLife
             /\ job'.at \in {"idle", "render", "take", "preview"}
  <2>1. Name' = Name
    BY <1>5 DEF Name
  <2>2. job' \in Jobs /\ ~job'.late /\ job'.age <= ConfirmLife /\ job'.at \in {"idle", "render"}
    BY <1>1, <1>5, JobParts
  <2>3. RightJob' /\ ShownFits'
    BY <1>5, <2>1, <2>2 DEF FlowsInv, RightJob, Lasts, ShownFits
  <2> QED BY <2>1, <2>2, <2>3
<1>6. CASE Back
  <2>1. flow' \in FlowRecords /\ flow'.id = flow.id /\ flow'.kind = flow.kind /\ flow'.step = flow.step /\ flow'.shown = flow.shown
    BY <1>6, InvParts, TouchedIs DEF Back
  <2>2. job' = At("render") /\ UNCHANGED <<open, buttons>>
    BY <1>6 DEF Back
  <2>3. Controls'
    BY <2>2, JobParts DEF Controls
  <2> QED BY <1>1, <1>4, <1>5, <2>1, <2>2, <2>3, InvParts, StaysKeeps
<1>7. CASE Custom
  <2> DEFINE a == flow.awaiting \/ flow.custom
             f1 == [flow EXCEPT !.awaiting = a]
             B == IF flow.custom THEN {Button(flow.step, "bk")} ELSE {}
  <2>1. a \in BOOLEAN
    OBVIOUS
  <2>2. flow' = [f1 EXCEPT !.touchedAt = clock]
    BY <1>7, Zenon DEF Custom
  <2>3. f1 \in FlowRecords /\ f1.id = flow.id /\ f1.kind = flow.kind /\ f1.step = flow.step /\ f1.shown = flow.shown
        /\ f1.awaiting = a /\ f1.custom = flow.custom /\ f1.options = flow.options
    <3> HIDE DEF a
    <3> QED BY <2>1, InvParts, AwaitingIs
  <2> HIDE DEF f1
  <2>4. flow' \in FlowRecords /\ flow'.id = flow.id /\ flow'.kind = flow.kind /\ flow'.step = flow.step /\ flow'.shown = flow.shown
        /\ flow'.awaiting = a /\ flow'.custom = flow.custom /\ flow'.options = flow.options
    <3> HIDE DEF a
    <3> QED BY <2>2, <2>3, InvParts, TouchedIs
  <2>5. job' = job /\ open' = open /\ buttons' = buttons \cup B
    BY <1>7 DEF Custom
  <2>6. Name' = Name
    BY <2>4 DEF Name
  <2>7. Controls'
    BY <1>1, <1>4, <2>4, <2>5, <2>6 DEF FlowsInv, Controls
  <2>8. \A x \in B : /\ x.id = flow.id /\ x.step \in Steps /\ x.key \in Keys /\ x.key # "go"
                     /\ x \in [id : 1 .. MaxFlows, step : Steps, key : Keys]
    <3>1. "bk" \in Keys \ {"go"}
      BY DEF Keys
    <3> QED BY <1>4, <3>1, InvParts, ButtonIs
  <2> HIDE DEF B
  <2>9. B \in SUBSET buttons' /\ buttons' \subseteq buttons \cup B /\ B \subseteq [id : 1 .. MaxFlows, step : Steps, key : Keys]
    BY <2>5, <2>8
  <2> HIDE DEF a
  <2>10. RightJob' /\ ShownFits' /\ job' \in Jobs /\ ~job'.late /\ job'.age <= ConfirmLife
             /\ job'.at \in {"idle", "render", "take", "preview"}
    BY <1>5, <2>4, <2>5
  <2> QED BY <1>1, <1>4, <2>4, <2>5, <2>7, <2>8, <2>9, <2>10, InvParts, StepKeeps
<1>8. CASE Pick
  <2>1. open' = FALSE /\ job' = Idle /\ UNCHANGED <<flow, buttons>>
    BY <1>8 DEF Pick
  <2>2. FlowsTypeOK'
    BY <1>1, <2>1, IdleIs DEF world, observers, FlowsInv, FlowsTypeOK, Jobs
  <2>3. Engagements'
    BY <1>1 DEF FlowsInv, Engagements, world, observers
  <2> QED BY <1>1, <2>1, <2>2, <2>3, RestKeeps DEF observers
<1>9. CASE AnswerTaken /\ UNCHANGED <<open, buttons>>
  BY <1>1, <1>4, <1>9, AnswerKeeps
<1>10. CASE flow' = [flow EXCEPT !.touchedAt = clock] /\ UNCHANGED <<open, job, buttons>>
  <2>1. /\ flow' \in FlowRecords /\ flow'.id = flow.id /\ flow'.kind = flow.kind /\ flow'.step = flow.step /\ flow'.shown = flow.shown
        /\ flow'.awaiting = flow.awaiting /\ flow'.custom = flow.custom /\ flow'.options = flow.options
    BY <1>10, InvParts, TouchedIs
  <2>2. job' = job /\ UNCHANGED <<open, buttons>>
    BY <1>10
  <2>3. Name' = Name
    BY <2>1 DEF Name
  <2>4. Controls'
    BY <1>1, <1>4, <2>1, <2>2, <2>3 DEF FlowsInv, Controls
  <2> QED BY <1>1, <1>4, <1>5, <2>1, <2>2, <2>4, InvParts, StaysKeeps
<1>11. CASE b.key = "go" /\ Finish
  <2>1. flow.step = Review(flow.kind) /\ flow.kind # "cancel" /\ Name = "review"
    <3>1. flow.step = Review(flow.kind) /\ flow.kind # "cancel"
      BY <1>4, <1>11 DEF FlowsInv, ButtonsKnown
    <3> QED BY <3>1, InvParts, PlanFacts DEF Name
  <2>2. /\ flow' \in FlowRecords /\ flow'.id = flow.id /\ flow'.kind = flow.kind /\ flow'.step = flow.step /\ flow'.shown = flow.shown
    BY <1>11, InvParts, TouchedIs DEF Finish
  <2>3. open' = FALSE /\ UNCHANGED buttons
    BY <1>11 DEF Finish, Spent
  <2>4. job' \in Jobs /\ ~job'.late /\ job'.age <= ConfirmLife /\ job'.at \in {"idle", "first"}
    <3>1. CASE ~InTime
      BY <1>11, <3>1, IdleIs DEF Finish
    <3>2. CASE InTime
      <4>1. job' = [at |-> "first", chained |-> FALSE, late |-> flow.id <= dead, age |-> clock - flow.confirmAt]
        BY <1>11, <3>2 DEF Finish
      <4>2. flow.confirmAt \in Int /\ clock \in Int /\ clock - flow.confirmAt <= ConfirmLife
        BY <3>2, InvParts, BoundsAreNat DEF InTime, FlowRecords, None
      <4>3. ~(flow.id <= dead)
        BY <1>4, InvParts DEF FlowsInv, KillHeeded, FlowsTypeOK
      <4> DEFINE l == flow.id <= dead
                 g == clock - flow.confirmAt
      <4>4. l = FALSE /\ g \in Int /\ g <= ConfirmLife
        BY <4>2, <4>3
      <4>5. job' = [at |-> "first", chained |-> FALSE, late |-> l, age |-> g]
        BY <4>1
      <4> HIDE DEF l, g
      <4> QED BY <4>4, <4>5 DEF Jobs
    <3> QED BY <3>1, <3>2
  <2>5. Name' = Name
    BY <2>2 DEF Name
  <2>6. FlowsTypeOK'
    BY <1>1, <2>2, <2>3, <2>4 DEF FlowsInv, FlowsTypeOK, Jobs, FlowRecords, world, observers
  <2>7. (StepInPlan /\ ButtonsKnown /\ ShownFits)'
    BY <2>2, <2>3, <2>5 DEF FlowsInv, StepInPlan, ButtonsKnown, ShownFits
  <2>8. (FlowMade /\ Controls /\ RightJob)'
    BY <1>4, <2>1, <2>2, <2>3, <2>4, <2>5 DEF FlowMade, Controls, RightJob, Lasts
  <2>9. (ActsOnce /\ KillHeeded /\ SoonEnough /\ Engagements)'
    BY <1>1, <1>4, <2>2, <2>3, <2>4 DEF FlowsInv, ActsOnce, CanAct, KillHeeded, SoonEnough, Engagements, world, observers
  <2>10. (FlowsSafety /\ ActsAsReviewed)'
    BY <1>1, <2>6 DEF FlowsInv, FlowsSafety, ActsAsReviewed, observers
  <2> QED BY <2>6, <2>7, <2>8, <2>9, <2>10 DEF FlowsInv
<1> QED BY <1>6, <1>7, <1>8, <1>9, <1>10, <1>11 DEF Press, Choose

\* The ready wallets are some of those asked about, and the plan's phrase counts them.
LEMMA ReadyFacts ==
  ASSUME FlowsInv, NEW S \in SUBSET Wallets
  PROVE  /\ ReadyOf(S) \subseteq S /\ IsFiniteSet(S) /\ Cardinality(S) \in Nat
         /\ Cardinality(ReadyOf(S)) \in Nat /\ Cardinality(ReadyOf(S)) <= Cardinality(S)
         /\ PlanPhrase(S) \in Nat \cup {None}
         /\ PlanPhrase(S) # None => PlanPhrase(S) = Cardinality(ReadyOf(S))
<1>1. ReadyOf(S) \subseteq S
  BY DEF ReadyOf, RobinhoodReady, EvmReady, DryRunDrop, CheckDrop
<1>2. IsFiniteSet(Wallets)
  BY BoundsAreNat, FS_Interval DEF Wallets
<1>3. IsFiniteSet(S)
  BY <1>2, FS_Subset
<1>4. IsFiniteSet(ReadyOf(S)) /\ Cardinality(ReadyOf(S)) <= Cardinality(S)
  BY <1>1, <1>3, FS_Subset
<1>5. Cardinality(S) \in Nat /\ Cardinality(ReadyOf(S)) \in Nat
  BY <1>3, <1>4, FS_CardinalityType
<1> QED BY <1>1, <1>3, <1>4, <1>5 DEF PlanPhrase

\* A part of a set of wallets that is as large as the set is the set.
LEMMA SameSize ==
  ASSUME NEW S \in SUBSET Wallets, NEW T \in SUBSET S, Cardinality(S) = Cardinality(T)
  PROVE  S = T
<1>0. IsFiniteSet(Wallets)
  BY BoundsAreNat, FS_Interval DEF Wallets
<1>1. IsFiniteSet(S)
  BY <1>0, FS_Subset
<1> QED BY <1>1, FS_Subset

\* The plan made for the first n ready wallets names n wallets, if n of them are ready in it.
LEMMA PlanNamesSelected ==
  ASSUME FlowsInv, NEW n \in 1 .. NWallets, PlanPhrase(GuidedPlan(n)) # None,
         Cardinality(FirstOf(ReadyOf(GuidedPlan(n)), n)) = n
  PROVE  PlanPhrase(GuidedPlan(n)) = n
<1> DEFINE R == ReadyOf(Wallets)
           S == GuidedPlan(n)
           T == FirstOf(ReadyOf(S), n)
<1>1. n \in Nat /\ Wallets \in SUBSET Wallets
  BY BoundsAreNat
<1>2. R \subseteq Wallets /\ Cardinality(R) \in Nat
  BY <1>1, ReadyFacts
<1>3. Cardinality(FirstOf(R, n)) <= n /\ FirstOf(R, n) \subseteq R
  BY <1>1, <1>2, FirstFew
<1>4. S \in SUBSET Wallets
  BY <1>2, <1>3 DEF GuidedPlan
<1>5. ReadyOf(S) \subseteq S /\ Cardinality(ReadyOf(S)) \in Nat /\ Cardinality(ReadyOf(S)) <= Cardinality(S) /\ Cardinality(S) \in Nat
      /\ IsFiniteSet(S)
  BY <1>4, ReadyFacts
<1>6. T \subseteq ReadyOf(S)
  BY <1>1, <1>4, <1>5, FirstFew
<1>7. IsFiniteSet(ReadyOf(S))
  BY <1>5, FS_Subset
<1>8. Cardinality(T) <= Cardinality(ReadyOf(S)) /\ Cardinality(T) = n
  BY <1>6, <1>7, FS_Subset
<1>9. CASE n < Cardinality(R)
  <2>1. S = FirstOf(R, n)
    BY <1>9 DEF GuidedPlan
  <2>2. Cardinality(S) <= n
    BY <1>3, <2>1
  <2>3. Cardinality(ReadyOf(S)) = n
    <3> HIDE DEF R, S, T
    <3> QED BY <1>1, <1>5, <1>8, <2>2
  <2> QED BY <1>4, <2>3, ReadyFacts
<1>10. CASE ~(n < Cardinality(R))
  <2>1. S = Wallets
    BY <1>10 DEF GuidedPlan
  <2>2. Cardinality(ReadyOf(S)) <= n
    <3>1. Cardinality(ReadyOf(S)) = Cardinality(R)
      BY <2>1
    <3> HIDE DEF R, S
    <3> QED BY <1>1, <1>2, <1>10, <3>1
  <2>3. Cardinality(ReadyOf(S)) = n
    <3> HIDE DEF R, S, T
    <3> QED BY <1>1, <1>5, <1>8, <2>2
  <2> QED BY <1>4, <2>3, ReadyFacts
<1> QED BY <1>9, <1>10

\* The plan is read again for an answer.
LEMMA TakeKeeps ==
  ASSUME FlowsInv, Take
  PROVE  FlowsInv'
<1>1. /\ job.at = "take" /\ flow.id > 0 /\ UNCHANGED <<open, buttons, clock, world, observers, changes>>
      /\ Name \in {"contract", "quantity", "count"} /\ open' = open /\ open' \in BOOLEAN
  BY DEF Take, FlowsInv, FlowMade, RightJob, FlowsTypeOK
<1>2. PICK n \in 1 .. NWallets :
       LET S == IF Name = "count" THEN GuidedPlan(n) ELSE Wallets
           selected == FirstOf(ReadyOf(S), n)
       IN  IF PlanPhrase(S) # None /\ (Name = "count" => Cardinality(selected) = n)
           THEN flow' = [Next1 EXCEPT !.shown = [what |-> PlanPhrase(S), wallets |-> selected]] /\ job' = At("render")
           ELSE flow' = [flow EXCEPT !.awaiting = (Name = "contract")] /\ job' = IF Name = "quantity" THEN At("render") ELSE Idle
  BY DEF Take
<1> DEFINE S == IF Name = "count" THEN GuidedPlan(n) ELSE Wallets
           selected == FirstOf(ReadyOf(S), n)
           shows == [what |-> PlanPhrase(S), wallets |-> selected]
<1>3. CASE PlanPhrase(S) # None /\ (Name = "count" => Cardinality(selected) = n)
  <2>1. flow' = [Next1 EXCEPT !.shown = shows] /\ job' = At("render")
    BY <1>2, <1>3
  <2>2. S \in SUBSET Wallets
    <3>1. n \in Nat /\ Wallets \in SUBSET Wallets
      BY BoundsAreNat
    <3>2. ReadyOf(Wallets) \subseteq Wallets
      BY <3>1, ReadyFacts
    <3>3. FirstOf(ReadyOf(Wallets), n) \subseteq Wallets
      BY <3>2 DEF FirstOf
    <3> QED BY <3>3 DEF GuidedPlan
  <2>3. selected \in SUBSET Wallets
    <3> HIDE DEF S
    <3>1. ReadyOf(S) \subseteq Wallets
      BY <2>2, ReadyFacts
    <3> QED BY <3>1 DEF FirstOf
  <2>4. PlanPhrase(S) \in Nat \cup {None}
    <3> HIDE DEF S
    <3> QED BY <2>2, ReadyFacts
  <2>5. shows \in Shown /\ shows.what = PlanPhrase(S) /\ shows.wallets = selected
    <3> HIDE DEF S, selected
    <3> QED BY <2>3, <2>4 DEF Shown
  <2>6. Name = "count" => shows.what = Cardinality(shows.wallets)
    <3>1. SUFFICES ASSUME Name = "count" PROVE PlanPhrase(S) = n /\ Cardinality(selected) = n
      BY <2>5
    <3>2. S = GuidedPlan(n)
      BY <3>1
    <3> QED BY <1>3, <3>1, <3>2, PlanNamesSelected
  <2> HIDE DEF shows
  <2>7. /\ Next1 \in FlowRecords
        /\ Next1.id = flow.id /\ Next1.kind = flow.kind /\ Next1.step = flow.step + 1
        /\ flow.step + 1 \in 1 .. Review(flow.kind)
    BY <1>1, InvParts, NextIs
  <2>8. flow' \in FlowRecords /\ flow'.id = flow.id /\ flow'.kind = flow.kind /\ flow'.step = flow.step + 1 /\ flow'.shown = shows
    BY <2>1, <2>5, <2>7, ShownIs
  <2>9. flow.kind = "prepare" /\ (Name' = "review" => Name = "count")
    BY <1>1, <2>7, <2>8, InvParts, PlanFacts DEF Name
  <2>10. (Controls /\ RightJob)'
    BY <2>1, JobParts DEF Controls, RightJob, Lasts
  <2>11. ShownFits'
    BY <2>6, <2>8, <2>9 DEF ShownFits
  <2> QED BY <1>1, <2>1, <2>7, <2>8, <2>10, <2>11, JobParts, StaysKeeps
<1>4. CASE ~(PlanPhrase(S) # None /\ (Name = "count" => Cardinality(selected) = n))
  <2>1. flow' = [flow EXCEPT !.awaiting = (Name = "contract")] /\ job' = IF Name = "quantity" THEN At("render") ELSE Idle
    BY <1>2, <1>4
  <2> HIDE DEF S, selected, shows
  <2> DEFINE a == Name = "contract"
  <2>2. a \in BOOLEAN /\ flow' = [flow EXCEPT !.awaiting = a]
    BY <2>1
  <2> HIDE DEF a
  <2>3. /\ flow' \in FlowRecords /\ flow'.id = flow.id /\ flow'.kind = flow.kind /\ flow'.step = flow.step /\ flow'.shown = flow.shown
        /\ flow'.awaiting = a /\ flow'.custom = flow.custom /\ flow'.options = flow.options
    BY <2>2, InvParts, AwaitingIs
  <2>4. Name' = Name
    BY <2>3 DEF Name
  <2>5. job' \in Jobs /\ ~job'.late /\ job'.age <= ConfirmLife /\ job'.at \in {"idle", "render"}
    BY <2>1, JobParts, IdleIs
  <2>6. (Controls /\ RightJob /\ ShownFits)'
    <3>1. a => Name \in Typed \cup {"contract"}
      BY DEF a
    <3>2. Controls'
      BY <1>1, <2>3, <2>4, <3>1 DEF FlowsInv, Controls
    <3>3. RightJob'
      BY <2>5 DEF RightJob, Lasts
    <3>4. ShownFits'
      BY <2>3, <2>4 DEF FlowsInv, ShownFits
    <3> QED BY <3>2, <3>3, <3>4
  <2> QED BY <1>1, <2>3, <2>5, <2>6, InvParts, StaysKeeps
<1> QED BY <1>3, <1>4

\* The preview becomes the summary.
LEMMA PreviewKeeps ==
  ASSUME FlowsInv, Preview
  PROVE  FlowsInv'
<1>1. /\ job.at = "preview" /\ flow.id > 0 /\ UNCHANGED <<open, buttons, clock, world, observers, changes>>
      /\ Name \in {"fee", "window"} /\ open' = open /\ open' \in BOOLEAN
  BY DEF Preview, FlowsInv, FlowMade, RightJob, FlowsTypeOK
<1>2. flow.kind \in {"request", "fire", "schedule"}
  BY <1>1, InvParts, PlanFacts DEF Name
<1> DEFINE p == CASE flow.kind = "fire" -> FirePreview(flow.shown.wallets)
                  [] flow.kind = "schedule" -> SchedulePreview(flow.shown.wallets)
                  [] OTHER -> RequestPreview(flow.shown.wallets)
<1>3. p \in Shown
  <2>1. flow.shown.wallets \in SUBSET Wallets /\ flow.shown.wallets \cap able \in SUBSET Wallets
    BY InvParts DEF FlowRecords, Shown
  <2>2. CampaignDigest \in Nat \cup {None} /\ RequestPhrase(flow.shown.wallets) \in Nat \cup {None}
    BY DEF CampaignDigest, RequestPhrase, LiveRequestPhrase, FlowsInv, FlowsTypeOK
  <2> QED BY <2>1, <2>2 DEF FirePreview, SchedulePreview, RequestPreview, Shown
<1>4. IF p.what = None THEN flow' = flow /\ job' = Idle
      ELSE flow' = [Next1 EXCEPT !.shown = p, !.step = Review(flow.kind)] /\ job' = At("render")
  BY DEF Preview
<1> HIDE DEF p
<1>5. CASE flow' = flow /\ job' = Idle
  <2>1. Name' = Name
    BY <1>5 DEF Name
  <2>2. (Controls /\ RightJob /\ ShownFits)'
    BY <1>1, <1>5, <2>1, IdleIs DEF FlowsInv, Controls, RightJob, Lasts, ShownFits
  <2> QED BY <1>1, <1>5, <2>2, InvParts, IdleIs, StaysKeeps
<1>6. CASE flow' = [Next1 EXCEPT !.shown = p, !.step = Review(flow.kind)] /\ job' = At("render")
  <2>1. /\ Next1 \in FlowRecords
        /\ Next1.id = flow.id /\ Next1.kind = flow.kind
    BY <1>1, InvParts, NextIs
  <2> DEFINE f1 == [Next1 EXCEPT !.shown = p]
  <2>2. f1 \in FlowRecords /\ f1.id = flow.id /\ f1.kind = flow.kind
    BY <1>3, <2>1, ShownIs
  <2>3. flow' = [f1 EXCEPT !.step = Review(flow.kind)]
    BY <1>6, Zenon
  <2>4. Review(flow.kind) \in Steps
    BY InvParts, PlanFacts
  <2> HIDE DEF f1
  <2>5. flow' \in FlowRecords
    BY <2>2, <2>3, <2>4, SMT DEF FlowRecords
  <2>6. flow'.id = flow.id /\ flow'.kind = flow.kind /\ flow'.step = Review(flow.kind)
    BY <2>2, <2>3, SMT DEF FlowRecords
  <2>7. (Controls /\ RightJob /\ ShownFits)'
    BY <1>2, <1>6, <2>6, JobParts DEF Controls, RightJob, Lasts, ShownFits
  <2>8. Review(flow.kind) \in 1 .. Review(flow.kind)
    BY <2>4 DEF Steps
  <2> QED BY <1>1, <1>6, <2>5, <2>6, <2>7, <2>8, JobParts, StaysKeeps
<1> QED BY <1>4, <1>5, <1>6

\* What the last tap's actions leave of the flow's own part of the state.
FlowState ==
  /\ FlowParts
  /\ flow \in FlowRecords /\ open \in BOOLEAN /\ (open => flow.id > 0) /\ job \in Jobs
  /\ buttons \subseteq [id : 1 .. MaxFlows, step : Steps, key : Keys]
  /\ acted \subseteq 1 .. MaxFlows

\* The invariant implies it.
LEMMA FlowStateNow ==
  ASSUME FlowsInv
  PROVE  FlowState
BY DEF FlowsInv, FlowsTypeOK, FlowState, FlowParts, FlowRecords, Jobs

\* The flow's part, the world's part and the observed action make up the invariant.
LEMMA Together ==
  ASSUME FlowsInv, FlowState', Engagements', UNCHANGED <<clock, able, dead, engaged, changes>>, tested' \in SUBSET Wallets,
         kill' \in [flag : 0 .. MaxChanges + 1, file : BOOLEAN],
         fact' \in [record : Nat, wallet : Nat, campaign : Nat, inflight : BOOLEAN, conflict : BOOLEAN, minting : BOOLEAN],
         (~act.again /\ ~act.late /\ act.age <= ConfirmLife /\ ActsAsReviewed)'
  PROVE  FlowsInv'
<1>1. FlowsTypeOK'
  BY DEF FlowsInv, FlowsTypeOK, FlowState, FlowRecords, Jobs
<1> QED BY <1>1 DEF FlowState, FlowParts, FlowsInv, FlowsSafety

\* What the invariant says of the world and of the last act.
LEMMA WorldNow ==
  ASSUME FlowsInv
  PROVE  /\ tested \in SUBSET Wallets /\ kill \in [flag : 0 .. MaxChanges + 1, file : BOOLEAN] /\ Engagements
         /\ fact \in [record : Nat, wallet : Nat, campaign : Nat, inflight : BOOLEAN, conflict : BOOLEAN, minting : BOOLEAN]
         /\ ~act.again /\ ~act.late /\ act.age <= ConfirmLife /\ ActsAsReviewed
BY DEF FlowsInv, FlowsTypeOK, FlowsSafety

\* Nothing of the flow changes but its job, and perhaps the observed acts.
LEMMA DoneKeeps ==
  ASSUME FlowsInv, UNCHANGED <<flow, open, buttons, dead>>, job.at \in Lasts,
         \/ job' = Idle
         \/ job' = At("second") /\ flow.kind \notin {"simulate", "fire", "schedule"} /\ job.at = "first"
         \/ job' = At("third") /\ flow.kind # "release" /\ job.at = "second"
         \/ job' = At("third") /\ flow.kind = "release" /\ job.at = "second" /\ acted' = acted \cup {flow.id},
         acted' = acted \/ (acted' = acted \cup {flow.id} /\ flow.kind # "simulate" /\ job'.at \in {"idle", "third"} /\ (job'.at = "third" => flow.kind = "release"))
  PROVE  FlowState'
<1>1. /\ job' \in Jobs /\ ~job'.late /\ job'.age <= ConfirmLife /\ flow.id > 0 /\ Name = "review"
      /\ open => flow.kind = "simulate"
      /\ job.at = "second" => flow.kind \notin {"simulate", "fire", "schedule"}
  BY IdleIs, JobParts DEF FlowsInv, FlowMade, RightJob, Lasts
<1>a. flow.id \in 1 .. flow.id /\ flow.id \in 1 .. MaxFlows
  BY <1>1, InvParts, BoundsAreNat
<1>b. acted \subseteq 1 .. flow.id /\ acted \subseteq 1 .. MaxFlows /\ acted' \subseteq acted \cup {flow.id}
  BY DEF FlowsInv, ActsOnce, FlowsTypeOK
<1>2. Name' = Name
  BY DEF Name
<1>3. (StepInPlan /\ FlowMade /\ ButtonsKnown /\ ShownFits)'
  BY <1>1, <1>2 DEF FlowsInv, StepInPlan, FlowMade, ButtonsKnown, ShownFits
<1>4. Controls'
  BY <1>2, <1>1 DEF FlowsInv, Controls, Lasts
<1>5. job'.at \in {"idle", "second", "third"}
  BY IdleIs, JobParts
<1>6. RightJob'
  BY <1>1, <1>2, <1>5, IdleIs, JobParts DEF RightJob, Lasts
<1>7. ActsOnce'
  <2>1. acted' \subseteq 1 .. flow.id
    BY <1>a, <1>b
  <2>2. CASE acted' = acted
    BY <2>1, <2>2, IdleIs, JobParts DEF FlowsInv, ActsOnce, CanAct, Lasts
  <2>3. CASE acted' # acted
    <3>1. ~CanAct'
      BY <1>1, <2>3 DEF CanAct
    <3> QED BY <2>1, <3>1 DEF ActsOnce
  <2> QED BY <2>2, <2>3
<1>8. (KillHeeded /\ SoonEnough)'
  BY <1>1 DEF FlowsInv, KillHeeded, SoonEnough
<1>9. acted' \subseteq 1 .. MaxFlows
  BY <1>a, <1>b
<1> QED BY <1>1, <1>3, <1>4, <1>6, <1>7, <1>8, <1>9, FlowStateNow DEF FlowState, FlowParts

\* The next flow of a chain is made, or the bound is reached and nothing follows.
LEMMA OnwardKeeps ==
  ASSUME FlowsInv, NEW k \in AllKinds, k # "prepare", NEW s \in 1 .. Review(k), NEW o \in BOOLEAN, OnwardOrEnd(k, s, o), dead' = dead,
         job.at \in Lasts, acted' = acted \/ (acted' = acted \cup {flow.id} /\ flow.kind # "simulate")
  PROVE  FlowState'
<1>1. flow.id > 0
  BY DEF FlowsInv, FlowMade, Lasts
<1>2. CASE flow.id < MaxFlows
  <2> DEFINE c == k # "simulate"
  <2>1. Make(k, s, o) /\ job' = [Idle EXCEPT !.at = "render", !.chained = c]
    BY <1>2, Zenon DEF OnwardOrEnd, Onward
  <2>2. c \in BOOLEAN
    OBVIOUS
  <2> HIDE DEF c
  <2>3. job' \in Jobs /\ job'.at = "render" /\ ~job'.late /\ job'.age = 0
    <3>1. job' = [[Idle EXCEPT !.at = "render"] EXCEPT !.chained = c]
      BY <2>1, Zenon
    <3> DEFINE j1 == [Idle EXCEPT !.at = "render"]
    <3>2. j1 \in Jobs /\ j1.at = "render" /\ j1.late = FALSE /\ j1.age = 0
      <4>1. Idle \in Jobs /\ Idle.late = FALSE /\ Idle.age = 0
        BY IdleIs DEF Idle
      <4> QED BY <4>1 DEF Jobs
    <3> HIDE DEF j1
    <3>3. job' = [j1 EXCEPT !.chained = c]
      BY <3>1 DEF j1
    <3> QED BY <2>2, <3>2, <3>3 DEF Jobs
  <2>4. job'.age <= ConfirmLife
    BY <2>3, IdleIs
  <2> QED BY <1>1, <2>1, <2>3, <2>4, MakeKeeps DEF FlowState
<1>3. CASE ~(flow.id < MaxFlows)
  <2>1. job' = Idle /\ UNCHANGED <<flow, open, buttons>>
    BY <1>3 DEF OnwardOrEnd
  <2> QED BY <2>1, IdleIs, DoneKeeps
<1> QED BY <1>2, <1>3

\* What was done is what the summary showed, and it is the flow's first act.
LEMMA ActIs ==
  ASSUME FlowsInv, job.at \in Lasts, flow.kind # "release" \/ job.at # "third",
         Did(flow.shown.what, flow.shown.wallets)
  PROVE  (~act.again /\ ~act.late /\ act.age <= ConfirmLife /\ ActsAsReviewed)' /\ acted' = acted \cup {flow.id}
<1>1. flow.id \notin acted /\ ~job.late /\ job.age <= ConfirmLife
  BY DEF FlowsInv, ActsOnce, CanAct, Lasts, KillHeeded, SoonEnough
<1>2. act' = [what |-> flow.shown.what, wallets |-> flow.shown.wallets, shown |-> flow.shown, age |-> job.age, late |-> job.late,
              again |-> flow.id \in acted] /\ acted' = acted \cup {flow.id}
  BY DEF Did
<1>3. act'.what = flow.shown.what /\ act'.wallets = flow.shown.wallets /\ act'.shown = flow.shown
  BY <1>2
<1>4. act'.age = job.age /\ act'.late = job.late /\ act'.again = (flow.id \in acted)
  BY <1>2
<1> QED BY <1>1, <1>2, <1>3, <1>4 DEF ActsAsReviewed

\* The first look of the last tap.
LEMMA FirstKeeps ==
  ASSUME FlowsInv, First
  PROVE  FlowsInv'
<1>1. job.at = "first" /\ job.at \in Lasts /\ flow.id > 0 /\ job.at # "render"
  BY DEF First, Lasts, FlowsInv, FlowMade
<1>2. CASE NotDone
  BY <1>1, <1>2, NotDoneKeeps
<1>3. ASSUME Further("second"), flow.kind \notin {"simulate", "fire", "schedule"}
      PROVE  FlowsInv'
  <2>1. job' = At("second") /\ UNCHANGED <<flow, open, buttons, clock, world, observers, changes>>
    BY <1>3 DEF Further, Same
  <2>2. FlowState'
    BY <1>1, <1>3, <2>1, DoneKeeps DEF observers
  <2>3. Engagements'
    BY <2>1, WorldNow DEF Engagements, world, observers
  <2>4. (~act.again /\ ~act.late /\ act.age <= ConfirmLife /\ ActsAsReviewed)'
    BY <2>1, WorldNow DEF ActsAsReviewed, observers
  <2> QED BY <2>1, <2>2, <2>3, <2>4, WorldNow, Together DEF world, observers
<1>4. ASSUME Started, Matches(CampaignDigest), flow.kind \notin {"simulate", "release"}
      PROVE  FlowsInv'
  <2>1. Did(flow.shown.what, flow.shown.wallets) /\ job' = Idle /\ UNCHANGED <<flow, open, buttons, clock, world, dead, engaged, changes>>
    BY <1>4 DEF Started, Matches
  <2>2. (~act.again /\ ~act.late /\ act.age <= ConfirmLife /\ ActsAsReviewed)' /\ acted' = acted \cup {flow.id}
    BY <1>1, <1>4, <2>1, ActIs
  <2>3. FlowState'
    BY <1>1, <1>4, <2>1, <2>2, IdleIs, DoneKeeps
  <2>4. Engagements'
    BY <2>1, WorldNow DEF Engagements, world
  <2> QED BY <2>1, <2>2, <2>3, <2>4, WorldNow, Together DEF world
<1>5. ASSUME dead' = dead, UNCHANGED <<clock, kill, fact, able, observers, changes>>, tested' \in SUBSET Wallets, FlowState'
      PROVE  FlowsInv'
  <2>1. Engagements'
    BY <1>5, WorldNow DEF Engagements, observers
  <2>2. (~act.again /\ ~act.late /\ act.age <= ConfirmLife /\ ActsAsReviewed)'
    BY <1>5, WorldNow DEF ActsAsReviewed, observers
  <2> QED BY <1>5, <2>1, <2>2, WorldNow, Together DEF observers
<1>6. CASE flow.kind = "release" /\ ReleaseFirst
  <2>1. CASE ReleasePhrase = None
    <3>1. UNCHANGED <<clock, world, observers, changes>>
      BY <1>6, <2>1 DEF ReleaseFirst
    <3>2. OnwardOrEnd("request", 2, FALSE) \/ (job' = Idle /\ UNCHANGED <<flow, open, buttons>>)
      BY <1>6, <2>1 DEF ReleaseFirst
    <3>3. CASE OnwardOrEnd("request", 2, FALSE)
      <4>1. "request" \in AllKinds /\ 2 \in 1 .. Review("request")
        BY DEF AllKinds, Plan, Review
      <4>2. FlowState'
        BY <1>1, <3>1, <3>3, <4>1, OnwardKeeps DEF observers
      <4> QED BY <1>5, <3>1, <4>2, WorldNow DEF world, observers
    <3>4. CASE job' = Idle /\ UNCHANGED <<flow, open, buttons>>
      <4>1. FlowState'
        BY <1>1, <3>1, <3>4, DoneKeeps DEF observers
      <4> QED BY <1>5, <3>1, <4>1, WorldNow DEF world, observers
    <3> QED BY <3>2, <3>3, <3>4
  <2>2. CASE ReleasePhrase # None
    BY <1>2, <1>3, <1>6, <2>2 DEF ReleaseFirst
  <2> QED BY <2>1, <2>2
<1>7. CASE flow.kind = "simulate" /\ RecordTestMints
  <2>1. CASE SimulateCampaign # {}
    <3>1. /\ tested' = tested \cup SimulateCampaign /\ OnwardOrEnd("release", 1, TRUE)
          /\ UNCHANGED <<clock, kill, fact, able, observers, changes>>
      BY <1>7, <2>1 DEF RecordTestMints
    <3>2. "release" \in AllKinds /\ 1 \in 1 .. Review("release")
      BY DEF AllKinds, Plan, Review
    <3>3. FlowState'
      BY <1>1, <3>1, <3>2, OnwardKeeps DEF observers
    <3>4. tested' \in SUBSET Wallets
      BY <3>1, WorldNow DEF SimulateCampaign, CheckDrop
    <3> QED BY <1>5, <3>1, <3>3, <3>4 DEF observers
  <2>2. CASE SimulateCampaign = {}
    BY <1>2, <1>7, <2>2 DEF RecordTestMints
  <2> QED BY <2>1, <2>2
<1>8. CASE flow.kind = "fire" /\ FireNow
  BY <1>2, <1>4, <1>8 DEF FireNow
<1>9. CASE flow.kind = "schedule" /\ ScheduleCreate
  BY <1>2, <1>4, <1>9 DEF ScheduleCreate
<1>10. CASE flow.kind = "prepare" /\ IF PlanUnchanged THEN Further("second") ELSE NotDone
  BY <1>2, <1>3, <1>10
<1>11. CASE flow.kind = "revoke" /\ RevokeNow
  BY <1>2, <1>3, <1>11 DEF RevokeNow
<1>12. CASE flow.kind = "request" /\ RequestSend
  BY <1>2, <1>3, <1>12 DEF RequestSend
<1>13. CASE flow.kind \notin {"release", "simulate", "fire", "schedule", "prepare", "revoke", "request"} /\ WatchAcceptNow
  BY <1>2, <1>3, <1>13 DEF WatchAcceptNow
<1> QED BY <1>6, <1>7, <1>8, <1>9, <1>10, <1>11, <1>12, <1>13 DEF First

\* The second look, in the action itself.
LEMMA SecondKeeps ==
  ASSUME FlowsInv, Second
  PROVE  FlowsInv'
<1>1. job.at = "second" /\ job.at \in Lasts /\ flow.id > 0 /\ job.at # "render" /\ Name = "review"
      /\ flow.kind \notin {"simulate", "fire", "schedule"}
  BY DEF Second, Lasts, FlowsInv, FlowMade, RightJob
<1>2. CASE NotDone
  BY <1>1, <1>2, NotDoneKeeps
<1>3. ASSUME Further("third"), flow.kind # "release"
      PROVE  FlowsInv'
  <2>1. job' = At("third") /\ UNCHANGED <<flow, open, buttons, clock, world, observers, changes>>
    BY <1>3 DEF Further, Same
  <2>2. FlowState'
    BY <1>1, <1>3, <2>1, DoneKeeps DEF observers
  <2>3. Engagements'
    BY <2>1, WorldNow DEF Engagements, world, observers
  <2>4. (~act.again /\ ~act.late /\ act.age <= ConfirmLife /\ ActsAsReviewed)'
    BY <2>1, WorldNow DEF ActsAsReviewed, observers
  <2> QED BY <2>1, <2>2, <2>3, <2>4, WorldNow, Together DEF world, observers
<1>4. flow.kind \in {"release", "revoke"} => flow.shown.wallets = {}
  BY DEF FlowsInv, ShownFits
<1>5. CASE flow.kind = "release" /\ Release
  <2>1. CASE Matches(ReleasePhrase)
    <3>1. /\ kill' = [kill EXCEPT !.flag = 0] /\ Did(kill.flag, {}) /\ job' = At("third")
          /\ UNCHANGED <<flow, open, buttons, clock, fact, able, tested, dead, engaged, changes>>
      BY <1>5, <2>1 DEF Release
    <3>2. kill.flag = flow.shown.what
      BY <2>1 DEF Matches, ReleasePhrase, KillReleasePhrase, FileOnly
    <3>3. (~act.again /\ ~act.late /\ act.age <= ConfirmLife /\ ActsAsReviewed)' /\ acted' = acted \cup {flow.id}
      BY <1>1, <1>4, <1>5, <3>1, <3>2, ActIs
    <3>4. FlowState'
      BY <1>1, <1>5, <3>1, <3>3, JobParts, DoneKeeps
    <3>5. kill' \in [flag : 0 .. MaxChanges + 1, file : BOOLEAN] /\ kill'.flag = 0
      BY <3>1, WorldNow, BoundsAreNat
    <3>6. Engagements'
      BY <3>1, <3>5, WorldNow, BoundsAreNat DEF Engagements, FlowsInv, FlowsTypeOK
    <3> QED BY <3>1, <3>3, <3>4, <3>5, <3>6, WorldNow, Together
  <2>2. CASE ~Matches(ReleasePhrase)
    BY <1>2, <1>5, <2>2 DEF Release
  <2> QED BY <2>1, <2>2
<1>6. CASE flow.kind = "revoke" /\ Revoke
  <2>1. CASE Matches(RevokePhrase)
    <3>1. /\ fact' = [fact EXCEPT !.record = 0] /\ Did(fact.record, {}) /\ job' = Idle
          /\ UNCHANGED <<flow, open, buttons, clock, kill, able, tested, dead, engaged, changes>>
      BY <1>6, <2>1 DEF Revoke
    <3>2. fact.record = flow.shown.what
      BY <2>1 DEF Matches, RevokePhrase
    <3>3. (~act.again /\ ~act.late /\ act.age <= ConfirmLife /\ ActsAsReviewed)' /\ acted' = acted \cup {flow.id}
      BY <1>1, <1>4, <1>6, <3>1, <3>2, ActIs
    <3>4. FlowState'
      BY <1>1, <1>6, <3>1, <3>3, IdleIs, DoneKeeps
    <3>5. fact' \in [record : Nat, wallet : Nat, campaign : Nat, inflight : BOOLEAN, conflict : BOOLEAN, minting : BOOLEAN]
      BY <3>1, WorldNow
    <3>6. Engagements'
      BY <3>1, WorldNow DEF Engagements
    <3> QED BY <3>1, <3>3, <3>4, <3>5, <3>6, WorldNow, Together
  <2>2. CASE ~Matches(RevokePhrase)
    BY <1>2, <1>6, <2>2 DEF Revoke
  <2> QED BY <2>1, <2>2
<1>7. CASE flow.kind = "prepare" /\ Prepare
  <2> DEFINE S == flow.shown.wallets
  <2>1. CASE IF flow.robinhood THEN RobinhoodPrepareAllowed(S) ELSE EvmPrepareAllowed(S)
    <3>1. /\ Did(PlanPhrase(S), ReadyOf(S)) /\ OnwardOrEnd("simulate", 2, FALSE)
          /\ UNCHANGED <<clock, world, dead, engaged, changes>>
      BY <1>7, <2>1 DEF Prepare
    <3>2. PlanPhrase(S) # None /\ PlanPhrase(S) = flow.shown.what
      BY <2>1 DEF RobinhoodPrepareAllowed, EvmPrepareAllowed, Matches
    <3>3. S \in SUBSET Wallets
      BY InvParts DEF FlowRecords, Shown
    <3>4. flow.shown.what = Cardinality(S)
      BY <1>1, <1>7 DEF FlowsInv, ShownFits
    <3>5. ReadyOf(S) = S
      <4> HIDE DEF S
      <4>1. ReadyOf(S) \in SUBSET S /\ Cardinality(S) = Cardinality(ReadyOf(S))
        BY <3>2, <3>3, <3>4, ReadyFacts
      <4> QED BY <3>3, <4>1, SameSize
    <3>6. Did(flow.shown.what, flow.shown.wallets)
      BY <3>1, <3>2, <3>5
    <3>7. (~act.again /\ ~act.late /\ act.age <= ConfirmLife /\ ActsAsReviewed)' /\ acted' = acted \cup {flow.id}
      BY <1>1, <1>7, <3>6, ActIs
    <3>8. "simulate" \in AllKinds /\ 2 \in 1 .. Review("simulate")
      BY DEF AllKinds, Plan, Review
    <3>9. FlowState'
      BY <1>1, <1>7, <3>1, <3>7, <3>8, OnwardKeeps
    <3>10. Engagements'
      BY <3>1, WorldNow DEF Engagements, world
    <3> QED BY <3>1, <3>7, <3>9, <3>10, WorldNow, Together DEF world
  <2>2. CASE ~IF flow.robinhood THEN RobinhoodPrepareAllowed(S) ELSE EvmPrepareAllowed(S)
    BY <1>2, <1>7, <2>2 DEF Prepare
  <2> QED BY <2>1, <2>2
<1>8. CASE flow.kind = "request" /\ RequestCreate
  BY <1>2, <1>3, <1>8 DEF RequestCreate
<1>9. CASE flow.kind \notin {"release", "revoke", "prepare", "request"} /\ Accept
  BY <1>2, <1>3, <1>9 DEF Accept
<1> QED BY <1>5, <1>6, <1>7, <1>8, <1>9 DEF Second

\* What follows the last await.
LEMMA ThirdKeeps ==
  ASSUME FlowsInv, Third
  PROVE  FlowsInv'
<1>1. job.at = "third" /\ job.at \in Lasts /\ flow.id > 0 /\ flow.kind \notin {"simulate", "fire", "schedule"}
  BY DEF Third, Lasts, FlowsInv, FlowMade, RightJob
<1>2. CASE flow.kind = "release"
  <2>1. kill' = [kill EXCEPT !.file = FALSE] /\ UNCHANGED <<clock, fact, able, tested, observers, changes>>
    BY <1>2 DEF Third
  <2>2. OnwardOrEnd("request", 2, FALSE) \/ (job' = Idle /\ UNCHANGED <<flow, open, buttons>>)
    BY <1>2 DEF Third
  <2>3. "request" \in AllKinds /\ 2 \in 1 .. Review("request")
    BY DEF AllKinds, Plan, Review
  <2>4. FlowState'
    BY <1>1, <2>1, <2>2, <2>3, OnwardKeeps, DoneKeeps DEF observers
  <2>5. kill' \in [flag : 0 .. MaxChanges + 1, file : BOOLEAN] /\ kill'.flag = kill.flag
    BY <2>1, WorldNow
  <2>6. Engagements'
    BY <2>1, <2>5, WorldNow DEF Engagements, observers
  <2>7. (~act.again /\ ~act.late /\ act.age <= ConfirmLife /\ ActsAsReviewed)'
    BY <2>1, WorldNow DEF ActsAsReviewed, observers
  <2> QED BY <2>1, <2>4, <2>5, <2>6, <2>7, WorldNow, Together DEF observers
<1>3. CASE flow.kind # "release"
  <2>1. Did(flow.shown.what, flow.shown.wallets) /\ job' = Idle /\ UNCHANGED <<flow, open, buttons, clock, world, dead, engaged, changes>>
    BY <1>3 DEF Third
  <2>2. (~act.again /\ ~act.late /\ act.age <= ConfirmLife /\ ActsAsReviewed)' /\ acted' = acted \cup {flow.id}
    BY <1>1, <1>3, <2>1, ActIs
  <2>3. FlowState'
    BY <1>1, <1>3, <2>1, <2>2, IdleIs, DoneKeeps
  <2>4. Engagements'
    BY <2>1, WorldNow DEF Engagements, world
  <2> QED BY <2>1, <2>2, <2>3, <2>4, WorldNow, Together DEF world
<1> QED BY <1>2, <1>3

\* The invariant holds at first, ...
LEMMA FlowsStart ==
  ASSUME FlowsInit
  PROVE  FlowsInv
<1>1. Nothing \in Shown /\ None \in None .. MaxClock /\ 0 \in 0 .. MaxWrong /\ 0 \in 0 .. MaxClock /\ 0 \in 0 .. MaxFlows /\ 1 \in Steps
      /\ "release" \in AllKinds
  BY BoundsAreNat DEF Nothing, Shown, None, Steps, AllKinds, Plan
<1>2. flow \in FlowRecords
  BY <1>1, Zenon DEF FlowsInit, FlowRecords
<1>3. FlowsTypeOK
  <2>1. job \in Jobs /\ open = FALSE /\ buttons = {} /\ clock \in 0 .. MaxClock /\ acted = {} /\ dead \in 0 .. MaxFlows
    BY BoundsAreNat, IdleIs DEF FlowsInit
  <2>2. kill \in [flag : 0 .. MaxChanges + 1, file : BOOLEAN] /\ engaged \in 0 .. MaxChanges + 1 /\ changes \in 0 .. MaxChanges
    BY BoundsAreNat DEF FlowsInit
  <2>3. fact \in [record : Nat, wallet : Nat, campaign : Nat, inflight : BOOLEAN, conflict : BOOLEAN, minting : BOOLEAN]
    BY DEF FlowsInit
  <2>4. able \in SUBSET Wallets /\ tested \in SUBSET Wallets
    BY DEF FlowsInit
  <2> QED BY <1>2, <2>1, <2>2, <2>3, <2>4 DEF FlowsTypeOK, FlowRecords, Jobs
<1>4. Review("release") = 1 /\ Name = "review"
  BY DEF Review, Plan, Name, FlowsInit
<1>5. StepInPlan /\ FlowMade /\ Controls /\ RightJob /\ ButtonsKnown
  BY <1>4 DEF FlowsInit, Idle, StepInPlan, FlowMade, Controls, RightJob, Lasts, ButtonsKnown
<1>6. ActsOnce /\ KillHeeded /\ SoonEnough /\ ShownFits /\ Engagements
  BY BoundsAreNat DEF FlowsInit, Idle, ActsOnce, CanAct, KillHeeded, SoonEnough, ShownFits, Nothing, Engagements
<1>7. FlowsSafety /\ ActsAsReviewed
  BY <1>3, BoundsAreNat DEF FlowsInit, NoAct, Nothing, FlowsSafety, ActsAsReviewed
<1> QED BY <1>3, <1>5, <1>6, <1>7 DEF FlowsInv

\* ... and every step keeps it.
LEMMA FlowsStep ==
  ASSUME FlowsInv, [FlowsNext]_flowVars
  PROVE  FlowsInv'
<1>1. CASE UNCHANGED flowVars
  BY <1>1, NothingKeeps
<1>2. CASE Throws
  BY <1>2, NotDoneKeeps DEF Throws
<1>3. CASE FlowsNext /\ ~Throws
  BY <1>3, BeginKeeps, RunSimulateKeeps, InterruptKeeps, TapKeeps, CancelKeeps, TextKeeps, RenderKeeps, RenderFailsKeeps, TakeKeeps,
     PreviewKeeps, FirstKeeps, SecondKeeps, ThirdKeeps, WorldKeeps, KilledKeeps, KillMovesKeeps, TimeKeeps DEF FlowsNext
<1> QED BY <1>1, <1>2, <1>3

\* ActsAsReviewed: whatever changes between a summary and its tap, whatever old buttons the chat
\* still shows, and however many flows follow each other, what is done is what the summary showed
\* (releaseNow, revokeNow, watchAcceptNow, guidedPrepare, requestSend, fireNow, scheduleCreate).
THEOREM FlowsActAsReviewed == FlowsSpec => []ActsAsReviewed
<1>1. FlowsInv => ActsAsReviewed
  BY DEF FlowsInv
<1> QED BY <1>1, FlowsStart, FlowsStep, PTL DEF FlowsSpec

\* A flow acts at most once, in time, and never on a tap from after the owner's kill (finish, confirmKill).
THEOREM FlowsActOnce == FlowsSpec => []FlowsSafety
<1>1. FlowsInv => FlowsSafety
  BY DEF FlowsInv
<1> QED BY <1>1, FlowsStart, FlowsStep, PTL DEF FlowsSpec

-----------------------------------------------------------------------------
(* Both parts of the chat                                                  *)

\* One part moves, the other rests.
LEMMA ChatStep == AccessInv /\ FlowsInv /\ [AllNext]_allVars => (AccessInv /\ FlowsInv)'
<1> SUFFICES ASSUME AccessInv, FlowsInv, [AllNext]_allVars PROVE (AccessInv /\ FlowsInv)'
  OBVIOUS
<1>1. [AccessNext]_accessVars /\ [FlowsNext]_flowVars
  BY DEF AllNext, AccessPart, FlowPart, allVars
<1> QED BY <1>1, AccessSteps, FlowsStep

\* AllSafety and ActsAsReviewed hold of the chat, whichever part of it moves.
THEOREM ChatProcessSafe == AllSpec => [](AllSafety /\ ActsAsReviewed)
<1>1. AllInit => AccessInv /\ FlowsInv
  BY AccessStarts, FlowsStart DEF AllInit
<1>2. AccessInv /\ FlowsInv => AllSafety /\ ActsAsReviewed
  BY DEF AccessInv, FlowsInv, AllSafety
<1> QED BY <1>1, <1>2, ChatStep, PTL DEF AllSpec

=============================================================================
