----------------------------- MODULE Discovery -----------------------------
(***************************************************************************)
(* The block scan behind the mint alerts (DiscoveryService) and the notice *)
(* about blocks it did not read (intelligence-service).  The scan writes   *)
(* what it found, raises alerts and only then moves its cursor; when it is *)
(* too far behind it records a skipped range and jumps.  A pass over the   *)
(* journal turns skipped ranges into one notice: a plan, the alert, and a  *)
(* coverage mark, three writes with a crash possible between any two.      *)
(*                                                                         *)
(* A block holds at most one mint.  Times are ages that stop growing when  *)
(* nothing can tell them apart; scores are cut down to hot or not.         *)
(***************************************************************************)
EXTENDS Integers, FiniteSets

CONSTANTS
  Contracts,   \* collections seen on the chain
  Hot,         \* the ones scored above the `log` band: they raise an alert
  NoMint,      \* a block without a mint
  Mint,        \* the contract minted in each block
  MaxBlock,    \* bound: last block of the chain
  Lookback,    \* initialLookbackBlocks
  MaxLag,      \* maxLagBlocks
  MaxScans,    \* maxScansPerTick
  MaxRange,    \* most blocks of one answer (maxRange)
  Interval,    \* SKIP_NOTICE_INTERVAL_MS, in clock steps
  Horizon,     \* SKIP_SOURCE_HORIZON_MS, in clock steps
  Faults       \* bound: restarts of the process and transactions that fail

ASSUME DiscoveryAssumption ==
  /\ Hot \subseteq Contracts /\ NoMint \notin Contracts
  /\ Mint \in [1 .. MaxBlock -> Contracts \union {NoMint}]
  /\ {MaxBlock, Lookback, MaxLag, MaxScans, MaxRange, Interval, Horizon} \subseteq Nat \ {0}
  /\ Faults \in Nat /\ Interval < Horizon

VARIABLES
  head,      \* the settled head of the chain
  cursor,    \* the stored cursor; -1: none yet
  first,     \* the block the very first scan started at; -1: none yet
  events,    \* contracts with an opportunity event
  alerted,   \* contracts with an opportunity alert
  skips,     \* discovery_skipped events: ranges and their ages
  plans,     \* discovery_skip_notice_plan events: the ranges each one names
  alerts,    \* skip-summary alerts: the ranges each one names
  notices,   \* discovery_skip_notice events: the ranges each one names
  mem,       \* what the process knows and forgets in a restart
  disc,      \* the discovery tick in progress
  ann,       \* the notice pass in progress
  mishaps,   \* crashes and failed transactions so far
  unstored   \* history: contracts whose event was in a transaction that failed

journal == <<skips, plans, alerts, notices>>
found == <<events, alerted>>
scanVars == <<head, cursor, first, found, journal, mem, disc, ann, mishaps, unstored>>

Ranges == {r \in (1 .. MaxBlock) \X (1 .. MaxBlock) : r[1] <= r[2]}
NoTick == [pc |-> "idle", from |-> 0, head |-> 0, to |-> 0, scans |-> 0, skipped |-> {}]
NoPass == [pc |-> "idle", keys |-> {}]
\* covered and pending: the notice pass; tracked, emitted and seen: the scan;
\* the ages of the last notice and of the last journal read (Interval: no limit).
Blank == [restored |-> FALSE, tracked |-> {}, emitted |-> {}, seen |-> {},
          pending |-> {}, covered |-> {}, sinceNotice |-> Interval, sinceRead |-> Interval]

Keys(S) == {s.range : s \in S}
TooOld(age) == age > Horizon

ScanTypeOK ==
  /\ head \in 1 .. MaxBlock
  /\ cursor \in -1 .. MaxBlock /\ first \in -1 .. MaxBlock
  /\ events \subseteq Contracts /\ alerted \subseteq events
  /\ skips \subseteq [range : Ranges, age : 0 .. Horizon + 1]
  /\ plans \subseteq [keys : SUBSET Ranges, age : 0 .. Horizon + 1]
  /\ notices \subseteq [keys : SUBSET Ranges, age : 0 .. Horizon + 1]
  /\ alerts \subseteq SUBSET Ranges
  /\ mem \in [restored : BOOLEAN, tracked : SUBSET Contracts, emitted : SUBSET Contracts,
              seen : SUBSET (1 .. MaxBlock), pending : SUBSET Ranges, covered : SUBSET Ranges,
              sinceNotice : 0 .. Interval, sinceRead : 0 .. Interval]
  /\ mem.emitted \subseteq mem.tracked
  /\ disc \in [pc : {"idle", "skip", "scan", "emit", "raise", "done"}, from : 0 .. MaxBlock + 1,
               head : 0 .. MaxBlock, to : 0 .. MaxBlock, scans : 0 .. MaxScans, skipped : SUBSET Ranges]
  /\ ann \in [pc : {"idle", "planned", "alerted"}, keys : SUBSET Ranges]
  /\ mishaps \in 0 .. Faults
  /\ unstored \subseteq Contracts

ScanInit ==
  /\ head = 1 /\ cursor = -1 /\ first = -1
  /\ events = {} /\ alerted = {}
  /\ skips = {} /\ plans = {} /\ alerts = {} /\ notices = {}
  /\ mem = Blank /\ disc = NoTick /\ ann = NoPass
  /\ mishaps = 0 /\ unstored = {}

StoreFails ==
  /\ mishaps < Faults
  /\ mishaps' = mishaps + 1

-----------------------------------------------------------------------------
(* The scan: DiscoveryService.tick                                         *)

\* restore: what was scored is tracked again, as already written; what was
\* notified is not read back, so it is found anew.
Restored == IF mem.restored THEN mem
            ELSE [mem EXCEPT !.restored = TRUE, !.tracked = events \ Hot, !.emitted = events \ Hot]

From == IF cursor = -1 THEN (IF head > Lookback THEN head - Lookback ELSE 1) ELSE cursor + 1
Resume == head - Lookback
Behind == /\ cursor # -1 /\ head - cursor > MaxLag /\ head > Lookback
          /\ Resume > From

\* The scan is too far behind: the range it will not read is stored first.
Jump ==
  /\ disc.pc = "idle" /\ Behind
  /\ skips' = skips \union {[range |-> <<From, Resume - 1>>, age |-> 0]}
  /\ disc' = [NoTick EXCEPT !.pc = "skip", !.from = Resume, !.head = head,
                          !.skipped = {<<From, Resume - 1>>}]
  /\ mem' = Restored
  /\ UNCHANGED <<head, cursor, first, found, plans, alerts, notices, ann, mishaps, unstored>>

JumpCursor ==
  /\ disc.pc = "skip"
  /\ cursor' = disc.from - 1
  /\ disc' = [disc EXCEPT !.pc = "scan"]
  /\ UNCHANGED <<head, first, found, journal, mem, ann, mishaps, unstored>>

\* A tick begins from the cursor; at the head it only refreshes what it has.
TickBegin ==
  /\ disc.pc = "idle" /\ ~Behind
  /\ disc' = [NoTick EXCEPT !.pc = IF From > head THEN "emit" ELSE "scan",
                          !.from = From, !.head = head, !.to = head]
  /\ mem' = Restored
  /\ UNCHANGED <<head, cursor, first, found, journal, ann, mishaps, unstored>>

\* clamp: the last block of a slice of at most `range' blocks.
SliceEnd(range) == IF disc.head - disc.from + 1 > range THEN disc.from + range - 1 ELSE disc.head

\* The slices the provider may answer for: the range is halved whenever it says
\* that the range is too large, and doubled after ten answers in a row.
Answers == {SliceEnd(range) : range \in 1 .. MaxRange}

\* The blocks of a slice with a mint; logs outside it are dropped.
MintsIn(from, to) == {b \in from .. to : Mint[b] # NoMint}

\* scan: the provider answers for a slice; a mint seen before is not counted again.
Scan ==
  /\ disc.pc = "scan" /\ disc.from <= disc.head /\ disc.scans < MaxScans
  /\ \E to \in Answers :
       LET new == MintsIn(disc.from, to) \ mem.seen IN
       /\ disc' = [disc EXCEPT !.pc = "emit", !.to = to, !.scans = @ + 1]
       /\ mem' = [mem EXCEPT !.seen = @ \union new,
                             !.tracked = @ \union {Mint[b] : b \in new}]
  /\ UNCHANGED <<head, cursor, first, found, journal, ann, mishaps, unstored>>

\* The transaction that stores a watched wallet's mint fails half way through the slice:
\* the tick throws, and the mints before it stay tracked.
WatchedMintFails ==
  /\ disc.pc = "scan" /\ disc.from <= disc.head /\ disc.scans < MaxScans
  /\ StoreFails
  /\ \E to \in disc.from .. disc.head :
       LET new == MintsIn(disc.from, to) \ mem.seen IN
       /\ new # {}
       /\ mem' = [mem EXCEPT !.seen = @ \union new,
                             !.tracked = @ \union {Mint[b] : b \in new}]
  /\ disc' = NoTick
  /\ UNCHANGED <<head, cursor, first, found, journal, ann, unstored>>

\* The provider does not answer, refuses even one block, or answers with a log the
\* chain has dropped: the tick ends with what it has.
ScanUnavailable ==
  /\ disc.pc = "scan"
  /\ disc' = [disc EXCEPT !.pc = "done"]
  /\ UNCHANGED <<head, cursor, first, found, journal, mem, ann, mishaps, unstored>>

\* emitOpportunities: an event for every new item and, when the scan reached the
\* head, for some that are due for a refresh.  The item is marked as written
\* before the transaction; when that fails the tick throws.
EmitOpportunities ==
  /\ disc.pc = "emit"
  /\ \E refresh \in IF disc.to >= disc.head THEN SUBSET mem.emitted ELSE {{}} :
       LET due == (mem.tracked \ mem.emitted) \union refresh IN
       /\ mem' = [mem EXCEPT !.emitted = @ \union due]
       /\ \/ /\ events' = events \union due
             /\ disc' = [disc EXCEPT !.pc = "raise"]
             /\ UNCHANGED <<mishaps, unstored>>
          \/ /\ due # {} /\ StoreFails
             /\ unstored' = unstored \union due
             /\ disc' = NoTick
             /\ UNCHANGED events
  /\ UNCHANGED <<head, cursor, first, alerted, journal, ann>>

\* raise, emitCalendar and advanceCursor: an alert that is not stored is not tried again
\* here, and when the transaction of the calendar fails the tick throws.
RaiseAndAdvance ==
  /\ disc.pc = "raise"
  /\ \E stored \in SUBSET (mem.emitted \intersect events \intersect Hot) : alerted' = alerted \union stored
  /\ \/ /\ cursor' = disc.to
        /\ first' = IF first = -1 THEN disc.from ELSE first
        /\ disc' = [disc EXCEPT !.pc = "scan", !.from = disc.to + 1]
        /\ UNCHANGED mishaps
     \/ /\ StoreFails
        /\ disc' = NoTick
        /\ UNCHANGED <<cursor, first>>
  /\ UNCHANGED <<head, events, journal, mem, ann, unstored>>

TickEnd ==
  /\ disc.pc = "scan" /\ (disc.from > disc.head \/ disc.scans = MaxScans)
  /\ disc' = [disc EXCEPT !.pc = "done"]
  /\ UNCHANGED <<head, cursor, first, found, journal, mem, ann, mishaps, unstored>>

\* runDiscovery: the range the tick reports waits for the next notice.
TickReported ==
  /\ disc.pc = "done"
  /\ mem' = [mem EXCEPT !.pending = @ \union (disc.skipped \ mem.covered)]
  /\ disc' = NoTick
  /\ UNCHANGED <<head, cursor, first, found, journal, ann, mishaps, unstored>>

-----------------------------------------------------------------------------
(* The notice: announcePendingSkips                                        *)

\* Mutant: a plan counts although its alert was never stored.
CoveringPlanAlone == {e \in plans \union notices : ~TooOld(e.age)}

\* Mutant: a restart forgets the alerts that have no mark yet.
CoveringMarked == {e \in notices : ~TooOld(e.age)}

\* The journal entries that count: notices, and plans whose alert exists.
Covering == {e \in notices : ~TooOld(e.age)}
              \union {e \in plans : ~TooOld(e.age) /\ e.keys \in alerts}

\* loadSkipJournal: coverage and waiting ranges rebuilt from the journal.
Loaded ==
  LET covered == UNION {e.keys : e \in Covering}
      ages == {e.age : e \in Covering} \union {Interval}
      young == CHOOSE a \in ages : \A b \in ages : a <= b
      fresh == {s \in skips : ~TooOld(s.age)} IN
  [mem EXCEPT !.covered = covered,
              !.pending = (Keys(fresh) \union {k \in @ : \E s \in fresh : s.range = k}) \ covered,
              !.sinceNotice = young,
              !.sinceRead = 0]

\* The pass: the journal at most once per interval, one notice per interval,
\* every waiting range in it.  The plan is stored first, under an identity made
\* of the ranges.
AnnounceBegin ==
  /\ ann.pc = "idle"
  /\ LET m == IF mem.sinceRead >= Interval THEN Loaded ELSE mem
         old == {s.range : s \in {x \in skips : TooOld(x.age)}}
         keys == (m.pending \ m.covered) \ old IN
     /\ mem' = m
     /\ IF m.sinceNotice < Interval \/ keys = {}
        THEN UNCHANGED <<plans, ann, mishaps>>
        ELSE \/ /\ plans' = IF \E p \in plans : p.keys = keys THEN plans
                            ELSE plans \union {[keys |-> keys, age |-> 0]}
                /\ ann' = [pc |-> "planned", keys |-> keys]
                /\ UNCHANGED mishaps
             \/ /\ StoreFails
                /\ UNCHANGED <<plans, ann>>
  /\ UNCHANGED <<head, cursor, first, found, skips, alerts, notices, disc, unstored>>

\* The alert; the ranges count as covered only when it is stored.
AnnounceAlert ==
  /\ ann.pc = "planned"
  /\ \/ /\ alerts' = alerts \union {ann.keys}
        /\ UNCHANGED mishaps
     \/ /\ StoreFails
        /\ UNCHANGED alerts
  /\ IF ann.keys \in alerts'
     THEN /\ mem' = [mem EXCEPT !.covered = @ \union ann.keys, !.pending = @ \ ann.keys,
                                !.sinceNotice = 0]
          /\ ann' = [ann EXCEPT !.pc = "alerted"]
     ELSE /\ ann' = NoPass
          /\ UNCHANGED mem
  /\ UNCHANGED <<head, cursor, first, found, skips, plans, notices, disc, unstored>>

AnnounceMark ==
  /\ ann.pc = "alerted"
  /\ \/ /\ notices' = IF \E n \in notices : n.keys = ann.keys THEN notices
                      ELSE notices \union {[keys |-> ann.keys, age |-> 0]}
        /\ UNCHANGED mishaps
     \/ /\ StoreFails
        /\ UNCHANGED notices
  /\ ann' = NoPass
  /\ UNCHANGED <<head, cursor, first, found, skips, plans, alerts, mem, disc, unstored>>

-----------------------------------------------------------------------------
Grow ==
  /\ head < MaxBlock
  /\ head' = head + 1
  /\ UNCHANGED <<cursor, first, found, journal, mem, disc, ann, mishaps, unstored>>

Announced(r) == \E a \in alerts : r \in a

\* The events one clock step later.
Older(S) == {[e EXCEPT !.age = IF @ > Horizon THEN @ ELSE @ + 1] : e \in S}

\* Time passes.  The timer of the pass begins one in every Interval, which reads the
\* journal, and a pass (three writes) ends before the next clock step; a process that
\* dies is started again by then.
Tick ==
  /\ ann.pc = "idle" /\ mem.sinceRead < Interval
  /\ skips' = Older(skips) /\ plans' = Older(plans) /\ notices' = Older(notices)
  /\ mem' = [mem EXCEPT !.sinceNotice = IF @ = Interval THEN @ ELSE @ + 1,
                        !.sinceRead = IF @ = Interval THEN @ ELSE @ + 1]
  /\ UNCHANGED <<head, cursor, first, found, alerts, disc, ann, mishaps, unstored>>

ScanCrash ==
  /\ mishaps < Faults
  /\ mishaps' = mishaps + 1
  /\ mem' = Blank /\ disc' = NoTick /\ ann' = NoPass
  /\ UNCHANGED <<head, cursor, first, found, journal, unstored>>

ScanNext ==
  \/ Jump \/ JumpCursor \/ TickBegin \/ Scan \/ WatchedMintFails \/ ScanUnavailable \/ EmitOpportunities
  \/ RaiseAndAdvance \/ TickEnd \/ TickReported
  \/ AnnounceBegin \/ AnnounceAlert \/ AnnounceMark
  \/ Grow \/ Tick \/ ScanCrash

\* The pass has a timer of its own, its writes return, and time goes on.
Fairness ==
  /\ WF_scanVars(AnnounceBegin) /\ WF_scanVars(AnnounceAlert) /\ WF_scanVars(AnnounceMark)
  /\ WF_scanVars(Tick)

ScanSpec == ScanInit /\ [][ScanNext]_scanVars /\ Fairness

-----------------------------------------------------------------------------
(* Properties                                                              *)

\* The stored state accounts for block `b`: it was read and its collection has an
\* event, or it lies in a stored skipped range.
Accounted(b) ==
  \/ b < first \/ Mint[b] = NoMint
  \/ Mint[b] \in events
  \/ \E s \in skips : s.range[1] <= b /\ b <= s.range[2]

\* Every block behind the cursor is accounted for, so a crash between two writes
\* repeats work and never loses any; a transaction that fails is the exception
\* (discovery.ts tick).
CursorIsBacked ==
  \A b \in 1 .. cursor : Accounted(b) \/ Mint[b] \in unstored

\* The same without the exception: "The cursor moves only after this range's
\* events are durable, so a crash replays rather than skips" (discovery.ts:179).
CursorWaitsForEvents == \A b \in 1 .. cursor : Accounted(b)

\* A skipped range is in one notice only, whatever restarts fall between its
\* plan, its alert and its mark (intelligence-service.ts announcePendingSkips).
EachSkipOnce ==
  \A a, b \in alerts : a # b => a \intersect b = {}

\* Every skipped range ends up in a notice, also when the tick that found it threw
\* or the process died before it reported it.
SkipsAreAnnounced == []<>(\A s \in skips : Announced(s.range))

\* What holds in every state of the scan: the cursor is backed by stored events, and no skipped
\* range is in two notices.
ScanSafety == ScanTypeOK /\ CursorIsBacked /\ EachSkipOnce
=============================================================================
